-------------------------- MODULE EventStreamProofs --------------------------
(***************************************************************************)
(* Proofs about EventStream: it implements EventChannel, for any number of *)
(* events of any form and size and wherever connections end or break; and  *)
(* the wait between attempts keeps to its bounds.                          *)
(***************************************************************************)
EXTENDS EventStream, SequenceTheorems, TLAPS

DataLine == {Data(e, n) : e \in Event, n \in Nat \ {0}}
Line == DataLine \cup {Other(kind) : kind \in {"blank", "comment", "end", "reset"}}

IsData(line) == line.kind = "data"
IsBlank(line) == line.kind = "blank"

(* What the client has of the stream: the data lines it has put together   *)
(* and those that it has not read yet.                                     *)
Word == pending \o lines
Open == pc \in {"read", "handle"}

-----------------------------------------------------------------------------
(* The invariant, part by part.                                            *)

StreamTyped ==
    /\ pc \in {"connect", "read", "handle", "sleep"} /\ up \in BOOLEAN
    /\ next \in 1 .. Events + 1 /\ sent \in Nat
    /\ sent > 0 => next \in Event /\ sent <= DataLines[next]
    /\ lines \in Seq(Line) /\ pending \in Seq(DataLine)
    /\ log \in Seq(Event) /\ received \in BOOLEAN

(* The lines of a stream come in order and each once; a blank line is      *)
(* between those of two events, and all lines of an event before it.       *)
Ordered(w) ==
    \A i, j \in DOMAIN w : i < j /\ IsData(w[i]) /\ IsData(w[j])
        => \/ w[i].event < w[j].event
           \/ w[i].event = w[j].event /\ w[i].part < w[j].part

Separated(w) ==
    \A i, j \in DOMAIN w :
        i < j /\ IsData(w[i]) /\ IsData(w[j]) /\ w[i].event # w[j].event
        => \E b \in DOMAIN w : i < b /\ b < j /\ IsBlank(w[b])

Whole(w) ==
    \A b \in DOMAIN w, i \in DOMAIN w :
        IsBlank(w[b]) /\ i < b /\ IsData(w[i])
        => \A m \in 1 .. DataLines[w[i].event] :
              \E k \in DOMAIN w : k < b /\ w[k] = Data(w[i].event, m)

FromTheFirst(w) ==
    \A j \in DOMAIN w : IsData(w[j])
        => /\ w[j].part <= DataLines[w[j].event]
           /\ \A m \in Nat : 1 <= m /\ m < w[j].part
                 => \E k \in DOMAIN w : k < j /\ w[k] = Data(w[j].event, m)

EndIsLast(w) == \A i \in DOMAIN w : w[i].kind \in {"end", "reset"} => i = Len(w)

WellFormed(w) ==
    Ordered(w) /\ Separated(w) /\ Whole(w) /\ FromTheFirst(w) /\ EndIsLast(w)

(* What is pending is the beginning of one event. *)
PendingOK ==
    \A i \in DOMAIN pending : pending[i].part = i /\ pending[i].event = pending[1].event

(* signal-cli is past every event of the word, but for the one it sends.   *)
Sent(w) ==
    \A i \in DOMAIN w : IsData(w[i])
        => /\ \/ w[i].event < next
              \/ Connected /\ w[i].event = next /\ w[i].part <= sent
           /\ \A b \in DOMAIN w : i < b /\ IsBlank(w[b]) => w[i].event < next

Sending(w) ==
    /\ \A i \in DOMAIN w : IsData(w[i]) /\ w[i].event < next
                           => \E b \in DOMAIN w : i < b /\ IsBlank(w[b])
    /\ \A m \in 1 .. sent : \E k \in DOMAIN w : w[k] = Data(next, m)

(* The main task has seen events before those of the word only. *)
Seen(w) ==
    \A n \in DOMAIN log, i \in DOMAIN w : IsData(w[i]) => log[n] < w[i].event

IInv ==
    /\ StreamTyped /\ PendingOK
    /\ ~Open => lines = <<>>
    /\ ~Connected => sent = 0
    /\ Open => WellFormed(Word) /\ Sent(Word) /\ Seen(Word)
    /\ Connected => Sending(Word)
    /\ \A n \in DOMAIN log : log[n] < next

(* The wait, as far as it does not need the powers of two. *)
Waiting ==
    /\ backoff \in Initial .. Maximal
    /\ failures \in 0 .. MaxFailures

-----------------------------------------------------------------------------
(* Lines and words.                                                        *)

LEMMA Constants ==
    /\ Events \in Nat /\ Event \subseteq Nat \ {0}
    /\ \A e \in Event : DataLines[e] \in Nat \ {0}
    /\ Initial \in Nat \ {0} /\ Maximal \in Nat /\ Initial <= Maximal
    /\ MaxLines \in Nat /\ MaxFailures \in Nat
BY StreamAssumption DEF StreamAssumption, Event

LEMMA Lines ==
    /\ \A x \in Line : IsData(x) => /\ x.event \in Event /\ x.part \in Nat \ {0}
                                    /\ x = Data(x.event, x.part)
    /\ \A x \in DataLine : IsData(x) /\ ~IsBlank(x) /\ x.kind \notin {"end", "reset"}
    /\ \A e \in Event, n \in Nat \ {0} :
          /\ Data(e, n) \in DataLine /\ IsData(Data(e, n))
          /\ Data(e, n).event = e /\ Data(e, n).part = n
          /\ \A f \in Event, m \in Nat \ {0} : Data(e, n) = Data(f, m) => e = f /\ n = m
    /\ \A kind \in {"blank", "comment", "end", "reset"} :
          Other(kind) \in Line /\ Other(kind).kind = kind
    /\ DataLine \subseteq Line
    /\ \A x \in Line : x.kind = "data" \/ x.kind = "blank" \/ x.kind = "comment"
                       \/ x.kind = "end" \/ x.kind = "reset"
<1>1. ASSUME NEW e \in Event, NEW n \in Nat \ {0}
      PROVE  /\ Data(e, n) \in DataLine /\ IsData(Data(e, n))
             /\ Data(e, n).event = e /\ Data(e, n).part = n
             /\ Data(e, n) = Data(Data(e, n).event, Data(e, n).part)
             /\ ~IsBlank(Data(e, n)) /\ Data(e, n).kind \notin {"end", "reset"}
  BY DEF DataLine, Data, IsData, IsBlank
<1>2. ASSUME NEW e \in Event, NEW n \in Nat \ {0}, NEW f \in Event, NEW m \in Nat \ {0},
             Data(e, n) = Data(f, m)
      PROVE  e = f /\ n = m
  BY <1>1, <1>2
<1>3. ASSUME NEW x \in DataLine
      PROVE  /\ IsData(x) /\ ~IsBlank(x) /\ x.kind \notin {"end", "reset"}
             /\ x.event \in Event /\ x.part \in Nat \ {0} /\ x = Data(x.event, x.part)
  <2>1. PICK e \in Event, n \in Nat \ {0} : x = Data(e, n)
    BY DEF DataLine
  <2>. QED
    BY <1>1, <2>1
<1>4. ASSUME NEW kind \in {"blank", "comment", "end", "reset"}
      PROVE  Other(kind) \in Line /\ Other(kind).kind = kind /\ ~IsData(Other(kind))
  BY DEF Line, Other, IsData
<1>5. ASSUME NEW x \in Line, x \notin DataLine
      PROVE  /\ ~IsData(x)
             /\ x.kind = "blank" \/ x.kind = "comment" \/ x.kind = "end" \/ x.kind = "reset"
  <2>1. PICK kind \in {"blank", "comment", "end", "reset"} : x = Other(kind)
    BY <1>5 DEF Line
  <2>. QED
    BY <1>4, <2>1
<1>6. DataLine \subseteq Line /\ \A x \in DataLine : x.kind = "data"
  BY <1>3 DEF Line, IsData
<1>. QED
  BY <1>1, <1>2, <1>3, <1>4, <1>5, <1>6

LEMMA Words ==
    ASSUME NEW p \in Seq(DataLine), NEW q \in Seq(Line)
    PROVE  /\ p \o q \in Seq(Line) /\ Len(p \o q) = Len(p) + Len(q)
           /\ DOMAIN p = 1 .. Len(p) /\ DOMAIN q = 1 .. Len(q)
           /\ DOMAIN (p \o q) = 1 .. Len(p) + Len(q)
           /\ Len(p) \in Nat /\ Len(q) \in Nat
           /\ \A i \in 1 .. Len(p) : (p \o q)[i] = p[i] /\ p[i] \in DataLine
           /\ \A i \in Len(p) + 1 .. Len(p) + Len(q) : (p \o q)[i] = q[i - Len(p)]
           /\ \A i \in 1 .. Len(q) : (p \o q)[i + Len(p)] = q[i] /\ q[i] \in Line
<1>1. p \in Seq(Line)
  BY Lines, SeqMonotonic
<1>2. /\ p \o q \in Seq(Line) /\ Len(p \o q) = Len(p) + Len(q)
      /\ \A i \in 1 .. Len(p) + Len(q) :
            (p \o q)[i] = IF i <= Len(p) THEN p[i] ELSE q[i - Len(p)]
  BY <1>1, ConcatProperties
<1>3. Len(p) \in Nat /\ DOMAIN p = 1 .. Len(p) /\ \A i \in 1 .. Len(p) : p[i] \in DataLine
  BY LenProperties, ElementOfSeq
<1>4. Len(q) \in Nat /\ DOMAIN q = 1 .. Len(q) /\ \A i \in 1 .. Len(q) : q[i] \in Line
  BY LenProperties, ElementOfSeq
<1>5. DOMAIN (p \o q) = 1 .. Len(p) + Len(q)
  BY <1>2, LenProperties
<1>. DEFINE w == p \o q
<1>. HIDE DEF w
<1>6. \A i \in 1 .. Len(p) + Len(q) : w[i] = IF i <= Len(p) THEN p[i] ELSE q[i - Len(p)]
  BY <1>2 DEF w
<1>7. \A i \in 1 .. Len(p) : w[i] = p[i]
  BY <1>3, <1>4, <1>6
<1>8. \A i \in Len(p) + 1 .. Len(p) + Len(q) : w[i] = q[i - Len(p)]
  BY <1>3, <1>4, <1>6
<1>9. \A i \in 1 .. Len(q) : w[i + Len(p)] = q[i]
  <2>. SUFFICES ASSUME NEW i \in 1 .. Len(q) PROVE w[i + Len(p)] = q[i]
    OBVIOUS
  <2>1. i + Len(p) \in Len(p) + 1 .. Len(p) + Len(q) /\ i + Len(p) - Len(p) = i
    BY <1>3, <1>4
  <2>. QED
    BY <1>8, <2>1
<1>. QED
  BY <1>2, <1>3, <1>4, <1>5, <1>7, <1>8, <1>9 DEF w

(* v is w and one more line. *)
Extends(v, w, x) ==
    /\ Len(w) \in Nat /\ DOMAIN w = 1 .. Len(w)
    /\ Len(v) = Len(w) + 1 /\ DOMAIN v = 1 .. Len(w) + 1
    /\ \A i \in DOMAIN w : v[i] = w[i]
    /\ v[Len(w) + 1] = x

LEMMA Appends ==
    ASSUME NEW p \in Seq(DataLine), NEW q \in Seq(Line), NEW x \in Line
    PROVE  Extends(p \o Append(q, x), p \o q, x) /\ Append(q, x) \in Seq(Line)
<1>1. /\ Append(q, x) \in Seq(Line) /\ Len(Append(q, x)) = Len(q) + 1
      /\ \A i \in 1 .. Len(q) : Append(q, x)[i] = q[i]
      /\ Append(q, x)[Len(q) + 1] = x
  BY AppendProperties, LenProperties
<1>. DEFINE r == Append(q, x)
            v == p \o r
            w == p \o q
<1>. HIDE DEF r
<1>2. /\ Len(v) = Len(p) + Len(r) /\ DOMAIN v = 1 .. Len(p) + Len(r)
      /\ Len(p) \in Nat /\ Len(r) \in Nat /\ Len(r) = Len(q) + 1 /\ Len(q) \in Nat
      /\ Len(w) = Len(p) + Len(q) /\ DOMAIN w = 1 .. Len(p) + Len(q)
      /\ \A i \in 1 .. Len(p) : v[i] = p[i] /\ w[i] = p[i]
      /\ \A i \in 1 .. Len(q) : w[i + Len(p)] = q[i]
      /\ \A i \in 1 .. Len(r) : v[i + Len(p)] = r[i]
  BY <1>1, Words DEF r
<1>. HIDE DEF v, w
<1>3. \A i \in 1 .. Len(q) : v[i + Len(p)] = w[i + Len(p)]
  BY <1>1, <1>2 DEF r
<1>4. v[Len(q) + 1 + Len(p)] = x
  BY <1>1, <1>2 DEF r
<1>5. \A i \in DOMAIN w : v[i] = w[i]
  <2>. SUFFICES ASSUME NEW i \in DOMAIN w PROVE v[i] = w[i]
    OBVIOUS
  <2>1. CASE i <= Len(p)
    BY <1>2, <2>1
  <2>2. CASE i > Len(p)
    <3>1. i - Len(p) \in 1 .. Len(q) /\ i - Len(p) + Len(p) = i
      BY <1>2, <2>2
    <3>. QED
      BY <1>3, <3>1
  <2>. QED
    BY <1>2, <2>1, <2>2
<1>6. Len(q) + 1 + Len(p) = Len(w) + 1 /\ Len(v) = Len(w) + 1 /\ DOMAIN v = 1 .. Len(w) + 1
      /\ Len(w) \in Nat /\ DOMAIN w = 1 .. Len(w)
  BY <1>2
<1>. QED
  BY <1>1, <1>4, <1>5, <1>6 DEF Extends, v, w, r

(* What must be so of a line for a word to stay well-formed when it comes. *)
LEMMA ExtendsWell ==
    ASSUME NEW w, NEW v, NEW x, Extends(v, w, x), WellFormed(w),
           IsData(x) =>
              /\ \A i \in DOMAIN w : IsData(w[i])
                    => \/ w[i].event < x.event
                       \/ w[i].event = x.event /\ w[i].part < x.part
              /\ \A i \in DOMAIN w : IsData(w[i]) /\ w[i].event # x.event
                    => \E b \in DOMAIN w : i < b /\ IsBlank(w[b])
              /\ x.part <= DataLines[x.event]
              /\ \A m \in Nat : 1 <= m /\ m < x.part
                                => \E k \in DOMAIN w : w[k] = Data(x.event, m),
           IsBlank(x) =>
              \A i \in DOMAIN w : IsData(w[i])
                 => \A m \in 1 .. DataLines[w[i].event] :
                       \E k \in DOMAIN w : w[k] = Data(w[i].event, m),
           \A i \in DOMAIN w : w[i].kind \notin {"end", "reset"}
    PROVE  WellFormed(v)
<1>. DEFINE l == Len(w) + 1
<1>1. /\ l \in DOMAIN v /\ l \notin DOMAIN w /\ v[l] = x /\ l = Len(v)
      /\ \A i \in DOMAIN w : i \in DOMAIN v /\ v[i] = w[i] /\ i < l
      /\ \A i \in DOMAIN v : i \in DOMAIN w \/ i = l
      /\ ~(l < l) /\ \A i \in DOMAIN w : ~(l < i)
  BY DEF Extends
<1>. HIDE DEF l
<1>2. Ordered(v)
  BY <1>1 DEF WellFormed, Ordered
<1>3. Separated(v)
  <2>. SUFFICES ASSUME NEW i \in DOMAIN v, NEW j \in DOMAIN v, i < j,
                       IsData(v[i]), IsData(v[j]), v[i].event # v[j].event
                PROVE  \E b \in DOMAIN v : i < b /\ b < j /\ IsBlank(v[b])
    BY DEF Separated
  <2>1. i \in DOMAIN w
    BY <1>1
  <2>2. CASE j \in DOMAIN w
    <3>1. \E b \in DOMAIN w : i < b /\ b < j /\ IsBlank(w[b])
      BY <1>1, <2>1, <2>2 DEF WellFormed, Separated
    <3>. QED
      BY <1>1, <3>1
  <2>3. CASE j = l
    <3>1. \E b \in DOMAIN w : i < b /\ IsBlank(w[b])
      BY <1>1, <2>1, <2>3
    <3>. QED
      BY <1>1, <2>3, <3>1
  <2>. QED
    BY <1>1, <2>2, <2>3
<1>4. Whole(v)
  <2>. SUFFICES ASSUME NEW b \in DOMAIN v, NEW i \in DOMAIN v, IsBlank(v[b]), i < b,
                       IsData(v[i]), NEW m \in 1 .. DataLines[v[i].event]
                PROVE  \E k \in DOMAIN v : k < b /\ v[k] = Data(v[i].event, m)
    BY DEF Whole
  <2>1. i \in DOMAIN w /\ v[i] = w[i]
    BY <1>1
  <2>2. CASE b \in DOMAIN w
    <3>1. \E k \in DOMAIN w : k < b /\ w[k] = Data(w[i].event, m)
      BY <1>1, <2>1, <2>2 DEF WellFormed, Whole
    <3>. QED
      BY <1>1, <2>1, <3>1
  <2>3. CASE b = l
    <3>1. \E k \in DOMAIN w : w[k] = Data(w[i].event, m)
      BY <1>1, <2>1, <2>3
    <3>. QED
      BY <1>1, <2>1, <2>3, <3>1
  <2>. QED
    BY <1>1, <2>2, <2>3
<1>5. FromTheFirst(v)
  <2>. SUFFICES ASSUME NEW j \in DOMAIN v, IsData(v[j])
                PROVE  /\ v[j].part <= DataLines[v[j].event]
                       /\ \A m \in Nat : 1 <= m /\ m < v[j].part
                             => \E k \in DOMAIN v : k < j /\ v[k] = Data(v[j].event, m)
    BY DEF FromTheFirst
  <2>1. CASE j \in DOMAIN w
    <3>1. /\ w[j].part <= DataLines[w[j].event]
          /\ \A m \in Nat : 1 <= m /\ m < w[j].part
                => \E k \in DOMAIN w : k < j /\ w[k] = Data(w[j].event, m)
      BY <1>1, <2>1 DEF WellFormed, FromTheFirst
    <3>. QED
      BY <1>1, <2>1, <3>1
  <2>2. CASE j = l
    BY <1>1, <2>2
  <2>. QED
    BY <1>1, <2>1, <2>2
<1>6. EndIsLast(v)
  BY <1>1 DEF EndIsLast
<1>. QED
  BY <1>2, <1>3, <1>4, <1>5, <1>6 DEF WellFormed

(* v is w without some of its lines: h says which are left. *)
Thins(v, w, h) ==
    /\ DOMAIN v = 1 .. Len(v) /\ Len(v) \in Nat
    /\ DOMAIN w = 1 .. Len(w) /\ Len(w) \in Nat
    /\ h \in [DOMAIN v -> DOMAIN w]
    /\ \A i, j \in DOMAIN v : i < j <=> h[i] < h[j]
    /\ \A i \in DOMAIN v : v[i] = w[h[i]]

Left(v, h, k) == \E i \in DOMAIN v : h[i] = k

(* A word stays well-formed without its comments, and without what a blank *)
(* line ends: no other line of an event that is taken out remains, nor a   *)
(* line before a blank one that is taken out.                              *)
LEMMA ThinsWell ==
    ASSUME NEW w, NEW v, NEW h, Thins(v, w, h), WellFormed(w),
           \A i \in DOMAIN w : w[i] \in Line,
           \A k \in DOMAIN w, i \in DOMAIN v :
              IsData(w[k]) /\ IsData(v[i]) /\ w[k].event = v[i].event => Left(v, h, k),
           \A k \in DOMAIN w, i \in DOMAIN v :
              IsBlank(w[k]) /\ h[i] < k => Left(v, h, k)
    PROVE  WellFormed(v)
<1>1. /\ DOMAIN v = 1 .. Len(v) /\ DOMAIN w = 1 .. Len(w) /\ Len(v) \in Nat /\ Len(w) \in Nat
      /\ \A i \in DOMAIN v : h[i] \in DOMAIN w /\ v[i] = w[h[i]]
      /\ \A i, j \in DOMAIN v : i < j <=> h[i] < h[j]
  BY DEF Thins
<1>2. Ordered(v)
  <2>. SUFFICES ASSUME NEW i \in DOMAIN v, NEW j \in DOMAIN v, i < j,
                       IsData(v[i]), IsData(v[j])
                PROVE  \/ v[i].event < v[j].event
                       \/ v[i].event = v[j].event /\ v[i].part < v[j].part
    BY DEF Ordered
  <2>1. /\ h[i] \in DOMAIN w /\ h[j] \in DOMAIN w /\ h[i] < h[j]
        /\ v[i] = w[h[i]] /\ v[j] = w[h[j]]
    BY <1>1
  <2>2. Ordered(w)
    BY DEF WellFormed
  <2>. QED
    BY <2>1, <2>2 DEF Ordered
<1>3. Separated(v)
  <2>. SUFFICES ASSUME NEW i \in DOMAIN v, NEW j \in DOMAIN v, i < j,
                       IsData(v[i]), IsData(v[j]), v[i].event # v[j].event
                PROVE  \E b \in DOMAIN v : i < b /\ b < j /\ IsBlank(v[b])
    BY DEF Separated
  <2>0. /\ h[i] \in DOMAIN w /\ h[j] \in DOMAIN w /\ h[i] < h[j]
        /\ v[i] = w[h[i]] /\ v[j] = w[h[j]]
    BY <1>1
  <2>s. Separated(w)
    BY DEF WellFormed
  <2>1. PICK k \in DOMAIN w : h[i] < k /\ k < h[j] /\ IsBlank(w[k])
    BY <2>0, <2>s DEF Separated
  <2>2. PICK b \in DOMAIN v : h[b] = k
    BY <2>1 DEF Left
  <2>. QED
    BY <1>1, <2>1, <2>2
<1>4. ASSUME NEW i \in DOMAIN v, IsData(v[i]), NEW m \in Nat \ {0}, NEW c \in Nat,
             \E k \in DOMAIN w : k < c /\ w[k] = Data(v[i].event, m)
      PROVE  \E b \in DOMAIN v : h[b] < c /\ v[b] = Data(v[i].event, m)
  <2>1. PICK k \in DOMAIN w : k < c /\ w[k] = Data(v[i].event, m)
    BY <1>4
  <2>2. v[i].event \in Event
    BY <1>1, <1>4, Lines
  <2>3. IsData(w[k]) /\ w[k].event = v[i].event
    BY <2>1, <2>2, Lines
  <2>4. PICK b \in DOMAIN v : h[b] = k
    BY <1>4, <2>3 DEF Left
  <2>5. v[b] = w[k]
    BY <1>1, <2>4
  <2>. QED
    BY <2>1, <2>4, <2>5
<1>5. Whole(v)
  <2>. SUFFICES ASSUME NEW b \in DOMAIN v, NEW i \in DOMAIN v, IsBlank(v[b]), i < b,
                       IsData(v[i]), NEW m \in 1 .. DataLines[v[i].event]
                PROVE  \E k \in DOMAIN v : k < b /\ v[k] = Data(v[i].event, m)
    BY DEF Whole
  <2>0. /\ h[b] \in DOMAIN w /\ h[i] \in DOMAIN w /\ h[i] < h[b]
        /\ v[i] = w[h[i]] /\ v[b] = w[h[b]]
    BY <1>1
  <2>w. Whole(w)
    BY DEF WellFormed
  <2>1. \E k \in DOMAIN w : k < h[b] /\ w[k] = Data(v[i].event, m)
    BY <2>0, <2>w DEF Whole
  <2>2. v[i].event \in Event
    BY <1>1, Lines
  <2>3. m \in Nat \ {0} /\ h[b] \in Nat
    BY <1>1, <2>2, Constants
  <2>4. \E k \in DOMAIN v : h[k] < h[b] /\ v[k] = Data(v[i].event, m)
    BY <1>4, <2>1, <2>3
  <2>. QED
    BY <1>1, <2>4
<1>6. FromTheFirst(v)
  <2>. SUFFICES ASSUME NEW j \in DOMAIN v, IsData(v[j])
                PROVE  /\ v[j].part <= DataLines[v[j].event]
                       /\ \A m \in Nat : 1 <= m /\ m < v[j].part
                             => \E k \in DOMAIN v : k < j /\ v[k] = Data(v[j].event, m)
    BY DEF FromTheFirst
  <2>1. /\ v[j].part <= DataLines[v[j].event]
        /\ \A m \in Nat : 1 <= m /\ m < v[j].part
              => \E k \in DOMAIN w : k < h[j] /\ w[k] = Data(v[j].event, m)
    BY <1>1 DEF WellFormed, FromTheFirst
  <2>2. ASSUME NEW m \in Nat, 1 <= m, m < v[j].part
        PROVE  \E k \in DOMAIN v : k < j /\ v[k] = Data(v[j].event, m)
    <3>1. h[j] \in Nat /\ m \in Nat \ {0}
      BY <1>1, <2>2
    <3>2. \E k \in DOMAIN w : k < h[j] /\ w[k] = Data(v[j].event, m)
      BY <2>1, <2>2
    <3>3. \E k \in DOMAIN v : h[k] < h[j] /\ v[k] = Data(v[j].event, m)
      BY <1>4, <3>1, <3>2
    <3>. QED
      BY <1>1, <3>3
  <2>. QED
    BY <2>1, <2>2
<1>7. EndIsLast(v)
  <2>. SUFFICES ASSUME NEW i \in DOMAIN v, v[i].kind \in {"end", "reset"}
                PROVE  i = Len(v)
    BY DEF EndIsLast
  <2>1. h[i] = Len(w)
    BY <1>1 DEF WellFormed, EndIsLast
  <2>2. Len(v) \in DOMAIN v /\ (i < Len(v) \/ i = Len(v))
    BY <1>1
  <2>3. h[Len(v)] \in DOMAIN w
    BY <1>1, <2>2
  <2>4. h[Len(v)] <= Len(w)
    BY <1>1, <2>3
  <2>5. i < Len(v) => h[i] < h[Len(v)]
    BY <1>1, <2>2
  <2>6. h[i] \in Nat /\ h[Len(v)] \in Nat
    BY <1>1, <2>3
  <2>. QED
    BY <1>1, <2>1, <2>2, <2>4, <2>5, <2>6
<1>. QED
  BY <1>2, <1>3, <1>5, <1>6, <1>7 DEF WellFormed

-----------------------------------------------------------------------------
(* What a step does to the word.                                           *)

LEMMA Pos ==
    ASSUME StreamTyped
    PROVE  /\ Word \in Seq(Line) /\ Len(Word) = Len(pending) + Len(lines)
           /\ DOMAIN pending = 1 .. Len(pending) /\ DOMAIN lines = 1 .. Len(lines)
           /\ DOMAIN Word = 1 .. Len(pending) + Len(lines)
           /\ Len(pending) \in Nat /\ Len(lines) \in Nat
           /\ \A i \in 1 .. Len(pending) : Word[i] = pending[i] /\ pending[i] \in DataLine
           /\ \A i \in Len(pending) + 1 .. Len(pending) + Len(lines) :
                 Word[i] = lines[i - Len(pending)]
           /\ \A i \in 1 .. Len(lines) : Word[i + Len(pending)] = lines[i] /\ lines[i] \in Line
           /\ \A i \in DOMAIN Word : Word[i] \in Line
<1>1. pending \in Seq(DataLine) /\ lines \in Seq(Line)
  BY DEF StreamTyped
<1>2. Word \in Seq(Line)
  BY <1>1, Words DEF Word
<1>3. \A i \in DOMAIN Word : Word[i] \in Line
  BY <1>2, ElementOfSeq, LenProperties
<1>. QED
  BY <1>1, <1>2, <1>3, Words DEF Word

LEMMA NotEnded ==
    ASSUME StreamTyped, Connected, EndIsLast(Word)
    PROVE  \A i \in DOMAIN Word : Word[i].kind \notin {"end", "reset"}
<1>. SUFFICES ASSUME NEW i \in DOMAIN Word, Word[i].kind \in {"end", "reset"}
              PROVE  FALSE
  OBVIOUS
<1>1. i = Len(pending) + Len(lines) /\ Len(pending) \in Nat /\ Len(lines) \in Nat
  BY Pos DEF EndIsLast
<1>2. CASE lines = <<>>
  <2>1. Len(lines) = 0
    BY <1>2
  <2>2. i \in 1 .. Len(pending)
    BY <1>1, <2>1, Pos
  <2>. QED
    BY <2>2, Pos, Lines
<1>3. CASE lines # <<>>
  <2>1. Len(lines) \in 1 .. Len(lines)
    BY <1>1, <1>3, EmptySeq DEF StreamTyped
  <2>2. Word[Len(lines) + Len(pending)] = lines[Len(lines)]
    BY <2>1, Pos
  <2>3. Len(lines) + Len(pending) = i
    BY <1>1
  <2>. QED
    BY <1>3, <2>2, <2>3 DEF Connected, Ended, Last
<1>. QED
  BY <1>2, <1>3

LEMMA Sends ==
    ASSUME StreamTyped, NEW x \in Line, lines' = Append(lines, x), pending' = pending
    PROVE  /\ Extends(Word', Word, x) /\ lines' \in Seq(Line)
           /\ Ended' <=> x.kind \in {"end", "reset"}
<1>1. pending \in Seq(DataLine) /\ lines \in Seq(Line)
  BY DEF StreamTyped
<1>2. Extends(Word', Word, x) /\ lines' \in Seq(Line)
  BY <1>1, Appends DEF Word
<1>3. lines' # <<>> /\ Last(lines') = x
  BY <1>1, AppendProperties DEF Last
<1>. QED
  BY <1>2, <1>3 DEF Ended

LEMMA ReadsHead ==
    ASSUME StreamTyped, lines # <<>>
    PROVE  /\ Head(lines) \in Line /\ Word[Len(pending) + 1] = Head(lines)
           /\ Len(pending) + 1 \in DOMAIN Word
           /\ Tail(lines) \in Seq(Line) /\ Len(Tail(lines)) = Len(lines) - 1
           /\ \A i \in 1 .. Len(lines) - 1 : Tail(lines)[i] = lines[i + 1]
           /\ Len(lines) >= 1
           /\ lines' = Tail(lines) /\ Head(lines).kind \notin {"end", "reset"}
                 => (Ended' <=> Ended)
<1>1. /\ Head(lines) \in Line /\ Tail(lines) \in Seq(Line) /\ Len(Tail(lines)) = Len(lines) - 1
      /\ \A i \in 1 .. Len(Tail(lines)) : Tail(lines)[i] = lines[i + 1]
      /\ Len(lines) \in Nat \ {0} /\ Head(lines) = lines[1]
  BY HeadTailProperties, EmptySeq DEF StreamTyped
<1>2. Len(lines) >= 1 /\ 1 \in 1 .. Len(lines)
  BY <1>1
<1>3. Word[1 + Len(pending)] = lines[1] /\ Len(pending) \in Nat
      /\ DOMAIN Word = 1 .. Len(pending) + Len(lines)
  BY <1>2, Pos
<1>4. Word[Len(pending) + 1] = Head(lines) /\ Len(pending) + 1 \in DOMAIN Word
  BY <1>1, <1>2, <1>3
<1>5. ASSUME lines' = Tail(lines), Head(lines).kind \notin {"end", "reset"}
      PROVE  Ended' <=> Ended
  <2>1. CASE Len(lines) = 1
    <3>1. Len(Tail(lines)) = 0
      BY <1>1, <2>1
    <3>2. Tail(lines) = <<>>
      BY <1>1, <3>1, EmptySeq
    <3>. QED
      BY <1>1, <1>5, <2>1, <3>2 DEF Ended, Last
  <2>2. CASE Len(lines) # 1
    <3>1. Len(Tail(lines)) \in 1 .. Len(Tail(lines)) /\ Len(Tail(lines)) + 1 = Len(lines)
          /\ Len(Tail(lines)) # 0
      BY <1>1, <2>2
    <3>2. Tail(lines) # <<>>
      BY <1>1, <3>1, EmptySeq
    <3>3. Last(Tail(lines)) = Last(lines)
      BY <1>1, <3>1 DEF Last
    <3>. QED
      BY <1>5, <3>2, <3>3 DEF Ended
  <2>. QED
    BY <2>1, <2>2
<1>. QED
  BY <1>1, <1>2, <1>4, <1>5

(* A data line moves over to those that are put together. *)
LEMMA MovesOver ==
    ASSUME StreamTyped, lines # <<>>, IsData(Head(lines)),
           pending' = Append(pending, Head(lines)), lines' = Tail(lines)
    PROVE  /\ Word' = Word /\ pending' \in Seq(DataLine) /\ lines' \in Seq(Line)
           /\ Len(pending') = Len(pending) + 1
           /\ \A i \in 1 .. Len(pending) : pending'[i] = pending[i]
           /\ pending'[Len(pending) + 1] = Head(lines)
<1>. DEFINE x == Head(lines)
<1>1. x \in DataLine
  BY ReadsHead, Lines DEF DataLine
<1>2. pending \in Seq(DataLine) /\ Tail(lines) \in Seq(Line) /\ lines = <<x>> \o Tail(lines)
  <2>1. Tail(lines) \in Seq(Line)
    BY ReadsHead
  <2>2. <<x>> \in Seq(Line) /\ Len(<<x>>) = 1 /\ <<x>>[1] = x
    BY <1>1, Lines
  <2>. DEFINE r == <<x>> \o Tail(lines)
  <2>3. /\ r \in Seq(Line) /\ Len(r) = 1 + Len(Tail(lines))
        /\ \A i \in 1 .. 1 + Len(Tail(lines)) :
              r[i] = IF i <= 1 THEN <<x>>[i] ELSE Tail(lines)[i - 1]
    BY <2>1, <2>2, ConcatProperties
  <2>. HIDE DEF r
  <2>4. Len(Tail(lines)) = Len(lines) - 1 /\ Len(lines) \in Nat /\ Len(lines) >= 1
    BY ReadsHead, Pos
  <2>5. \A i \in 1 .. Len(lines) - 1 : Tail(lines)[i] = lines[i + 1]
    BY ReadsHead
  <2>6. \A i \in 1 .. Len(lines) : r[i] = lines[i]
    <3>. SUFFICES ASSUME NEW i \in 1 .. Len(lines) PROVE r[i] = lines[i]
      OBVIOUS
    <3>1. CASE i = 1
      BY <2>2, <2>3, <2>4, <3>1
    <3>2. CASE i # 1
      <4>1. i - 1 \in 1 .. Len(lines) - 1 /\ i - 1 + 1 = i /\ ~(i <= 1)
            /\ i \in 1 .. 1 + Len(Tail(lines))
        BY <2>4, <3>2
      <4>. QED
        BY <2>3, <2>5, <4>1
    <3>. QED
      BY <3>1, <3>2
  <2>7. Len(r) = Len(lines) /\ lines \in Seq(Line)
    BY <2>3, <2>4 DEF StreamTyped
  <2>8. r = lines
    BY <2>3, <2>6, <2>7, SeqEqual
  <2>. QED
    BY <2>1, <2>8 DEF StreamTyped, r
<1>3. /\ pending' \in Seq(DataLine) /\ pending' = pending \o <<x>>
      /\ Len(pending') = Len(pending) + 1
      /\ \A i \in 1 .. Len(pending) : pending'[i] = pending[i]
      /\ pending'[Len(pending) + 1] = x
  BY <1>1, <1>2, AppendProperties, AppendIsConcat
<1>4. pending \in Seq(Line) /\ <<x>> \in Seq(Line)
  BY <1>1, <1>2, Lines, SeqMonotonic
<1>5. (pending \o <<x>>) \o Tail(lines) = pending \o (<<x>> \o Tail(lines))
  BY <1>2, <1>4, ConcatAssociative
<1>6. Word' = Word
  BY <1>2, <1>3, <1>5 DEF Word
<1>. QED
  BY <1>2, <1>3, <1>6

(* A line that is skipped leaves all others. *)
LEMMA Skips ==
    ASSUME StreamTyped, lines # <<>>, lines' = Tail(lines), pending' = pending
    PROVE  \E h : /\ Thins(Word', Word, h)
                 /\ \A k \in DOMAIN Word : k = Len(pending) + 1 \/ Left(Word', h, k)
<1>. DEFINE p == Len(pending)
            n == Len(lines)
            w == Word
            v == Word'
            h == [i \in DOMAIN v |-> IF i <= p THEN i ELSE i + 1]
<1>1. /\ p \in Nat /\ n \in Nat /\ n >= 1 /\ DOMAIN w = 1 .. p + n /\ Len(w) = p + n
      /\ \A i \in 1 .. p : w[i] = pending[i]
      /\ \A i \in 1 .. n : w[i + p] = lines[i]
      /\ Tail(lines) \in Seq(Line) /\ Len(Tail(lines)) = n - 1
      /\ \A i \in 1 .. n - 1 : Tail(lines)[i] = lines[i + 1]
  BY Pos, ReadsHead
<1>2. /\ DOMAIN v = 1 .. p + Len(Tail(lines)) /\ Len(v) = p + Len(Tail(lines))
      /\ \A i \in 1 .. p : v[i] = pending[i]
      /\ \A i \in 1 .. Len(Tail(lines)) : v[i + p] = Tail(lines)[i]
  BY <1>1, Words DEF Word, StreamTyped
<1>. HIDE DEF p, n, w, v
<1>3. DOMAIN v = 1 .. p + n - 1 /\ Len(v) = p + n - 1
  BY <1>1, <1>2
<1>4. \A i \in 1 .. n - 1 : v[i + p] = w[i + 1 + p]
  <2>. SUFFICES ASSUME NEW i \in 1 .. n - 1 PROVE v[i + p] = w[i + 1 + p]
    OBVIOUS
  <2>1. i + 1 \in 1 .. n /\ i \in 1 .. Len(Tail(lines))
    BY <1>1
  <2>. QED
    BY <1>1, <1>2, <2>1
<1>5. h \in [DOMAIN v -> DOMAIN w] /\ \A i, j \in DOMAIN v : i < j <=> h[i] < h[j]
  BY <1>1, <1>3
<1>6. \A i \in DOMAIN v : v[i] = w[h[i]]
  <2>. SUFFICES ASSUME NEW i \in DOMAIN v PROVE v[i] = w[h[i]]
    OBVIOUS
  <2>1. CASE i <= p
    BY <1>1, <1>2, <1>3, <2>1
  <2>2. CASE i > p
    <3>1. i - p \in 1 .. n - 1 /\ i - p + p = i /\ i - p + 1 + p = i + 1 /\ h[i] = i + 1
      BY <1>1, <1>3, <2>2
    <3>. QED
      BY <1>4, <3>1
  <2>. QED
    BY <1>1, <1>3, <2>1, <2>2
<1>7. ASSUME NEW k \in DOMAIN w, k # p + 1 PROVE Left(v, h, k)
  <2>1. CASE k <= p
    <3>1. k \in DOMAIN v /\ h[k] = k
      BY <1>1, <1>3, <2>1
    <3>. QED
      BY <3>1 DEF Left
  <2>2. CASE k > p
    <3>1. k \in 1 .. p + n /\ k \in Int /\ k # p + 1 /\ p \in Nat /\ n \in Nat
      BY <1>1, <1>7
    <3>2. k - 1 \in 1 .. p + n - 1 /\ ~(k - 1 <= p) /\ k - 1 + 1 = k
      BY <2>2, <3>1
    <3>3. k - 1 \in DOMAIN v /\ h[k - 1] = k
      BY <1>3, <3>2
    <3>. QED
      BY <3>3 DEF Left
  <2>. QED
    BY <1>1, <2>1, <2>2
<1>8. Thins(v, w, h)
  BY <1>1, <1>3, <1>5, <1>6 DEF Thins
<1>. QED
  BY <1>7, <1>8 DEF p, v, w

(* The lines after b are left, and no other. *)
LeavesAfter(v, w, h, b) ==
    /\ Thins(v, w, h)
    /\ \A k \in DOMAIN w : k > b => Left(v, h, k)
    /\ \A i \in DOMAIN v : h[i] > b

(* A blank line takes what is pending with it. *)
LEMMA Clears ==
    ASSUME StreamTyped, lines # <<>>, lines' = Tail(lines), pending' = <<>>
    PROVE  \E h : LeavesAfter(Word', Word, h, Len(pending) + 1)
<1>. DEFINE p == Len(pending)
            n == Len(lines)
            w == Word
            v == Word'
            h == [i \in DOMAIN v |-> i + p + 1]
<1>1. /\ p \in Nat /\ n \in Nat /\ n >= 1 /\ DOMAIN w = 1 .. p + n /\ Len(w) = p + n
      /\ \A i \in 1 .. n : w[i + p] = lines[i]
      /\ Tail(lines) \in Seq(Line) /\ Len(Tail(lines)) = n - 1
      /\ \A i \in 1 .. n - 1 : Tail(lines)[i] = lines[i + 1]
  BY Pos, ReadsHead
<1>2. v = Tail(lines)
  BY <1>1, ConcatEmptySeq DEF Word
<1>3. DOMAIN v = 1 .. n - 1 /\ Len(v) = n - 1
  BY <1>1, <1>2, LenProperties
<1>. HIDE DEF p, n, w, v
<1>4. \A i \in DOMAIN v : v[i] = w[h[i]]
  <2>. SUFFICES ASSUME NEW i \in DOMAIN v PROVE v[i] = w[h[i]]
    OBVIOUS
  <2>1. i + 1 \in 1 .. n /\ i + 1 + p = i + p + 1
    BY <1>1, <1>3
  <2>. QED
    BY <1>1, <1>2, <1>3, <2>1
<1>5. h \in [DOMAIN v -> DOMAIN w] /\ \A i, j \in DOMAIN v : i < j <=> h[i] < h[j]
  BY <1>1, <1>3
<1>6. ASSUME NEW k \in DOMAIN w, k > p + 1 PROVE Left(v, h, k)
  <2>1. k - (p + 1) \in DOMAIN v /\ h[k - (p + 1)] = k
    BY <1>1, <1>3, <1>6
  <2>. QED
    BY <2>1 DEF Left
<1>7. Thins(v, w, h) /\ \A i \in DOMAIN v : h[i] > p + 1
  BY <1>1, <1>3, <1>4, <1>5 DEF Thins
<1>. QED
  BY <1>6, <1>7 DEF p, v, w, LeavesAfter

(* The connection breaks: only what is pending is left of the word. *)
LEMMA CutsOff ==
    ASSUME StreamTyped, PendingOK, WellFormed(Word),
           lines' = <<Other("reset")>>, pending' = pending
    PROVE  /\ lines' \in Seq(Line) /\ Ended'
           /\ DOMAIN Word' = 1 .. Len(pending) + 1 /\ Len(Word') = Len(pending) + 1
           /\ \A i \in 1 .. Len(pending) : Word'[i] = Word[i]
           /\ Word'[Len(pending) + 1] = Other("reset")
           /\ WellFormed(Word')
<1>. DEFINE p == Len(pending)
            v == Word'
            w == Word
<1>1. lines' \in Seq(Line) /\ Len(lines') = 1 /\ lines'[1] = Other("reset") /\ lines' # <<>>
  BY Lines
<1>2. Ended'
  BY <1>1, Lines DEF Ended, Last
<1>3. /\ p \in Nat /\ DOMAIN v = 1 .. p + 1 /\ Len(v) = p + 1
      /\ \A i \in 1 .. p : v[i] = pending[i] /\ w[i] = pending[i] /\ v[i] \in DataLine
                          /\ i \in DOMAIN w
      /\ v[1 + p] = Other("reset")
  BY <1>1, Words, Pos DEF Word, StreamTyped
<1>. HIDE DEF v, w
<1>4. v[p + 1] = Other("reset")
  BY <1>3
<1>5. \A i \in DOMAIN v : IsData(v[i]) => i \in 1 .. p
  BY <1>3, <1>4, Lines DEF IsData
<1>6. \A i \in DOMAIN v : ~IsBlank(v[i])
  BY <1>3, <1>4, Lines DEF IsBlank
<1>7. WellFormed(w)
  BY DEF w
<1>8. Ordered(v)
  BY <1>3, <1>5, <1>7 DEF WellFormed, Ordered
<1>9. Separated(v)
  <2>1. \A i \in 1 .. p : pending[i].event = pending[1].event
    BY Pos DEF PendingOK
  <2>. QED
    BY <1>3, <1>5, <2>1 DEF Separated
<1>10. Whole(v)
  BY <1>6 DEF Whole
<1>11. FromTheFirst(v)
  <2>. SUFFICES ASSUME NEW j \in 1 .. p
                PROVE  /\ v[j].part <= DataLines[v[j].event]
                       /\ \A m \in Nat : 1 <= m /\ m < v[j].part
                             => \E k \in DOMAIN v : k < j /\ v[k] = Data(v[j].event, m)
    BY <1>5 DEF FromTheFirst
  <2>1. IsData(w[j]) /\ v[j] = w[j] /\ j \in DOMAIN w
    BY <1>3, Lines
  <2>2. ASSUME NEW m \in Nat, 1 <= m, m < v[j].part
        PROVE  \E k \in DOMAIN v : k < j /\ v[k] = Data(v[j].event, m)
    <3>1. PICK k \in DOMAIN w : k < j /\ w[k] = Data(v[j].event, m)
      BY <1>7, <2>1, <2>2 DEF WellFormed, FromTheFirst
    <3>2. k \in 1 .. p
      BY <1>3, <3>1, Pos DEF w
    <3>. QED
      BY <1>3, <3>1, <3>2
  <2>. QED
    BY <1>7, <2>1, <2>2 DEF WellFormed, FromTheFirst
<1>12. EndIsLast(v)
  <2>1. \A i \in DOMAIN v : i \in 1 .. p \/ i = Len(v)
    BY <1>3
  <2>. QED
    BY <1>3, <2>1, Lines DEF EndIsLast
<1>. QED
  BY <1>1, <1>2, <1>3, <1>4, <1>8, <1>9, <1>10, <1>11, <1>12 DEF WellFormed, v, w

-----------------------------------------------------------------------------
(* A line comes.                                                           *)

(* What a connection knows of signal-cli's next event.                     *)
LEMMA Past ==
    ASSUME IInv, Open
    PROVE  /\ StreamTyped /\ PendingOK /\ WellFormed(Word) /\ Seen(Word)
           /\ next \in Nat /\ sent \in Nat
           /\ \A i \in DOMAIN Word : IsData(Word[i])
                => /\ Word[i].event \in Event /\ Word[i].part \in Nat \ {0}
                   /\ Word[i] = Data(Word[i].event, Word[i].part)
                   /\ \/ Word[i].event < next
                      \/ Connected /\ Word[i].event = next /\ Word[i].part <= sent
                   /\ \A b \in DOMAIN Word : i < b /\ IsBlank(Word[b]) => Word[i].event < next
<1>1. /\ StreamTyped /\ PendingOK /\ WellFormed(Word) /\ Seen(Word) /\ Sent(Word)
      /\ next \in Nat /\ sent \in Nat
  BY Constants DEF IInv, StreamTyped
<1>2. \A i \in DOMAIN Word : Word[i] \in Line
  BY <1>1, Pos
<1>. QED
  BY <1>1, <1>2, Lines DEF Sent

LEMMA KeepsSendingData ==
    ASSUME IInv, SendLine, sent < DataLines[next]
    PROVE  IInv'
<1>. DEFINE w == Word
            v == Word'
            x == Data(next, sent + 1)
            l == Len(w) + 1
<1>1. /\ Open /\ Connected /\ next \in Event /\ lines' = Append(lines, x)
      /\ sent' = sent + 1 /\ next' = next
      /\ pending' = pending /\ pc' = pc /\ log' = log /\ up' = up /\ received' = received
  BY DEF SendLine, Connected, Open
<1>2. /\ StreamTyped /\ PendingOK /\ WellFormed(w) /\ Seen(w) /\ Sent(w) /\ Sending(w)
      /\ next \in Nat \ {0} /\ sent \in Nat
      /\ \A n \in DOMAIN log : log[n] < next
  BY <1>1, Past, Constants DEF IInv
<1>3. /\ x \in Line /\ IsData(x) /\ ~IsBlank(x) /\ x.kind \notin {"end", "reset"}
      /\ x.event = next /\ x.part = sent + 1
  <2>1. sent + 1 \in Nat \ {0}
    BY <1>2
  <2>2. Data(next, sent + 1) \in DataLine
    BY <1>1, <2>1, Lines
  <2>. QED
    BY <1>1, <2>1, <2>2, Lines
<1>4. Extends(v, w, x) /\ lines' \in Seq(Line) /\ Connected' /\ Open'
  <2>1. Extends(v, w, x) /\ lines' \in Seq(Line) /\ ~Ended'
    BY <1>1, <1>2, <1>3, Sends
  <2>. QED
    BY <1>1, <2>1 DEF Connected, Open
<1>5. \A i \in DOMAIN w : IsData(w[i])
        => /\ w[i].event \in Nat /\ w[i].part \in Nat
           /\ \/ w[i].event < next
              \/ w[i].event = next /\ w[i].part <= sent
           /\ w[i].event # next => w[i].event < next
           /\ \A b \in DOMAIN w : i < b /\ IsBlank(w[b]) => w[i].event < next
  BY <1>1, Past, Constants
<1>6. \A i \in DOMAIN w : w[i].kind \notin {"end", "reset"}
  BY <1>1, <1>2, NotEnded DEF WellFormed
<1>. HIDE DEF w, v, x
<1>7. /\ l \in DOMAIN v /\ l \notin DOMAIN w /\ v[l] = x
      /\ \A i \in DOMAIN w : i \in DOMAIN v /\ v[i] = w[i] /\ i < l /\ ~(l < i)
      /\ \A i \in DOMAIN v : i \in DOMAIN w \/ i = l
      /\ ~(l < l)
  BY <1>4 DEF Extends
<1>8. DataLines[next] \in Nat
  BY <1>1, Constants
<1>9. WellFormed(v)
  <2>1. sent + 1 <= DataLines[next]
    BY <1>2, <1>8
  <2>2. \A m \in Nat : 1 <= m /\ m < sent + 1 => m \in 1 .. sent
    BY <1>2
  <2>3. \A i \in DOMAIN w : IsData(w[i]) /\ w[i].event = next => w[i].part < sent + 1
    BY <1>2, <1>5
  <2>4. \A i \in DOMAIN w : IsData(w[i])
            => \/ w[i].event < x.event
               \/ w[i].event = x.event /\ w[i].part < x.part
    BY <1>3, <1>5, <2>3
  <2>5. \A i \in DOMAIN w : IsData(w[i]) /\ w[i].event # x.event
            => \E b \in DOMAIN w : i < b /\ IsBlank(w[b])
    BY <1>2, <1>3, <1>5 DEF Sending
  <2>6. \A m \in Nat : 1 <= m /\ m < x.part => \E k \in DOMAIN w : w[k] = Data(x.event, m)
    BY <1>2, <1>3, <2>2 DEF Sending
  <2>7. x.part <= DataLines[x.event]
    BY <1>3, <2>1
  <2>. QED
    BY <1>2, <1>3, <1>4, <1>6, <2>4, <2>5, <2>6, <2>7, ExtendsWell
<1>10. /\ sent <= sent + 1 /\ sent + 1 \in Nat
       /\ \A m \in 1 .. sent + 1 : m \in 1 .. sent \/ m = sent + 1
       /\ \A i \in DOMAIN w : IsData(w[i]) /\ w[i].event = next => w[i].part <= sent + 1
       /\ ~(next < next) /\ sent + 1 <= sent + 1
  BY <1>2, <1>5
<1>11. Sent(Word)'
  <2>. SUFFICES ASSUME NEW i \in DOMAIN v, IsData(v[i])
                PROVE  /\ \/ v[i].event < next
                          \/ v[i].event = next /\ v[i].part <= sent + 1
                       /\ \A b \in DOMAIN v : i < b /\ IsBlank(v[b]) => v[i].event < next
    BY <1>1, <1>4 DEF Sent, v
  <2>1. CASE i \in DOMAIN w
    BY <1>3, <1>5, <1>7, <1>10, <2>1
  <2>2. CASE i = l
    BY <1>3, <1>7, <1>10, <2>2
  <2>. QED
    BY <1>7, <2>1, <2>2
<1>12. Seen(Word)'
  <2>. SUFFICES ASSUME NEW n \in DOMAIN log, NEW i \in DOMAIN v, IsData(v[i])
                PROVE  log[n] < v[i].event
    BY <1>1 DEF Seen, v
  <2>. QED
    BY <1>2, <1>3, <1>7 DEF Seen
<1>13. Sending(Word)'
  <2>1. ASSUME NEW i \in DOMAIN v, IsData(v[i]), v[i].event < next
        PROVE  \E b \in DOMAIN v : i < b /\ IsBlank(v[b])
    <3>1. i \in DOMAIN w
      BY <1>3, <1>7, <1>10, <2>1
    <3>2. PICK b \in DOMAIN w : i < b /\ IsBlank(w[b])
      BY <1>2, <1>7, <2>1, <3>1 DEF Sending
    <3>. QED
      BY <1>7, <3>2
  <2>2. ASSUME NEW m \in 1 .. sent + 1 PROVE \E k \in DOMAIN v : v[k] = Data(next, m)
    <3>1. CASE m \in 1 .. sent
      <4>1. PICK k \in DOMAIN w : w[k] = Data(next, m)
        BY <1>2, <3>1 DEF Sending
      <4>. QED
        BY <1>7, <4>1
    <3>2. CASE m = sent + 1
      BY <1>7, <3>2 DEF x
    <3>. QED
      BY <1>10, <3>1, <3>2
  <2>. QED
    BY <1>1, <2>1, <2>2 DEF Sending, v
<1>14. StreamTyped' /\ PendingOK'
  <2>1. sent + 1 <= DataLines[next] /\ sent + 1 \in Nat
    BY <1>2, <1>8
  <2>. QED
    BY <1>1, <1>2, <1>4, <2>1 DEF StreamTyped, PendingOK
<1>. QED
  BY <1>1, <1>2, <1>4, <1>9, <1>11, <1>12, <1>13, <1>14 DEF IInv, v

LEMMA KeepsSendingBlank ==
    ASSUME IInv, SendLine, ~(sent < DataLines[next])
    PROVE  IInv'
<1>. DEFINE w == Word
            v == Word'
            x == Other("blank")
            l == Len(w) + 1
<1>1. /\ Open /\ Connected /\ next \in Event /\ lines' = Append(lines, x)
      /\ sent' = 0 /\ next' = next + 1
      /\ pending' = pending /\ pc' = pc /\ log' = log /\ up' = up /\ received' = received
  BY DEF SendLine, Connected, Open
<1>2. /\ StreamTyped /\ PendingOK /\ WellFormed(w) /\ Seen(w) /\ Sending(w)
      /\ next \in Nat \ {0} /\ sent \in Nat
      /\ \A n \in DOMAIN log : log[n] < next
  BY <1>1, Past, Constants DEF IInv
<1>3. /\ x \in Line /\ ~IsData(x) /\ IsBlank(x) /\ x.kind \notin {"end", "reset"}
  BY Lines DEF IsData, IsBlank
<1>4. Extends(v, w, x) /\ lines' \in Seq(Line) /\ Connected' /\ Open'
  <2>1. Extends(v, w, x) /\ lines' \in Seq(Line) /\ ~Ended'
    BY <1>1, <1>2, <1>3, Sends
  <2>. QED
    BY <1>1, <2>1 DEF Connected, Open
<1>5. \A i \in DOMAIN w : IsData(w[i])
        => /\ w[i].event \in Nat /\ w[i].part \in Nat
           /\ w[i].event < next \/ w[i].event = next
  BY <1>1, Past, Constants
<1>6. \A i \in DOMAIN w : w[i].kind \notin {"end", "reset"}
  BY <1>1, <1>2, NotEnded DEF WellFormed
<1>7. DataLines[next] = sent
  <2>1. DataLines[next] \in Nat \ {0}
    BY <1>1, Constants
  <2>2. sent > 0 => sent <= DataLines[next]
    BY <1>2 DEF StreamTyped
  <2>. QED
    BY <1>2, <2>1, <2>2
<1>. HIDE DEF w, v, x
<1>8. /\ l \in DOMAIN v /\ v[l] = x
      /\ \A i \in DOMAIN w : i \in DOMAIN v /\ v[i] = w[i] /\ i < l
      /\ \A i \in DOMAIN v : i \in DOMAIN w \/ i = l
  BY <1>4 DEF Extends
<1>9. WellFormed(v)
  <2>1. ASSUME NEW i \in DOMAIN w, IsData(w[i]), NEW m \in 1 .. DataLines[w[i].event]
        PROVE  \E k \in DOMAIN w : w[k] = Data(w[i].event, m)
    <3>1. CASE w[i].event < next
      <4>1. PICK b \in DOMAIN w : i < b /\ IsBlank(w[b])
        BY <1>2, <2>1, <3>1 DEF Sending
      <4>. QED
        BY <1>2, <2>1, <4>1 DEF WellFormed, Whole
    <3>2. CASE w[i].event = next
      BY <1>2, <1>7, <3>2 DEF Sending
    <3>. QED
      BY <1>5, <2>1, <3>1, <3>2
  <2>. QED
    BY <1>2, <1>3, <1>4, <1>6, <2>1, ExtendsWell
<1>10. \A i \in DOMAIN v : IsData(v[i])
          => i \in DOMAIN w /\ IsData(w[i]) /\ v[i] = w[i] /\ v[i].event < next + 1 /\ i < l
  <2>1. \A i \in DOMAIN w : IsData(w[i]) => w[i].event < next + 1
    BY <1>2, <1>5
  <2>. QED
    BY <1>3, <1>8, <2>1
<1>11. Sent(Word)'
  BY <1>1, <1>4, <1>10 DEF Sent, v
<1>12. Seen(Word)'
  <2>. SUFFICES ASSUME NEW n \in DOMAIN log, NEW i \in DOMAIN v, IsData(v[i])
                PROVE  log[n] < v[i].event
    BY <1>1 DEF Seen, v
  <2>. QED
    BY <1>2, <1>10 DEF Seen
<1>13. Sending(Word)'
  <2>1. \A i \in DOMAIN v : IsData(v[i]) => \E b \in DOMAIN v : i < b /\ IsBlank(v[b])
    BY <1>3, <1>8, <1>10
  <2>2. 1 .. 0 = {}
    OBVIOUS
  <2>. QED
    BY <1>1, <2>1, <2>2 DEF Sending, v
<1>14. StreamTyped' /\ PendingOK'
  <2>1. next + 1 \in 1 .. Events + 1
    BY <1>1, Constants DEF Event
  <2>. QED
    BY <1>1, <1>2, <1>4, <2>1 DEF StreamTyped, PendingOK
<1>15. \A n \in DOMAIN log' : log'[n] < next'
  <2>1. log \in Seq(Nat)
    BY <1>2, Constants, SeqMonotonic DEF StreamTyped
  <2>2. \A n \in DOMAIN log : log[n] \in Nat
    BY <2>1, ElementOfSeq, LenProperties
  <2>3. \A n \in DOMAIN log : log[n] < next + 1
    BY <1>2, <2>2
  <2>. QED
    BY <1>1, <2>3
<1>. QED
  BY <1>1, <1>2, <1>4, <1>9, <1>11, <1>12, <1>13, <1>14, <1>15 DEF IInv, v

LEMMA KeepsSendingComment ==
    ASSUME IInv, SendComment
    PROVE  IInv'
<1>. DEFINE w == Word
            v == Word'
            x == Other("comment")
            l == Len(w) + 1
<1>1. /\ Open /\ Connected /\ lines' = Append(lines, x)
      /\ sent' = sent /\ next' = next
      /\ pending' = pending /\ pc' = pc /\ log' = log /\ up' = up /\ received' = received
  BY DEF SendComment, Connected, Open, daemon
<1>2. /\ StreamTyped /\ PendingOK /\ WellFormed(w) /\ Seen(w) /\ Sent(w) /\ Sending(w)
      /\ \A n \in DOMAIN log : log[n] < next
  BY <1>1, Past DEF IInv
<1>3. /\ x \in Line /\ ~IsData(x) /\ ~IsBlank(x) /\ x.kind \notin {"end", "reset"}
  BY Lines DEF IsData, IsBlank
<1>4. Extends(v, w, x) /\ lines' \in Seq(Line) /\ Connected' /\ Open'
  <2>1. Extends(v, w, x) /\ lines' \in Seq(Line) /\ ~Ended'
    BY <1>1, <1>2, <1>3, Sends
  <2>. QED
    BY <1>1, <2>1 DEF Connected, Open
<1>5. \A i \in DOMAIN w : w[i].kind \notin {"end", "reset"}
  BY <1>1, <1>2, NotEnded DEF WellFormed
<1>. HIDE DEF w, v, x
<1>6. WellFormed(v)
  BY <1>2, <1>3, <1>4, <1>5, ExtendsWell
<1>7. /\ v[l] = x
      /\ \A i \in DOMAIN w : i \in DOMAIN v /\ v[i] = w[i]
      /\ \A i \in DOMAIN v : i \in DOMAIN w \/ i = l
  BY <1>4 DEF Extends
<1>8. \A i \in DOMAIN v : IsData(v[i]) \/ IsBlank(v[i]) => i \in DOMAIN w /\ v[i] = w[i]
  BY <1>3, <1>7
<1>9. Sent(Word)'
  BY <1>1, <1>2, <1>4, <1>8 DEF Sent, v
<1>10. Seen(Word)'
  BY <1>1, <1>2, <1>8 DEF Seen, v
<1>11. Sending(Word)'
  <2>1. \A i \in DOMAIN v : IsData(v[i]) /\ v[i].event < next
                             => \E b \in DOMAIN v : i < b /\ IsBlank(v[b])
    BY <1>2, <1>7, <1>8 DEF Sending
  <2>2. \A m \in 1 .. sent : \E k \in DOMAIN v : v[k] = Data(next, m)
    BY <1>2, <1>7 DEF Sending
  <2>. QED
    BY <1>1, <2>1, <2>2 DEF Sending, v
<1>12. StreamTyped' /\ PendingOK'
  BY <1>1, <1>2, <1>4 DEF StreamTyped, PendingOK
<1>. QED
  BY <1>1, <1>2, <1>4, <1>6, <1>9, <1>10, <1>11, <1>12 DEF IInv, v

-----------------------------------------------------------------------------
(* The connection ends or there is none.                                   *)

LEMMA Abandons ==
    ASSUME IInv, Abandon, log' = log
    PROVE  /\ next' \in 1 .. Events + 1 /\ next' \in Nat /\ sent' = 0
           /\ next \in Nat /\ next <= next' /\ sent \in Nat
           /\ \A e \in Nat : e < next => e < next'
           /\ \A n \in Nat \ {0} : n <= sent => next < next'
           /\ \A n \in DOMAIN log' : log'[n] < next'
<1>1. /\ StreamTyped /\ next \in Nat /\ sent \in Nat /\ next \in 1 .. Events + 1 /\ Events \in Nat
      /\ \A n \in DOMAIN log : log[n] < next
  BY Constants DEF IInv, StreamTyped
<1>2. sent > 0 => next \in 1 .. Events
  BY <1>1 DEF StreamTyped, Event
<1>3. /\ next' = (IF sent > 0 THEN next + 1 ELSE next) /\ sent' = 0
  BY DEF Abandon
<1>4. /\ next' \in 1 .. Events + 1 /\ next' \in Nat /\ next <= next' /\ (sent > 0 => next < next')
  BY <1>1, <1>2, <1>3
<1>5. \A n \in DOMAIN log : log[n] \in Nat
  <2>1. log \in Seq(Nat)
    BY <1>1, Constants, SeqMonotonic DEF StreamTyped
  <2>. QED
    BY <2>1, ElementOfSeq, LenProperties
<1>6. \A e \in Nat : e < next => e < next'
  BY <1>1, <1>4
<1>7. \A n \in Nat \ {0} : n <= sent => next < next'
  BY <1>1, <1>4
<1>. QED
  BY <1>1, <1>3, <1>4, <1>5, <1>6, <1>7

LEMMA KeepsEnding ==
    ASSUME IInv, Connected, Abandon, lines' = Append(lines, Other("end")),
           UNCHANGED <<up, pending, pc, received, log>>
    PROVE  IInv'
<1>. DEFINE w == Word
            v == Word'
            x == Other("end")
            l == Len(w) + 1
<1>1. /\ StreamTyped /\ PendingOK /\ WellFormed(w) /\ Seen(w) /\ Open
  BY Past DEF Connected, Open
<1>2. /\ x \in Line /\ ~IsData(x) /\ ~IsBlank(x) /\ x.kind = "end"
  BY Lines DEF IsData, IsBlank
<1>3. Extends(v, w, x) /\ lines' \in Seq(Line) /\ ~Connected' /\ Open'
  <2>1. Extends(v, w, x) /\ lines' \in Seq(Line) /\ Ended'
    BY <1>1, <1>2, Sends
  <2>. QED
    BY <1>1, <2>1 DEF Connected, Open
<1>4. \A i \in DOMAIN w : w[i].kind \notin {"end", "reset"}
  BY <1>1, NotEnded DEF WellFormed
<1>5. ASSUME NEW i \in DOMAIN w, IsData(w[i])
      PROVE  w[i].event < next'
  <2>1. /\ w[i].event \in Nat /\ w[i].part \in Nat \ {0}
        /\ \/ w[i].event < next
           \/ w[i].event = next /\ w[i].part <= sent
    BY <1>1, <1>5, Past, Constants
  <2>. HIDE DEF w
  <2>. QED
    BY <2>1, Abandons
<1>. HIDE DEF w, v, x
<1>6. WellFormed(v)
  BY <1>1, <1>2, <1>3, <1>4, ExtendsWell
<1>7. /\ v[l] = x
      /\ \A i \in DOMAIN w : i \in DOMAIN v /\ v[i] = w[i]
      /\ \A i \in DOMAIN v : i \in DOMAIN w \/ i = l
  BY <1>3 DEF Extends
<1>8. \A i \in DOMAIN v : IsData(v[i]) => i \in DOMAIN w /\ v[i] = w[i]
  BY <1>2, <1>7
<1>9. Sent(Word)'
  BY <1>5, <1>8 DEF Sent, v
<1>10. Seen(Word)'
  BY <1>1, <1>8 DEF Seen, v
<1>11. StreamTyped' /\ PendingOK'
  BY <1>1, <1>3, Abandons DEF StreamTyped, PendingOK
<1>. QED
  BY <1>1, <1>3, <1>6, <1>9, <1>10, <1>11, Abandons DEF IInv, v

LEMMA KeepsBreaking ==
    ASSUME IInv, Connected, Abandon, lines' = <<Other("reset")>>, up' \in BOOLEAN,
           UNCHANGED <<pending, pc, received, log>>
    PROVE  IInv'
<1>. DEFINE w == Word
            v == Word'
            p == Len(pending)
<1>1. /\ StreamTyped /\ PendingOK /\ WellFormed(w) /\ Seen(w) /\ Open
  BY Past DEF Connected, Open
<1>2. /\ lines' \in Seq(Line) /\ Ended'
      /\ DOMAIN v = 1 .. p + 1
      /\ \A i \in 1 .. p : v[i] = w[i]
      /\ v[p + 1] = Other("reset")
      /\ WellFormed(v)
  BY <1>1, CutsOff
<1>3. ~Connected' /\ Open'
  BY <1>1, <1>2 DEF Connected, Open
<1>4. ASSUME NEW i \in DOMAIN w, IsData(w[i])
      PROVE  w[i].event < next'
  <2>1. /\ w[i].event \in Nat /\ w[i].part \in Nat \ {0}
        /\ \/ w[i].event < next
           \/ w[i].event = next /\ w[i].part <= sent
    BY <1>1, <1>4, Past, Constants
  <2>. HIDE DEF w
  <2>. QED
    BY <2>1, Abandons
<1>5. p \in Nat /\ \A i \in 1 .. p : i \in DOMAIN w
  BY <1>1, Pos
<1>. HIDE DEF w, v, p
<1>6. \A i \in DOMAIN v : i \in 1 .. p \/ i = p + 1
  BY <1>2, <1>5
<1>7. \A i \in DOMAIN v : IsData(v[i]) => i \in DOMAIN w /\ v[i] = w[i]
  BY <1>2, <1>5, <1>6, Lines DEF IsData
<1>8. Sent(Word)'
  BY <1>4, <1>7 DEF Sent, v
<1>9. Seen(Word)'
  BY <1>1, <1>7 DEF Seen, v
<1>10. StreamTyped' /\ PendingOK'
  BY <1>1, <1>2, Abandons DEF StreamTyped, PendingOK
<1>. QED
  BY <1>1, <1>2, <1>3, <1>8, <1>9, <1>10, Abandons DEF IInv, v

(* Nothing of the stream changes, but signal-cli may get ahead. *)
LEMMA KeepsWaiting ==
    ASSUME IInv, next' \in 1 .. Events + 1, next <= next', ~Connected \/ next' = next,
           sent' = sent, up' \in BOOLEAN, received' \in BOOLEAN,
           UNCHANGED <<lines, pending, log>>,
           \/ pc' = pc
           \/ pc = "handle" /\ pc' = "read"
           \/ ~Open /\ pc' \in {"connect", "sleep"}
    PROVE  IInv'
<1>1. StreamTyped /\ PendingOK /\ pc' \in {"connect", "read", "handle", "sleep"}
  BY DEF IInv, StreamTyped
<1>2. Word' = Word
  BY DEF Word
<1>3. (Open' <=> Open) /\ (Connected' <=> Connected)
  BY DEF Open, Connected, Ended
<1>4. next \in Nat /\ next' \in Nat /\ Events \in Nat
  BY <1>1, Constants DEF StreamTyped
<1>5. \A n \in DOMAIN log' : log'[n] < next'
  <2>1. log \in Seq(Nat)
    BY <1>1, Constants, SeqMonotonic DEF StreamTyped
  <2>2. \A n \in DOMAIN log : log[n] \in Nat
    BY <2>1, ElementOfSeq, LenProperties
  <2>3. \A n \in DOMAIN log : log[n] < next
    BY DEF IInv
  <2>. QED
    BY <1>4, <2>2, <2>3
<1>6. ~Connected => sent = 0
  BY DEF IInv
<1>7. StreamTyped' /\ PendingOK'
  <2>1. Connected => next' = next
    OBVIOUS
  <2>. QED
    BY <1>1, <1>6, <2>1 DEF StreamTyped, PendingOK
<1>8. ASSUME Open'
      PROVE  WellFormed(Word') /\ Sent(Word)' /\ Seen(Word)'
  <2>1. Open
    BY <1>3, <1>8
  <2>2. \A i \in DOMAIN Word : IsData(Word[i]) => Word[i].event \in Nat
    BY <2>1, Past, Constants
  <2>3. \A i \in DOMAIN Word : IsData(Word[i]) /\ Word[i].event < next => Word[i].event < next'
    BY <1>4, <2>2
  <2>4. Sent(Word)'
    BY <1>2, <1>3, <2>1, <2>3 DEF IInv, Sent
  <2>. QED
    BY <1>2, <2>1, <2>4 DEF IInv, Seen
<1>9. Connected' => Sending(Word)'
  BY <1>2, <1>3 DEF IInv, Sending
<1>10. ~Open' => lines' = <<>>
  BY <1>3 DEF IInv
<1>. QED
  BY <1>3, <1>5, <1>6, <1>7, <1>8, <1>9, <1>10 DEF IInv

LEMMA KeepsConnecting ==
    ASSUME IInv, Connect
    PROVE  IInv'
<1>1. /\ StreamTyped /\ ~Open /\ ~Connected /\ pc' = "read" /\ pending' = <<>>
      /\ received' = FALSE /\ up' = up /\ next' = next /\ sent' = sent /\ lines' = lines
      /\ log' = log
  BY DEF Connect, IInv, Open, Connected, daemon
<1>2. lines' = <<>> /\ sent' = 0 /\ \A n \in DOMAIN log : log[n] < next
  BY <1>1 DEF IInv
<1>3. Word' = <<>>
  BY <1>1, <1>2 DEF Word
<1>4. DOMAIN Word' = {}
  BY <1>3
<1>5. WellFormed(Word')
  BY <1>4 DEF WellFormed, Ordered, Separated, Whole, FromTheFirst, EndIsLast
<1>6. Sent(Word)' /\ Seen(Word)'
  BY <1>4 DEF Sent, Seen
<1>7. Sending(Word)'
  <2>1. 1 .. sent' = {}
    BY <1>2
  <2>. QED
    BY <1>4, <2>1 DEF Sending
<1>8. StreamTyped'
  <2>1. <<>> \in Seq(Line) /\ <<>> \in Seq(DataLine)
    OBVIOUS
  <2>. QED
    BY <1>1, <1>2, <2>1 DEF StreamTyped
<1>9. PendingOK'
  <2>1. DOMAIN pending' = {}
    BY <1>1
  <2>. QED
    BY <2>1 DEF PendingOK
<1>. QED
  BY <1>1, <1>2, <1>5, <1>6, <1>7, <1>8, <1>9 DEF IInv, Open

LEMMA KeepsFailing ==
    ASSUME IInv, Fail
    PROVE  IInv'
<1>1. /\ StreamTyped /\ PendingOK /\ pc' = "sleep" /\ lines' = <<>> /\ Abandon
      /\ UNCHANGED <<up, pending, received, log>>
  BY DEF Fail, IInv
<1>2. ~Open' /\ ~Connected'
  BY <1>1 DEF Open, Connected
<1>3. StreamTyped' /\ PendingOK'
  BY <1>1, Abandons DEF StreamTyped, PendingOK
<1>. QED
  BY <1>1, <1>2, <1>3, Abandons DEF IInv

-----------------------------------------------------------------------------
(* The client reads a line.                                                *)

LEMMA KeepsReadingData ==
    ASSUME IInv, Read, ReadData
    PROVE  IInv'
<1>. DEFINE x == Head(lines)
            p == Len(pending)
            w == Word
<1>1. /\ pc = "read" /\ lines # <<>> /\ IsData(x)
      /\ pending' = Append(pending, x) /\ lines' = Tail(lines)
      /\ UNCHANGED <<up, next, sent, received, log, pc>> /\ Open
  BY DEF Read, ReadData, Ignore, IsData, Open, daemon
<1>2. StreamTyped /\ PendingOK /\ WellFormed(w) /\ Seen(w) /\ Sent(w)
  BY <1>1, Past DEF IInv
<1>3. /\ Word' = w /\ pending' \in Seq(DataLine) /\ lines' \in Seq(Line)
      /\ Len(pending') = p + 1
      /\ \A i \in 1 .. p : pending'[i] = pending[i]
      /\ pending'[p + 1] = x
  BY <1>1, <1>2, MovesOver
<1>4. /\ x \in Line /\ w[p + 1] = x /\ p + 1 \in DOMAIN w
      /\ (Ended' <=> Ended)
  <2>1. x.kind \notin {"end", "reset"}
    BY <1>1 DEF IsData
  <2>. QED
    BY <1>1, <1>2, <2>1, ReadsHead
<1>5. /\ p \in Nat /\ DOMAIN pending = 1 .. p /\ DOMAIN pending' = 1 .. p + 1
      /\ \A i \in 1 .. p : w[i] = pending[i] /\ IsData(w[i]) /\ i \in DOMAIN w
      /\ DOMAIN w \subseteq Nat \ {0}
  <2>1. /\ p \in Nat /\ DOMAIN pending = 1 .. p /\ DOMAIN w = 1 .. p + Len(lines)
        /\ Len(lines) \in Nat /\ \A i \in 1 .. p : w[i] = pending[i] /\ pending[i] \in DataLine
    BY <1>2, Pos
  <2>2. DOMAIN pending' = 1 .. p + 1
    BY <1>3, LenProperties
  <2>3. \A i \in 1 .. p : i \in 1 .. p + Len(lines)
    BY <2>1
  <2>. QED
    BY <2>1, <2>2, <2>3, Lines
<1>6. x.event \in Event /\ x.part \in Nat \ {0} /\ x = Data(x.event, x.part)
  BY <1>1, <1>4, Lines
<1>. HIDE DEF x, w, p
<1>7. \A i \in 1 .. p : pending[i].part = i /\ pending[i].event = pending[1].event
  BY <1>2, <1>5 DEF PendingOK
<1>8. \A m \in Nat : 1 <= m /\ m < x.part
        => \E k \in DOMAIN w : k < p + 1 /\ w[k] = Data(x.event, m)
  BY <1>1, <1>2, <1>4 DEF WellFormed, FromTheFirst
<1>9. ~(p + 1 < x.part)
  <2>1. \A m \in Nat \ {0} : Data(x.event, m).part = m
    BY <1>6, Lines
  <2>2. \A k \in DOMAIN w : k < p + 1 => k \in 1 .. p
    BY <1>5
  <2>3. \A k \in DOMAIN w : k < p + 1 => w[k].part = k
    BY <1>5, <1>7, <2>2
  <2>4. p + 1 \in Nat \ {0} /\ 1 <= p + 1
    BY <1>5
  <2>5. \A k \in DOMAIN w : k < p + 1 => w[k] # Data(x.event, p + 1)
    <3>1. \A k \in Nat : k < p + 1 => k # p + 1
      BY <1>5
    <3>. QED
      BY <1>5, <2>1, <2>3, <2>4, <3>1
  <2>. QED
    BY <1>8, <2>4, <2>5
<1>10. CASE p = 0
  <2>1. x.part = 1 /\ 1 .. p + 1 = {1} /\ p + 1 = 1
    BY <1>6, <1>9, <1>10
  <2>. QED
    <3>1. PendingOK'
      BY <1>3, <1>5, <2>1 DEF PendingOK
    <3>. QED
      BY <1>1, <1>2, <1>3, <1>4, <3>1 DEF IInv, Open, Connected, Sending, Sent, Seen, StreamTyped, w
<1>11. CASE p # 0
  <2>1. p \in 1 .. p /\ p < p + 1 /\ 1 \in 1 .. p
    BY <1>5, <1>11
  <2>2. x.event = w[p].event
    <3>1. \A b \in DOMAIN w : ~(p < b /\ b < p + 1)
      BY <1>5
    <3>. QED
      BY <1>1, <1>2, <1>4, <1>5, <2>1, <3>1 DEF WellFormed, Separated
  <2>3. x.event \in Nat
    BY <1>6, Constants
  <2>4. w[p].part < x.part
    <3>1. ~(x.event < x.event)
      BY <2>3
    <3>. QED
      BY <1>1, <1>2, <1>4, <1>5, <2>1, <2>2, <3>1 DEF WellFormed, Ordered
  <2>5. w[p].part = p
    BY <1>5, <1>7, <2>1
  <2>6. x.part = p + 1
    BY <1>5, <1>6, <1>9, <2>4, <2>5
  <2>7. x.event = pending[1].event
    BY <1>5, <1>7, <2>1, <2>2
  <2>8. pending'[1] = pending[1] /\ \A i \in 1 .. p + 1 : i \in 1 .. p \/ i = p + 1
    BY <1>3, <1>5, <2>1
  <2>9. PendingOK'
    BY <1>3, <1>5, <1>7, <2>6, <2>7, <2>8 DEF PendingOK
  <2>. QED
    BY <1>1, <1>2, <1>3, <1>4, <2>9 DEF IInv, Open, Connected, Sending, Sent, Seen, StreamTyped, w
<1>. QED
  BY <1>10, <1>11

(* The word loses lines, none of the event that signal-cli is sending. *)
LEMMA KeepsThinning ==
    ASSUME IInv, Open, NEW h, Thins(Word', Word, h),
           UNCHANGED <<up, next, sent>>, StreamTyped', PendingOK', Open',
           Connected' <=> Connected,
           \A n \in DOMAIN log' : log'[n] < next,
           Seen(Word)',
           \A k \in DOMAIN Word, i \in DOMAIN Word' :
              /\ IsData(Word[k]) /\ IsData(Word'[i]) /\ Word[k].event = Word'[i].event
              => Left(Word', h, k),
           \A k \in DOMAIN Word, i \in DOMAIN Word' :
              IsBlank(Word[k]) /\ h[i] < k => Left(Word', h, k),
           \A k \in DOMAIN Word :
              IsData(Word[k]) /\ Word[k].event = next => Left(Word', h, k)
    PROVE  IInv'
<1>. DEFINE w == Word
            v == Word'
<1>1. /\ StreamTyped /\ WellFormed(w) /\ Sent(w) /\ (Connected => Sending(w))
      /\ \A i \in DOMAIN w : w[i] \in Line
  BY Past, Pos DEF IInv
<1>2. WellFormed(v)
  BY <1>1, ThinsWell
<1>. HIDE DEF w, v
<1>3. /\ \A i \in DOMAIN v : h[i] \in DOMAIN w /\ v[i] = w[h[i]]
      /\ \A i, j \in DOMAIN v : i < j <=> h[i] < h[j]
  BY DEF Thins, v, w
<1>4. Sent(Word)'
  <2>. SUFFICES ASSUME NEW i \in DOMAIN v, IsData(v[i])
                PROVE  /\ \/ v[i].event < next
                          \/ Connected /\ v[i].event = next /\ v[i].part <= sent
                       /\ \A b \in DOMAIN v : i < b /\ IsBlank(v[b]) => v[i].event < next
    BY DEF Sent, v
  <2>. QED
    BY <1>1, <1>3 DEF Sent
<1>5. ASSUME Connected'
      PROVE  Sending(Word)'
  <2>1. ASSUME NEW i \in DOMAIN v, IsData(v[i]), v[i].event < next
        PROVE  \E b \in DOMAIN v : i < b /\ IsBlank(v[b])
    <3>1. PICK b \in DOMAIN w : h[i] < b /\ IsBlank(w[b])
      BY <1>1, <1>3, <1>5, <2>1 DEF Sending
    <3>2. PICK j \in DOMAIN v : h[j] = b
      BY <3>1 DEF Left, v, w
    <3>. QED
      BY <1>3, <3>1, <3>2
  <2>2. ASSUME NEW m \in 1 .. sent PROVE \E k \in DOMAIN v : v[k] = Data(next, m)
    <3>1. PICK k \in DOMAIN w : w[k] = Data(next, m)
      BY <1>1, <1>5, <2>2 DEF Sending
    <3>2. next \in Event /\ m \in Nat \ {0}
      <4>1. sent \in Nat
        BY <1>1 DEF StreamTyped
      <4>2. sent > 0 /\ m \in Nat \ {0}
        BY <4>1
      <4>. QED
        BY <1>1, <4>2 DEF StreamTyped
    <3>3. IsData(w[k]) /\ w[k].event = next
      BY <3>1, <3>2, Lines
    <3>4. PICK j \in DOMAIN v : h[j] = k
      BY <3>1, <3>3 DEF Left, v, w
    <3>. QED
      BY <1>3, <3>1, <3>4
  <2>. QED
    BY <2>1, <2>2 DEF Sending, v
<1>6. (~Connected => sent = 0) /\ (~Connected' => sent' = 0)
  BY DEF IInv
<1>. QED
  BY <1>2, <1>4, <1>5, <1>6 DEF IInv, v

LEMMA KeepsReadingComment ==
    ASSUME IInv, Read, ReadComment
    PROVE  IInv'
<1>. DEFINE w == Word
            v == Word'
            c == Len(pending) + 1
<1>1. /\ pc = "read" /\ lines # <<>> /\ Head(lines).kind = "comment"
      /\ pending' = pending /\ lines' = Tail(lines)
      /\ UNCHANGED <<up, next, sent, received, log, pc>> /\ Open /\ Open'
  BY DEF Read, ReadComment, Ignore, Open, daemon
<1>2. StreamTyped /\ PendingOK /\ Seen(w)
  BY <1>1, Past
<1>3. /\ w[c].kind = "comment" /\ lines' \in Seq(Line) /\ (Connected' <=> Connected)
  <2>1. Head(lines).kind \notin {"end", "reset"}
    BY <1>1
  <2>2. w[c] = Head(lines) /\ Tail(lines) \in Seq(Line) /\ (Ended' <=> Ended)
    BY <1>1, <1>2, <2>1, ReadsHead
  <2>. QED
    BY <1>1, <2>2 DEF Connected
<1>4. PICK h : Thins(v, w, h) /\ \A k \in DOMAIN w : k = c \/ Left(v, h, k)
  BY <1>1, <1>2, Skips
<1>. HIDE DEF v, w, c
<1>5. ~IsData(w[c]) /\ ~IsBlank(w[c])
  BY <1>3 DEF IsData, IsBlank
<1>6. \A k \in DOMAIN w : IsData(w[k]) \/ IsBlank(w[k]) => Left(v, h, k)
  BY <1>4, <1>5
<1>7. \A i \in DOMAIN v : h[i] \in DOMAIN w /\ v[i] = w[h[i]]
  BY <1>4 DEF Thins
<1>8. Seen(Word)'
  BY <1>1, <1>2, <1>7 DEF Seen, v
<1>9. StreamTyped' /\ PendingOK'
  BY <1>1, <1>2, <1>3 DEF StreamTyped, PendingOK
<1>10. \A n \in DOMAIN log' : log'[n] < next
  BY <1>1 DEF IInv
<1>11. \A k \in DOMAIN w : IsData(w[k]) => Left(v, h, k)
  BY <1>6
<1>12. \A k \in DOMAIN w : IsBlank(w[k]) => Left(v, h, k)
  BY <1>6
<1>. QED
  BY <1>1, <1>3, <1>4, <1>8, <1>9, <1>10, <1>11, <1>12, KeepsThinning DEF v, w

(* What is pending is a whole event. *)
LEMMA Complete ==
    ASSUME IInv, Open, NEW e \in Payload
    PROVE  /\ e \in Event /\ Form[e] = "object" /\ Len(pending) = DataLines[e]
           /\ \A n \in 1 .. DataLines[e] : pending[n] = Data(e, n)
           /\ 1 \in DOMAIN Word /\ 1 <= Len(pending) /\ Word[1] = Data(e, 1)
           /\ IsData(Word[1]) /\ Word[1].event = e
           /\ \A n \in DOMAIN log : log[n] < e
<1>1. e \in Event /\ Form[e] = "object" /\ pending = Text(e)
  BY DEF Payload
<1>2. DataLines[e] \in Nat \ {0} /\ 1 \in 1 .. DataLines[e]
  BY <1>1, Constants
<1>3. DOMAIN pending = 1 .. DataLines[e] /\ \A n \in 1 .. DataLines[e] : pending[n] = Data(e, n)
  BY <1>1 DEF Text
<1>4. StreamTyped /\ Seen(Word)
  BY Past
<1>5. Len(pending) = DataLines[e]
  BY <1>2, <1>3, <1>4, LenProperties DEF StreamTyped
<1>6. 1 \in DOMAIN Word /\ Word[1] = pending[1]
  <2>1. /\ DOMAIN Word = 1 .. Len(pending) + Len(lines) /\ Len(lines) \in Nat
        /\ \A i \in 1 .. Len(pending) : Word[i] = pending[i]
    BY <1>4, Pos
  <2>. QED
    BY <1>2, <1>5, <2>1
<1>7. IsData(Word[1]) /\ Word[1].event = e /\ Word[1] = Data(e, 1)
  BY <1>1, <1>2, <1>3, <1>6, Lines
<1>8. \A n \in DOMAIN log : log[n] < e
  BY <1>4, <1>6, <1>7 DEF Seen
<1>. QED
  BY <1>1, <1>2, <1>3, <1>5, <1>6, <1>7, <1>8

LEMMA Logs ==
    ASSUME IInv, Open, NEW e \in Payload, e < next, log' = Append(log, e)
    PROVE  /\ log' \in Seq(Event)
           /\ \A n \in DOMAIN log' : log'[n] < next
           /\ \A n \in DOMAIN log' : log'[n] = e \/ log'[n] < e
<1>1. log \in Seq(Event) /\ e \in Event /\ e \in Nat
  BY Constants DEF IInv, StreamTyped, Payload
<1>2. /\ log' \in Seq(Event) /\ Len(log') = Len(log) + 1 /\ Len(log) \in Nat
      /\ DOMAIN log = 1 .. Len(log) /\ DOMAIN log' = 1 .. Len(log) + 1
      /\ \A n \in 1 .. Len(log) : log'[n] = log[n]
      /\ log'[Len(log) + 1] = e
  BY <1>1, AppendProperties, LenProperties
<1>3. \A n \in 1 .. Len(log) + 1 : n \in 1 .. Len(log) \/ n = Len(log) + 1
  BY <1>2
<1>4. \A n \in DOMAIN log : log[n] < e /\ log[n] < next
  BY Complete DEF IInv
<1>. QED
  BY <1>2, <1>3, <1>4

(* The lines that a blank one ends are not of the event that is being      *)
(* sent, and no line of the same event comes later.                        *)
LEMMA BlankEnds ==
    ASSUME IInv, Open, NEW b \in DOMAIN Word, IsBlank(Word[b]),
           NEW k \in DOMAIN Word, k < b, IsData(Word[k])
    PROVE  /\ Word[k].event < next
           /\ \A i \in DOMAIN Word : b < i /\ IsData(Word[i]) => Word[k].event # Word[i].event
<1>. DEFINE w == Word
<1>1. /\ StreamTyped /\ WellFormed(w) /\ w[k].event \in Event /\ w[k].event < next
      /\ \A i \in DOMAIN w : IsData(w[i])
            => w[i].part \in Nat \ {0} /\ w[i].event \in Event
  BY Past
<1>2. DOMAIN w \subseteq Nat
  BY <1>1, Pos
<1>. HIDE DEF w
<1>3. ASSUME NEW i \in DOMAIN w, b < i, IsData(w[i]), w[k].event = w[i].event
      PROVE  FALSE
  <2>. DEFINE e == w[k].event
              m == w[i].part
  <2>1. e \in Event /\ m \in Nat \ {0} /\ w[i].event = e /\ e \in Nat
    BY <1>1, <1>3, Constants
  <2>2. m <= DataLines[e]
    BY <1>1, <1>3 DEF WellFormed, FromTheFirst
  <2>3. m \in 1 .. DataLines[e]
    BY <2>1, <2>2, Constants
  <2>4. PICK j \in DOMAIN w : j < b /\ w[j] = Data(e, m)
    BY <1>1, <2>3 DEF WellFormed, Whole, w
  <2>5. j < i
    BY <1>2, <1>3, <2>4 DEF w
  <2>6. IsData(w[j]) /\ w[j].event = e /\ w[j].part = m
    BY <2>1, <2>4, Lines
  <2>7. ~(e < e) /\ ~(m < m)
    BY <2>1
  <2>. HIDE DEF e, m
  <2>8. w[i].part = m
    BY DEF m
  <2>. QED
    BY <1>1, <1>3, <2>1, <2>4, <2>5, <2>6, <2>7, <2>8 DEF WellFormed, Ordered
<1>. QED
  BY <1>1, <1>3 DEF w

LEMMA KeepsReadingBlank ==
    ASSUME IInv, Read, ReadBlank
    PROVE  IInv'
<1>. DEFINE w == Word
            v == Word'
            b == Len(pending) + 1
<1>1. /\ pc = "read" /\ lines # <<>> /\ Head(lines).kind = "blank"
      /\ pending' = <<>> /\ lines' = Tail(lines)
      /\ UNCHANGED <<up, next, sent>> /\ Open
  BY DEF Read, ReadBlank, Open, daemon
<1>2. StreamTyped /\ PendingOK /\ Seen(w) /\ WellFormed(w)
      /\ \A n \in DOMAIN log : log[n] < next
  BY <1>1, Past DEF IInv
<1>3. /\ IsBlank(w[b]) /\ b \in DOMAIN w /\ lines' \in Seq(Line) /\ (Ended' <=> Ended)
  <2>1. Head(lines).kind \notin {"end", "reset"}
    BY <1>1
  <2>. QED
    BY <1>1, <1>2, <2>1, ReadsHead DEF IsBlank
<1>4. PICK h : LeavesAfter(v, w, h, b)
  BY <1>1, <1>2, Clears
<1>5. /\ b \in Nat \ {0} /\ DOMAIN w \subseteq Nat
      /\ \A k \in DOMAIN w : w[k] \in Line
  BY <1>2, Pos
<1>6. \A k \in DOMAIN w : k < b /\ IsData(w[k])
        => /\ w[k].event < next
           /\ \A i \in DOMAIN w : b < i /\ IsData(w[i]) => w[k].event # w[i].event
  BY <1>1, <1>3, BlankEnds
<1>7. \/ UNCHANGED <<log, pc, received>>
      \/ \E e \in Payload : log' = Append(log, e) /\ pc' = "handle" /\ received' = TRUE
  BY DEF ReadBlank, Ignore, Yield
<1>8. \A e \in Payload : 1 < b /\ 1 \in DOMAIN w /\ IsData(w[1]) /\ w[1].event = e
  <2>1. \A e \in Payload : 1 <= Len(pending) /\ 1 \in DOMAIN w /\ IsData(w[1]) /\ w[1].event = e
    BY <1>1, Complete
  <2>2. Len(pending) \in Nat
    BY <1>2, Pos
  <2>. QED
    BY <2>1, <2>2
<1>. HIDE DEF v, w, b
<1>9a. /\ Thins(v, w, h)
       /\ \A k \in DOMAIN w : k > b => Left(v, h, k)
       /\ \A i \in DOMAIN v : h[i] > b
  BY <1>4 DEF LeavesAfter
<1>9. \A i \in DOMAIN v : h[i] \in DOMAIN w /\ v[i] = w[h[i]] /\ b < h[i] /\ h[i] \in Nat
  BY <1>9a, <1>5 DEF Thins
<1>10. \A k \in DOMAIN w : IsData(w[k]) => k < b \/ Left(v, h, k)
  <2>1. w[b].kind # "data"
    BY <1>3 DEF IsBlank
  <2>2. \A k \in DOMAIN w : k < b \/ k = b \/ k > b
    BY <1>5
  <2>. QED
    BY <1>9a, <2>1, <2>2 DEF IsData
<1>11. \A k \in DOMAIN w, i \in DOMAIN v :
          IsData(w[k]) /\ IsData(v[i]) /\ w[k].event = v[i].event => Left(v, h, k)
  BY <1>6, <1>9, <1>10
<1>12. \A k \in DOMAIN w, i \in DOMAIN v : IsBlank(w[k]) /\ h[i] < k => Left(v, h, k)
  <2>1. \A k \in Nat, i \in Nat : b < i /\ i < k => k > b
    BY <1>5
  <2>. QED
    BY <1>9a, <1>5, <1>9, <2>1
<1>13. \A k \in DOMAIN w : IsData(w[k]) /\ w[k].event = next => Left(v, h, k)
  <2>1. ~(next < next)
    BY <1>2, Constants DEF StreamTyped
  <2>. QED
    BY <1>6, <1>10, <2>1
<1>14. PendingOK'
  <2>1. DOMAIN pending' = {}
    BY <1>1
  <2>. QED
    BY <2>1 DEF PendingOK
<1>15. \A i \in DOMAIN v : IsData(v[i]) => \A n \in DOMAIN log : log[n] < v[i].event
  BY <1>2, <1>9 DEF Seen
<1>16. CASE UNCHANGED <<log, pc, received>>
  <2>1. Open' /\ (Connected' <=> Connected)
    BY <1>1, <1>3, <1>16 DEF Open, Connected
  <2>2. Seen(Word)'
    BY <1>15, <1>16 DEF Seen, v
  <2>3. StreamTyped'
    BY <1>1, <1>2, <1>3, <1>16 DEF StreamTyped
  <2>4. \A n \in DOMAIN log' : log'[n] < next
    BY <1>2, <1>16
  <2>. QED
    BY <1>1, <1>9a, <1>11, <1>12, <1>13, <1>14, <2>1, <2>2, <2>3, <2>4, KeepsThinning DEF v, w
<1>17. ASSUME NEW e \in Payload, log' = Append(log, e), pc' = "handle", received' = TRUE
       PROVE  IInv'
  <2>1. Open' /\ (Connected' <=> Connected)
    BY <1>1, <1>3, <1>17 DEF Open, Connected
  <2>2. e < next
    BY <1>6, <1>8
  <2>3. /\ log' \in Seq(Event)
        /\ \A n \in DOMAIN log' : log'[n] < next
        /\ \A n \in DOMAIN log' : log'[n] = e \/ log'[n] < e
    BY <1>1, <1>17, <2>2, Logs
  <2>4. ASSUME NEW i \in DOMAIN v, IsData(v[i])
        PROVE  e < v[i].event
    <3>1. e # v[i].event
      BY <1>6, <1>8, <1>9, <2>4
    <3>2. 1 < h[i]
      BY <1>5, <1>8, <1>9
    <3>3. e < v[i].event \/ e = v[i].event
      BY <1>2, <1>8, <1>9, <2>4, <3>2 DEF WellFormed, Ordered
    <3>. QED
      BY <3>1, <3>3
  <2>5. Seen(Word)'
    <3>1. \A n \in DOMAIN log' : log'[n] \in Nat
      <4>1. log' \in Seq(Nat)
        BY <2>3, Constants, SeqMonotonic
      <4>. QED
        BY <4>1, ElementOfSeq, LenProperties
    <3>2. \A i \in DOMAIN v : IsData(v[i]) => v[i].event \in Nat
      <4>1. \A i \in DOMAIN v : IsData(v[i]) => v[i].event \in Event
        BY <1>5, <1>9, Lines
      <4>. QED
        BY <4>1, Constants
    <3>3. e \in Nat
      BY Constants DEF Payload
    <3>4. ASSUME NEW n \in DOMAIN log', NEW i \in DOMAIN v, IsData(v[i])
          PROVE  log'[n] < v[i].event
      <4>1. /\ e < v[i].event /\ log'[n] \in Nat /\ v[i].event \in Nat
            /\ log'[n] = e \/ log'[n] < e
        BY <2>3, <2>4, <3>1, <3>2, <3>4
      <4>. QED
        BY <3>3, <4>1
    <3>. QED
      BY <3>4 DEF Seen, v
  <2>6. StreamTyped'
    BY <1>1, <1>2, <1>3, <1>17, <2>3 DEF StreamTyped
  <2>. QED
    BY <1>1, <1>9a, <1>11, <1>12, <1>13, <1>14, <2>1, <2>3, <2>5, <2>6, KeepsThinning DEF v, w
<1>. QED
  BY <1>7, <1>16, <1>17

LEMMA KeepsReadingEnd ==
    ASSUME IInv, Read, ReadEnd
    PROVE  IInv'
<1>. DEFINE w == Word
            v == Word'
            p == Len(pending)
            n == Len(lines)
<1>1. /\ pc = "read" /\ lines # <<>> /\ Head(lines).kind = "end"
      /\ pending' = <<>> /\ lines' = lines
      /\ UNCHANGED <<up, next, sent>> /\ Open
  BY DEF Read, ReadEnd, Open, daemon
<1>2. StreamTyped /\ WellFormed(w)
  BY <1>1, Past
<1>3. PICK e \in Payload : log' = Append(log, e) /\ pc' = "handle" /\ received' = TRUE
  BY DEF ReadEnd, Yield
<1>4. /\ p \in Nat /\ n \in Nat /\ p + 1 \in DOMAIN w /\ w[p + 1] = Head(lines)
      /\ Len(w) = p + n /\ DOMAIN lines = 1 .. n /\ lines \in Seq(Line)
      /\ w[1 + p] = lines[1] \/ n = 0
      /\ n >= 1
  <2>1. \A i \in 1 .. n : w[i + p] = lines[i]
    BY <1>2, Pos
  <2>2. n >= 1 /\ n \in Nat
    BY <1>1, <1>2, Pos, ReadsHead
  <2>3. 1 \in 1 .. n
    BY <2>2
  <2>. QED
    BY <1>1, <1>2, <2>1, <2>2, <2>3, Pos, ReadsHead DEF StreamTyped
<1>5. n = 1
  <2>1. p + 1 = p + n
    BY <1>1, <1>2, <1>4 DEF WellFormed, EndIsLast
  <2>. QED
    BY <1>4, <2>1
<1>6. lines[1].kind = "end"
  BY <1>1, <1>2, HeadTailProperties, EmptySeq DEF StreamTyped
<1>7. ~Connected /\ ~Connected' /\ Open'
  BY <1>1, <1>3, <1>5, <1>6 DEF Connected, Ended, Last, Open
<1>8. v = lines
  BY <1>1, <1>4, ConcatEmptySeq DEF Word
<1>9. DOMAIN v = {1} /\ Len(v) = 1 /\ v[1].kind = "end" /\ v = lines
  BY <1>4, <1>5, <1>6, <1>8
<1>. HIDE DEF v
<1>10. \A i \in DOMAIN v : i = Len(v) /\ ~IsData(v[i]) /\ ~IsBlank(v[i])
  BY <1>9 DEF IsData, IsBlank
<1>11. WellFormed(v)
  BY <1>10 DEF WellFormed, Ordered, Separated, Whole, FromTheFirst, EndIsLast
<1>12. Sent(Word)' /\ Seen(Word)'
  BY <1>10 DEF Sent, Seen, v
<1>13. e < next
  <2>1. 1 \in DOMAIN w /\ IsData(w[1]) /\ w[1].event = e
    BY <1>1, <1>3, Complete
  <2>. QED
    BY <1>1, <1>7, <2>1, Past
<1>14. log' \in Seq(Event) /\ \A m \in DOMAIN log' : log'[m] < next
  BY <1>1, <1>3, <1>13, Logs
<1>15. StreamTyped' /\ PendingOK'
  <2>1. DOMAIN pending' = {} /\ <<>> \in Seq(DataLine)
    BY <1>1
  <2>. QED
    BY <1>1, <1>2, <1>3, <1>14, <2>1 DEF StreamTyped, PendingOK
<1>16. sent' = 0
  BY <1>1, <1>7 DEF IInv
<1>. QED
  BY <1>1, <1>7, <1>11, <1>12, <1>14, <1>15, <1>16 DEF IInv, v

-----------------------------------------------------------------------------
(* The invariant.                                                          *)

LEMMA InitIInv == Init => IInv
<1>. SUFFICES ASSUME Init PROVE IInv
  OBVIOUS
<1>1. /\ up = TRUE /\ next = 1 /\ sent = 0 /\ lines = <<>> /\ pending = <<>>
      /\ pc = "connect" /\ received = FALSE /\ log = <<>>
  BY DEF Init
<1>2. ~Open /\ ~Connected
  BY <1>1 DEF Open, Connected
<1>3. /\ 1 \in 1 .. Events + 1 /\ <<>> \in Seq(Line) /\ <<>> \in Seq(DataLine)
      /\ <<>> \in Seq(Event) /\ ~(0 > 0)
  BY Constants
<1>4. StreamTyped
  BY <1>1, <1>3 DEF StreamTyped
<1>5. DOMAIN pending = {} /\ DOMAIN log = {}
  BY <1>1
<1>. QED
  BY <1>1, <1>2, <1>4, <1>5 DEF IInv, PendingOK

LEMMA NextIInv == IInv /\ [Next]_vars => IInv'
<1>. SUFFICES ASSUME IInv, [Next]_vars PROVE IInv'
  OBVIOUS
<1>1. /\ next \in Nat /\ next \in 1 .. Events + 1 /\ Events \in Nat /\ sent \in Nat
      /\ up \in BOOLEAN /\ received \in BOOLEAN /\ next <= next
  BY Constants DEF IInv, StreamTyped
<1>2. CASE SendLine
  BY <1>2, KeepsSendingData, KeepsSendingBlank
<1>3. CASE SendComment
  BY <1>3, KeepsSendingComment
<1>4. CASE EndStream
  BY <1>1, <1>4, KeepsEnding, KeepsBreaking DEF EndStream
<1>5. CASE PublishUnheard
  <2>1. next + 1 \in 1 .. Events + 1 /\ next <= next + 1
    BY <1>1, <1>5 DEF PublishUnheard, Event
  <2>. QED
    BY <1>1, <1>5, <2>1, KeepsWaiting DEF PublishUnheard
<1>6. CASE GoesDown
  <2>1. CASE Connected
    BY <1>6, <2>1, KeepsBreaking DEF GoesDown
  <2>2. CASE ~Connected
    <3>1. sent = 0 /\ ~(0 > 0)
      BY <2>2 DEF IInv
    <3>2. next' = next /\ sent' = sent
      BY <1>6, <3>1 DEF GoesDown, Abandon
    <3>. QED
      BY <1>1, <1>6, <2>2, <3>2, KeepsWaiting DEF GoesDown
  <2>. QED
    BY <2>1, <2>2
<1>7. CASE ComesUp
  BY <1>1, <1>7, KeepsWaiting DEF ComesUp
<1>8. CASE Connect
  BY <1>8, KeepsConnecting
<1>9. CASE ConnectFails
  <2>1. ~Open /\ ~Connected
    BY <1>9 DEF ConnectFails, Open, Connected
  <2>. QED
    BY <1>1, <1>9, <2>1, KeepsWaiting DEF ConnectFails, daemon
<1>10. CASE Wake
  <2>1. ~Open /\ ~Connected
    BY <1>10 DEF Wake, Open, Connected
  <2>. QED
    BY <1>1, <1>10, <2>1, KeepsWaiting DEF Wake, daemon
<1>11. CASE Handled
  BY <1>1, <1>11, KeepsWaiting DEF Handled, daemon
<1>12. CASE Read
  BY <1>12, KeepsReadingData, KeepsReadingComment, KeepsReadingBlank, KeepsReadingEnd
     DEF Read
<1>13. CASE Fail
  BY <1>13, KeepsFailing
<1>14. CASE UNCHANGED vars
  BY <1>1, <1>14, KeepsWaiting DEF vars, daemon
<1>. QED
  BY <1>2, <1>3, <1>4, <1>5, <1>6, <1>7, <1>8, <1>9, <1>10, <1>11, <1>12, <1>13, <1>14
     DEF Next, DaemonStep, ClientStep

(* The invariant holds in every run, and with it what it says of the lines *)
(* under way: in order, each once, and no line of an event without those   *)
(* before it.                                                              *)
THEOREM Inductive == Spec => []IInv
<1>. QED
  BY InitIInv, NextIInv, PTL DEF Spec

-----------------------------------------------------------------------------
(* The channel.                                                            *)

Flight == {e \in Event : Arriving(e)}

(* All data lines of the event are in the word. *)
Carries(w, e) == \A n \in 1 .. DataLines[e] : \E k \in DOMAIN w : w[k] = Data(e, n)

LEMMA Flights ==
    /\ \A e \in Event : e \in Flight <=> Open /\ Form[e] = "object" /\ Carries(Word, e)
    /\ \A e \in Event : e \in Flight' <=> Open' /\ Form[e] = "object" /\ Carries(Word', e)
    /\ Flight \subseteq Event /\ Flight' \subseteq Event
<1>1. ASSUME NEW e \in Event
      PROVE  Arriving(e) <=> Open /\ Form[e] = "object" /\ Carries(Word, e)
  BY DEF Arriving, Open, Carries, Word, Range
<1>2. ASSUME NEW e \in Event
      PROVE  Arriving(e)' <=> Open' /\ Form[e] = "object" /\ Carries(Word', e)
  BY DEF Arriving, Open, Carries, Word, Range
<1>. QED
  BY <1>1, <1>2 DEF Flight

(* The first line of an event in flight. *)
LEMMA Carried ==
    ASSUME NEW w, NEW e \in Event, Carries(w, e)
    PROVE  \E k \in DOMAIN w : w[k] = Data(e, 1) /\ IsData(w[k]) /\ w[k].event = e
<1>1. 1 \in 1 .. DataLines[e] /\ 1 \in Nat \ {0}
  BY Constants
<1>2. PICK k \in DOMAIN w : w[k] = Data(e, 1)
  BY <1>1 DEF Carries
<1>. QED
  BY <1>1, <1>2, Lines

LEMMA Quiet ==
    ASSUME log' = log, Connected' <=> Connected, Flight' = Flight
    PROVE  UNCHANGED <<Connected, Flight, log>>
BY DEF Connected

(* Steps that do not touch the word. *)
LEMMA QuietSteps ==
    ASSUME Word' = Word, Open' <=> Open, Connected' <=> Connected, log' = log
    PROVE  UNCHANGED <<Connected, Flight, log>>
<1>1. Flight' = Flight
  BY Flights
<1>. QED
  BY <1>1, Quiet

LEMMA PublishesData ==
    ASSUME IInv, SendLine, sent < DataLines[next]
    PROVE  \/ UNCHANGED <<Connected, Flight, log>>
           \/ Channel!Publishes
<1>. DEFINE w == Word
            v == Word'
            x == Data(next, sent + 1)
            l == Len(w) + 1
<1>1. /\ Open /\ Connected /\ next \in Event /\ lines' = Append(lines, x)
      /\ pending' = pending /\ pc' = pc /\ log' = log
  BY DEF SendLine, Connected, Open
<1>2. /\ StreamTyped /\ Sending(w) /\ next \in Nat /\ sent \in Nat
      /\ \A n \in DOMAIN log : log[n] < next
      /\ DataLines[next] \in Nat \ {0} /\ sent + 1 \in Nat \ {0}
  BY <1>1, Past, Constants DEF IInv
<1>3. x \in Line /\ IsData(x) /\ x.kind \notin {"end", "reset"}
  <2>1. x \in DataLine
    BY <1>1, <1>2, Lines
  <2>. QED
    BY <2>1, Lines
<1>4. Extends(v, w, x) /\ Connected' /\ Open'
  <2>1. Extends(v, w, x) /\ ~Ended'
    BY <1>1, <1>2, <1>3, Sends
  <2>. QED
    BY <1>1, <2>1 DEF Connected, Open
<1>5. \A i \in DOMAIN w : IsData(w[i])
        => \/ w[i].event < next
           \/ w[i].event = next /\ w[i].part <= sent
  BY <1>1, Past
<1>. HIDE DEF w, v
<1>6. /\ l \in DOMAIN v /\ v[l] = x
      /\ \A i \in DOMAIN w : i \in DOMAIN v /\ v[i] = w[i]
      /\ \A i \in DOMAIN v : i \in DOMAIN w \/ i = l
  BY <1>4 DEF Extends
<1>7. ASSUME NEW e \in Event, e # next PROVE Carries(v, e) <=> Carries(w, e)
  <2>1. \A n \in 1 .. DataLines[e] : Data(e, n) # x
    <3>1. \A n \in 1 .. DataLines[e] : n \in Nat \ {0}
      BY Constants
    <3>. QED
      BY <1>1, <1>2, <1>7, <3>1, Lines
  <2>. QED
    BY <1>6, <2>1 DEF Carries
<1>8. ~Carries(w, next)
  <2>. SUFFICES ASSUME Carries(w, next) PROVE FALSE
    OBVIOUS
  <2>1. PICK k \in DOMAIN w : w[k] = Data(next, DataLines[next])
    BY <1>2 DEF Carries
  <2>2. IsData(w[k]) /\ w[k].event = next /\ w[k].part = DataLines[next]
    BY <1>1, <1>2, <2>1, Lines
  <2>3. ~(next < next) /\ ~(DataLines[next] <= sent)
    BY <1>2
  <2>. QED
    BY <1>5, <2>2, <2>3
<1>9. \A f \in Flight : f \in Nat /\ f < next
  <2>. SUFFICES ASSUME NEW f \in Flight PROVE f \in Nat /\ f < next
    OBVIOUS
  <2>1. f \in Event /\ Carries(w, f) /\ f # next
    BY <1>8, Flights DEF w
  <2>2. PICK k \in DOMAIN w : IsData(w[k]) /\ w[k].event = f
    BY <2>1, Carried
  <2>. QED
    BY <1>5, <2>1, <2>2, Constants
<1>10. \A e \in Event : e # next => (e \in Flight' <=> e \in Flight)
  BY <1>1, <1>4, <1>7, Flights DEF v, w
<1>11. next \notin Flight
  BY <1>1, <1>8, Flights DEF w
<1>12. CASE next \in Flight'
  <2>1. Flight' = Flight \cup {next}
    BY <1>1, <1>10, <1>12, Flights
  <2>2. Connected' = Connected
    BY <1>1, <1>4 DEF Connected
  <2>3. Channel!Publishes
    BY <1>1, <1>2, <1>9, <1>12, <2>1, <2>2 DEF Channel!Publishes, Flight
  <2>. QED
    BY <2>3
<1>13. CASE next \notin Flight'
  <2>1. Flight' = Flight
    BY <1>10, <1>11, <1>13, Flights
  <2>. QED
    BY <1>1, <1>4, <2>1, Quiet
<1>. QED
  BY <1>12, <1>13

(* A blank line or a comment is sent: no event is whole for it. *)
LEMMA PublishesNothing ==
    ASSUME IInv, Open, Open', NEW x \in Line, ~IsData(x),
           Extends(Word', Word, x)
    PROVE  Flight' = Flight
<1>. DEFINE w == Word
            v == Word'
<1>1. \A e \in Event, n \in Nat \ {0} : Data(e, n) # x
  BY Lines
<1>2. \A e \in Event : \A n \in 1 .. DataLines[e] : Data(e, n) # x
  <2>1. \A e \in Event : \A n \in 1 .. DataLines[e] : n \in Nat \ {0}
    BY Constants
  <2>. QED
    BY <1>1, <2>1
<1>. HIDE DEF w, v
<1>3. \A i \in DOMAIN w : i \in DOMAIN v /\ v[i] = w[i]
  BY DEF Extends, w, v
<1>4. \A i \in DOMAIN v : i \in DOMAIN w \/ v[i] = x
  BY DEF Extends, w, v
<1>5. \A e \in Event : Carries(v, e) <=> Carries(w, e)
  BY <1>2, <1>3, <1>4 DEF Carries
<1>. QED
  BY <1>5, Flights DEF w, v

LEMMA SendsNoData ==
    ASSUME IInv, \/ SendLine /\ ~(sent < DataLines[next])
                 \/ SendComment
    PROVE  UNCHANGED <<Connected, Flight, log>>
<1>1. PICK x \in {Other("blank"), Other("comment")} : lines' = Append(lines, x)
  BY DEF SendLine, SendComment
<1>2. /\ Open /\ Connected /\ pending' = pending /\ pc' = pc /\ log' = log /\ StreamTyped
  BY DEF SendLine, SendComment, Connected, Open, IInv
<1>3. x \in Line /\ ~IsData(x) /\ x.kind \notin {"end", "reset"}
  BY <1>1, Lines DEF IsData
<1>4. Extends(Word', Word, x) /\ ~Ended'
  BY <1>1, <1>2, <1>3, Sends
<1>5. Open' /\ Connected'
  BY <1>2, <1>4 DEF Open, Connected
<1>6. Flight' = Flight
  BY <1>2, <1>3, <1>4, <1>5, PublishesNothing
<1>. QED
  BY <1>2, <1>5, <1>6, Quiet

LEMMA BreaksInOrder ==
    ASSUME ~Connected', log' = log, Flight' \subseteq Flight,
           \A kept \in Flight', lost \in Flight \ Flight' : kept < lost
    PROVE  Channel!Breaks
<1>1. Connected' = FALSE
  BY DEF Connected
<1>. QED
  BY <1>1 DEF Channel!Breaks, Flight

LEMMA EndsChannel ==
    ASSUME IInv, EndStream, lines' = Append(lines, Other("end"))
    PROVE  Channel!Breaks
<1>1. /\ Open /\ Connected /\ pending' = pending /\ pc' = pc /\ log' = log /\ StreamTyped
  BY DEF EndStream, Connected, Open, IInv
<1>2. /\ Other("end") \in Line /\ ~IsData(Other("end")) /\ Other("end").kind = "end"
  BY Lines DEF IsData
<1>3. Extends(Word', Word, Other("end")) /\ Ended'
  BY <1>1, <1>2, Sends
<1>4. Open' /\ ~Connected'
  BY <1>1, <1>3 DEF Open, Connected
<1>5. Flight' = Flight
  BY <1>1, <1>2, <1>3, <1>4, PublishesNothing
<1>. QED
  BY <1>1, <1>4, <1>5, BreaksInOrder

(* What is pending remains of the word: an event that is whole in it comes *)
(* before every one that is not.                                           *)
LEMMA BreaksChannel ==
    ASSUME IInv, Connected, lines' = <<Other("reset")>>, UNCHANGED <<pending, pc, log>>
    PROVE  Channel!Breaks
<1>. DEFINE w == Word
            v == Word'
            p == Len(pending)
<1>1. /\ StreamTyped /\ PendingOK /\ WellFormed(w) /\ Open
  BY Past DEF Connected, Open
<1>2. /\ Ended' /\ DOMAIN v = 1 .. p + 1
      /\ \A i \in 1 .. p : v[i] = w[i]
      /\ v[p + 1] = Other("reset")
  BY <1>1, CutsOff
<1>3. ~Connected' /\ Open'
  BY <1>1, <1>2 DEF Connected, Open
<1>4. /\ p \in Nat /\ \A i \in 1 .. p : i \in DOMAIN w /\ i \in DOMAIN v
      /\ DOMAIN w \subseteq Nat \ {0}
  BY <1>1, <1>2, Pos
<1>. HIDE DEF w, v, p
<1>5. \A i \in DOMAIN v : i \in 1 .. p \/ i = p + 1
  BY <1>2, <1>4
<1>6. \A i \in DOMAIN v : IsData(v[i]) => i \in 1 .. p /\ i \in DOMAIN w /\ v[i] = w[i]
  BY <1>2, <1>4, <1>5, Lines DEF IsData
<1>7. \A e \in Event : \A n \in 1 .. DataLines[e] : IsData(Data(e, n)) /\ Data(e, n).event = e
  <2>1. \A e \in Event : \A n \in 1 .. DataLines[e] : n \in Nat \ {0}
    BY Constants
  <2>. QED
    BY <2>1, Lines
<1>8. \A e \in Event : Carries(v, e) => Carries(w, e)
  BY <1>6, <1>7 DEF Carries
<1>9. Flight' \subseteq Flight
  BY <1>1, <1>8, Flights DEF w, v
<1>10. ASSUME NEW kept \in Flight', NEW lost \in Flight \ Flight'
       PROVE  kept < lost
  <2>1. /\ kept \in Event /\ lost \in Event /\ Carries(v, kept) /\ Carries(w, lost)
        /\ ~Carries(v, lost) /\ kept # lost /\ kept \in Nat /\ lost \in Nat
    BY <1>3, <1>10, Flights, Constants DEF w, v
  <2>2. PICK i \in DOMAIN v : IsData(v[i]) /\ v[i].event = kept
    BY <2>1, Carried
  <2>3. i \in 1 .. p /\ i \in DOMAIN w /\ IsData(w[i]) /\ w[i].event = kept
    BY <1>6, <2>2
  <2>4. PICK n \in 1 .. DataLines[lost] : ~\E k \in DOMAIN v : v[k] = Data(lost, n)
    BY <2>1 DEF Carries
  <2>5. PICK k \in DOMAIN w : w[k] = Data(lost, n)
    BY <2>1 DEF Carries
  <2>6. IsData(w[k]) /\ w[k].event = lost
    BY <1>7, <2>1, <2>5
  <2>7. k \notin 1 .. p
    BY <1>2, <1>4, <2>4, <2>5
  <2>8. i < k
    BY <1>4, <2>3, <2>7
  <2>. QED
    BY <1>1, <2>1, <2>3, <2>6, <2>8 DEF WellFormed, Ordered
<1>. QED
  BY <1>3, <1>9, <1>10, BreaksInOrder

LEMMA ConnectsChannel ==
    ASSUME IInv, Connect
    PROVE  Channel!Connects
<1>1. ~Open /\ ~Connected /\ pc' = "read" /\ pending' = <<>> /\ lines' = lines /\ log' = log
  BY DEF Connect, Open, Connected
<1>2. lines' = <<>>
  BY <1>1 DEF IInv
<1>3. Connected'
  BY <1>1, <1>2 DEF Connected, Ended
<1>4. DOMAIN Word' = {}
  BY <1>1, <1>2 DEF Word
<1>5. \A e \in Event : ~Carries(Word', e)
  BY <1>4, Carried
<1>6. Flight = {} /\ Flight' = {}
  BY <1>1, <1>5, Flights
<1>7. Connected' = TRUE
  BY <1>3 DEF Connected
<1>. QED
  BY <1>1, <1>6, <1>7 DEF Channel!Connects, Flight

LEMMA FailsChannel ==
    ASSUME IInv, Fail
    PROVE  Channel!Breaks
<1>1. ~Open' /\ ~Connected' /\ log' = log
  BY DEF Fail, Open, Connected
<1>2. Flight' = {}
  BY <1>1, Flights
<1>. QED
  BY <1>1, <1>2, BreaksInOrder

LEMMA ReadsChannelData ==
    ASSUME IInv, Read, ReadData
    PROVE  UNCHANGED <<Connected, Flight, log>>
<1>1. /\ StreamTyped /\ lines # <<>> /\ IsData(Head(lines)) /\ pc' = pc /\ log' = log
      /\ pending' = Append(pending, Head(lines)) /\ lines' = Tail(lines)
  BY DEF Read, ReadData, Ignore, IsData, IInv
<1>2. Word' = Word
  BY <1>1, MovesOver
<1>3. Ended' <=> Ended
  <2>1. Head(lines).kind \notin {"end", "reset"}
    BY <1>1 DEF IsData
  <2>. QED
    BY <1>1, <2>1, ReadsHead
<1>4. (Open' <=> Open) /\ (Connected' <=> Connected)
  BY <1>1, <1>3 DEF Open, Connected
<1>. QED
  BY <1>1, <1>2, <1>4, QuietSteps

LEMMA ReadsChannelComment ==
    ASSUME IInv, Read, ReadComment
    PROVE  UNCHANGED <<Connected, Flight, log>>
<1>. DEFINE w == Word
            v == Word'
            c == Len(pending) + 1
<1>1. /\ StreamTyped /\ pc = "read" /\ lines # <<>> /\ Head(lines).kind = "comment"
      /\ pending' = pending /\ lines' = Tail(lines) /\ pc' = pc /\ log' = log /\ Open /\ Open'
  BY DEF Read, ReadComment, Ignore, Open, IInv
<1>2. w[c].kind = "comment" /\ (Connected' <=> Connected)
  <2>1. Head(lines).kind \notin {"end", "reset"}
    BY <1>1
  <2>2. w[c] = Head(lines) /\ (Ended' <=> Ended)
    BY <1>1, <2>1, ReadsHead
  <2>. QED
    BY <1>1, <2>2 DEF Connected
<1>3. PICK h : Thins(v, w, h) /\ \A k \in DOMAIN w : k = c \/ Left(v, h, k)
  BY <1>1, Skips
<1>. HIDE DEF v, w, c
<1>4. \A e \in Event : \A n \in 1 .. DataLines[e] : Data(e, n) # w[c]
  BY <1>2 DEF Data
<1>5. \A i \in DOMAIN v : h[i] \in DOMAIN w /\ v[i] = w[h[i]]
  BY <1>3 DEF Thins
<1>6. \A e \in Event : Carries(v, e) <=> Carries(w, e)
  BY <1>3, <1>4, <1>5 DEF Carries, Left
<1>7. Flight' = Flight
  BY <1>1, <1>6, Flights DEF v, w
<1>. QED
  BY <1>1, <1>2, <1>7, Quiet

(* When a blank line comes, what is pending is the whole of its event. *)
LEMMA PendingIsWhole ==
    ASSUME IInv, Open, IsBlank(Word[Len(pending) + 1]), Len(pending) + 1 \in DOMAIN Word,
           1 <= Len(pending)
    PROVE  pending = Text(pending[1].event)
<1>. DEFINE w == Word
            p == Len(pending)
            e == pending[1].event
<1>1. /\ StreamTyped /\ PendingOK /\ WellFormed(w)
  BY Past
<1>2. /\ p \in Nat /\ 1 \in 1 .. p /\ p \in 1 .. p /\ p < p + 1 /\ DOMAIN pending = 1 .. p
      /\ \A i \in 1 .. p : w[i] = pending[i] /\ pending[i] \in DataLine /\ IsData(w[i])
                          /\ i \in DOMAIN w
      /\ \A i \in DOMAIN w : i < p + 1 => i \in 1 .. p
  <2>1. /\ p \in Nat /\ DOMAIN w = 1 .. p + Len(lines) /\ Len(lines) \in Nat
        /\ DOMAIN pending = 1 .. p
        /\ \A i \in 1 .. p : w[i] = pending[i] /\ pending[i] \in DataLine
    BY <1>1, Pos
  <2>2. 1 \in 1 .. p /\ p \in 1 .. p /\ p < p + 1
    BY <2>1
  <2>3. \A i \in 1 .. p : i \in DOMAIN w
    BY <2>1
  <2>4. \A i \in DOMAIN w : i < p + 1 => i \in 1 .. p
    BY <2>1
  <2>. QED
    BY <2>1, <2>2, <2>3, <2>4, Lines
<1>3. \A i \in 1 .. p : pending[i].part = i /\ pending[i].event = e
  BY <1>1, <1>2 DEF PendingOK
<1>4. e \in Event
  BY <1>2, Lines, ElementOfSeq DEF DataLine
<1>5. DataLines[e] \in Nat
  BY <1>4, Constants
<1>. HIDE DEF w, p, e
<1>6. p <= DataLines[e]
  <2>1. w[p].part <= DataLines[w[p].event]
    BY <1>1, <1>2 DEF WellFormed, FromTheFirst
  <2>. QED
    BY <1>2, <1>3, <2>1
<1>7. \A n \in 1 .. DataLines[e] : n \in 1 .. p /\ pending[n] = Data(e, n)
  <2>. SUFFICES ASSUME NEW n \in 1 .. DataLines[e]
                PROVE  n \in 1 .. p /\ pending[n] = Data(e, n)
    OBVIOUS
  <2>1. \E k \in DOMAIN w : k < p + 1 /\ w[k] = Data(w[p].event, n)
    BY <1>1, <1>2, <1>3 DEF WellFormed, Whole, w, p
  <2>2. PICK k \in 1 .. p : pending[k] = Data(e, n)
    BY <1>2, <1>3, <2>1
  <2>3. pending[k].part = n
    BY <2>2 DEF Data
  <2>. QED
    BY <1>3, <2>2, <2>3
<1>8. p = DataLines[e]
  <2>1. CASE DataLines[e] = 0
    BY <1>2, <1>6, <2>1
  <2>2. CASE DataLines[e] # 0
    <3>1. DataLines[e] \in 1 .. DataLines[e]
      BY <1>5, <2>2
    <3>2. DataLines[e] \in 1 .. p
      BY <1>7, <3>1
    <3>. QED
      BY <1>2, <1>5, <1>6, <3>2
  <2>. QED
    BY <2>1, <2>2
<1>9. pending \in [1 .. p -> DataLine]
  BY <1>1, LenProperties DEF StreamTyped, p
<1>. QED
  BY <1>7, <1>8, <1>9 DEF Text, e

(* The event that is pending is in flight, and before the others. *)
LEMMA EarliestFirst ==
    ASSUME IInv, Open, NEW e \in Payload
    PROVE  e \in Flight /\ \A f \in Flight : e <= f
<1>. DEFINE w == Word
<1>1. /\ e \in Event /\ Form[e] = "object" /\ Len(pending) = DataLines[e]
      /\ \A n \in 1 .. DataLines[e] : pending[n] = Data(e, n)
      /\ 1 \in DOMAIN w /\ IsData(w[1]) /\ w[1].event = e
  BY Complete
<1>2. StreamTyped /\ WellFormed(w)
  BY Past
<1>3. /\ DOMAIN w \subseteq Nat \ {0}
      /\ \A n \in 1 .. Len(pending) : n \in DOMAIN w /\ w[n] = pending[n]
  <2>1. /\ DOMAIN w = 1 .. Len(pending) + Len(lines) /\ Len(pending) \in Nat /\ Len(lines) \in Nat
        /\ \A n \in 1 .. Len(pending) : w[n] = pending[n]
    BY <1>2, Pos
  <2>. QED
    BY <2>1
<1>. HIDE DEF w
<1>4. Carries(w, e)
  BY <1>1, <1>3 DEF Carries
<1>5. ASSUME NEW f \in Flight PROVE e <= f
  <2>1. f \in Event /\ Carries(w, f) /\ e \in Nat /\ f \in Nat
    BY <1>1, Flights, Constants DEF w
  <2>2. PICK k \in DOMAIN w : IsData(w[k]) /\ w[k].event = f
    BY <2>1, Carried
  <2>3. k = 1 \/ 1 < k
    BY <1>3
  <2>4. e < f \/ e = f
    BY <1>1, <1>2, <2>2, <2>3 DEF WellFormed, Ordered
  <2>. QED
    BY <2>1, <2>4
<1>. QED
  BY <1>1, <1>4, <1>5, Flights DEF w

LEMMA DeliversEarliest ==
    ASSUME IInv, Open, NEW e \in Payload, log' = Append(log, e),
           Connected' <=> Connected, Flight' = Flight \ {e}
    PROVE  Channel!Delivers
<1>1. e \in Flight /\ \A f \in Flight : e <= f
  BY EarliestFirst
<1>2. Connected' = Connected
  BY DEF Connected
<1>. QED
  BY <1>1, <1>2 DEF Channel!Delivers, Flight

LEMMA ReadsChannelBlank ==
    ASSUME IInv, Read, ReadBlank
    PROVE  \/ UNCHANGED <<Connected, Flight, log>>
           \/ Channel!Delivers
<1>. DEFINE w == Word
            v == Word'
            p == Len(pending)
            b == Len(pending) + 1
<1>1. /\ pc = "read" /\ lines # <<>> /\ Head(lines).kind = "blank"
      /\ pending' = <<>> /\ lines' = Tail(lines) /\ Open /\ StreamTyped /\ PendingOK
  BY DEF Read, ReadBlank, Open, IInv
<1>2. /\ IsBlank(w[b]) /\ b \in DOMAIN w /\ (Ended' <=> Ended)
  <2>1. Head(lines).kind \notin {"end", "reset"}
    BY <1>1
  <2>. QED
    BY <1>1, <2>1, ReadsHead DEF IsBlank
<1>3. PICK h : LeavesAfter(v, w, h, b)
  BY <1>1, Clears
<1>4. /\ p \in Nat /\ b = p + 1 /\ DOMAIN w \subseteq Nat \ {0}
      /\ \A i \in 1 .. p : w[i] = pending[i] /\ i \in DOMAIN w /\ IsData(w[i])
      /\ \A i \in 1 .. p : pending[i].event = pending[1].event
  <2>1. /\ p \in Nat /\ DOMAIN w = 1 .. p + Len(lines) /\ Len(lines) \in Nat
        /\ DOMAIN pending = 1 .. p
        /\ \A i \in 1 .. p : w[i] = pending[i] /\ pending[i] \in DataLine
    BY <1>1, Pos
  <2>2. \A i \in 1 .. p : i \in DOMAIN w
    BY <2>1
  <2>3. \A i \in 1 .. p : pending[i].event = pending[1].event
    BY <1>1, <2>1 DEF PendingOK
  <2>. QED
    BY <2>1, <2>2, <2>3, Lines
<1>5. \A k \in DOMAIN w : k < b /\ IsData(w[k])
        => \A i \in DOMAIN w : b < i /\ IsData(w[i]) => w[k].event # w[i].event
  BY <1>1, <1>2, BlankEnds
<1>6. 1 <= p => pending = Text(pending[1].event)
  BY <1>1, <1>2, PendingIsWhole
<1>7. \/ log' = log /\ pc' = pc /\ Payload = {}
      \/ \E e \in Payload : log' = Append(log, e) /\ pc' = "handle"
  BY DEF ReadBlank, Ignore, Yield
<1>8. Open' /\ (Connected' <=> Connected)
  BY <1>1, <1>2, <1>7 DEF Open, Connected
<1>9. \A e \in Payload : 1 <= p /\ pending[1].event = e
  BY <1>1, <1>4, Complete
<1>. HIDE DEF v, w, b, p
<1>10. /\ \A k \in DOMAIN w : k > b => Left(v, h, k)
       /\ \A i \in DOMAIN v : h[i] \in DOMAIN w /\ v[i] = w[h[i]] /\ h[i] > b
  BY <1>3 DEF LeavesAfter, Thins
<1>11. \A e \in Event : \A n \in 1 .. DataLines[e] :
          IsData(Data(e, n)) /\ ~IsBlank(Data(e, n)) /\ Data(e, n).event = e
  BY DEF Data, IsData, IsBlank
<1>12. \A f \in Event : Carries(v, f) => Carries(w, f)
  BY <1>10 DEF Carries
<1>13. ASSUME NEW f \in Event, Carries(w, f), 1 <= p => f # pending[1].event
       PROVE  Carries(v, f)
  <2>. SUFFICES ASSUME NEW n \in 1 .. DataLines[f]
                PROVE  \E i \in DOMAIN v : v[i] = Data(f, n)
    BY DEF Carries
  <2>1. PICK k \in DOMAIN w : w[k] = Data(f, n)
    BY <1>13 DEF Carries
  <2>2. IsData(w[k]) /\ ~IsBlank(w[k]) /\ w[k].event = f
    BY <1>11, <2>1
  <2>3. k \notin 1 .. p
    <3>1. k \in 1 .. p => 1 <= p
      BY <1>4
    <3>. QED
      BY <1>4, <1>13, <2>2, <3>1
  <2>4. k > b
    <3>1. k # b
      BY <1>2, <2>2
    <3>. QED
      BY <1>4, <2>3, <3>1
  <2>. QED
    BY <1>10, <2>1, <2>4 DEF Left
<1>14. ASSUME NEW f \in Event, Carries(v, f), 1 <= p
       PROVE  f # pending[1].event
  <2>1. PICK i \in DOMAIN v : IsData(v[i]) /\ v[i].event = f
    BY <1>14, Carried
  <2>2. 1 \in 1 .. p /\ 1 < b
    BY <1>4, <1>14
  <2>3. h[i] \in DOMAIN w /\ b < h[i] /\ IsData(w[h[i]]) /\ w[h[i]].event = f
    BY <1>4, <1>10, <2>1
  <2>. QED
    BY <1>4, <1>5, <2>2, <2>3
<1>15. CASE log' = log /\ Payload = {}
  <2>1. \A f \in Flight : Form[f] = "object" /\ f \in Event /\ Carries(w, f)
    BY Flights DEF w
  <2>2. \A f \in Flight : 1 <= p => f # pending[1].event
    BY <1>6, <1>15, <2>1 DEF Payload
  <2>3. \A f \in Event : f \in Flight' <=> f \in Flight
    BY <1>1, <1>8, <1>12, <1>13, <2>2, Flights DEF w, v
  <2>4. Flight' = Flight
    BY <2>3, Flights
  <2>. QED
    BY <1>8, <1>15, <2>4, Quiet
<1>16. ASSUME NEW e \in Payload, log' = Append(log, e)
       PROVE  Channel!Delivers
  <2>1. 1 <= p /\ pending[1].event = e
    BY <1>9
  <2>2. \A f \in Event : f \in Flight' <=> f \in Flight /\ f # e
    BY <1>1, <1>8, <1>12, <1>13, <1>14, <2>1, Flights DEF w, v
  <2>3. Flight' = Flight \ {e}
    BY <2>2, Flights
  <2>. QED
    BY <1>1, <1>8, <1>16, <2>3, DeliversEarliest
<1>. QED
  BY <1>7, <1>15, <1>16

LEMMA ReadsChannelEnd ==
    ASSUME IInv, Read, ReadEnd
    PROVE  Channel!Delivers
<1>. DEFINE w == Word
            p == Len(pending)
            n == Len(lines)
<1>1. /\ pc = "read" /\ lines # <<>> /\ Head(lines).kind = "end"
      /\ pending' = <<>> /\ lines' = lines /\ Open
  BY DEF Read, ReadEnd, Open
<1>2. StreamTyped /\ WellFormed(w) /\ PendingOK
  BY <1>1, Past
<1>3. PICK e \in Payload : log' = Append(log, e) /\ pc' = "handle"
  BY DEF ReadEnd, Yield
<1>4. /\ p \in Nat /\ n \in Nat /\ n >= 1 /\ p + 1 \in DOMAIN w /\ w[p + 1] = Head(lines)
      /\ Len(w) = p + n /\ DOMAIN w = 1 .. p + n /\ DOMAIN lines = 1 .. n
      /\ \A i \in 1 .. p : w[i] = pending[i] /\ i \in DOMAIN pending
  BY <1>1, <1>2, Pos, ReadsHead
<1>5. n = 1
  <2>1. p + 1 = p + n
    BY <1>1, <1>2, <1>4 DEF WellFormed, EndIsLast
  <2>. QED
    BY <1>4, <2>1
<1>6. lines[1].kind = "end"
  BY <1>1, <1>2, HeadTailProperties, EmptySeq DEF StreamTyped
<1>7. Open' /\ (Connected' <=> Connected)
  BY <1>1, <1>3 DEF Connected, Ended, Open
<1>8. Word' = lines
  BY <1>1, <1>2, ConcatEmptySeq DEF Word, StreamTyped
<1>9. \A f \in Event : ~Carries(Word', f)
  <2>1. \A i \in DOMAIN lines : ~IsData(lines[i])
    BY <1>4, <1>5, <1>6 DEF IsData
  <2>. QED
    BY <1>8, <2>1, Carried
<1>10. Flight' = {}
  BY <1>9, Flights
<1>11. \A f \in Flight : f = e
  <2>. SUFFICES ASSUME NEW f \in Flight PROVE f = e
    OBVIOUS
  <2>1. f \in Event /\ Carries(w, f)
    BY Flights
  <2>2. PICK k \in DOMAIN w : IsData(w[k]) /\ w[k].event = f
    BY <2>1, Carried
  <2>3. k \in 1 .. p
    <3>1. k # p + 1
      BY <1>1, <1>4, <2>2 DEF IsData
    <3>. QED
      BY <1>4, <1>5, <3>1
  <2>4. pending[1].event = e
    <3>1. w[1].event = e /\ 1 <= p
      BY <1>1, <1>3, Complete
    <3>2. 1 \in 1 .. p
      BY <1>4, <3>1
    <3>. QED
      BY <1>4, <3>1, <3>2
  <2>5. pending[k].event = pending[1].event
    BY <1>2, <1>4, <2>3 DEF PendingOK
  <2>. QED
    BY <1>4, <2>2, <2>3, <2>4, <2>5
<1>12. Flight' = Flight \ {e}
  BY <1>10, <1>11
<1>. QED
  BY <1>1, <1>3, <1>7, <1>12, DeliversEarliest

-----------------------------------------------------------------------------
(* The refinement.                                                         *)

LEMMA ChannelStarts == Init => Channel!ChannelInit
<1>. SUFFICES ASSUME Init PROVE Channel!ChannelInit
  OBVIOUS
<1>1. ~Open /\ ~Connected /\ log = <<>>
  BY DEF Init, Open, Connected
<1>2. Flight = {}
  BY <1>1, Flights
<1>3. Connected = FALSE
  BY <1>1 DEF Connected
<1>. QED
  BY <1>1, <1>2, <1>3 DEF Channel!ChannelInit, Flight

LEMMA ChannelSteps ==
    IInv /\ [Next]_vars
    => [Channel!ChannelNext]_<<Connected, {e \in Event : Arriving(e)}, log>>
<1>. DEFINE Same == UNCHANGED <<Connected, Flight, log>>
<1>. SUFFICES ASSUME IInv, [Next]_vars PROVE Channel!ChannelNext \/ Same
  BY DEF Flight
<1>1. CASE SendLine
  BY <1>1, PublishesData, SendsNoData DEF Channel!ChannelNext
<1>2. CASE SendComment
  BY <1>2, SendsNoData
<1>3. CASE EndStream
  <2>1. Connected /\ UNCHANGED <<pending, pc, log>>
    BY <1>3 DEF EndStream
  <2>2. lines' = Append(lines, Other("end")) \/ lines' = <<Other("reset")>>
    BY <1>3 DEF EndStream
  <2>3. Channel!Breaks
    BY <1>3, <2>1, <2>2, EndsChannel, BreaksChannel
  <2>. QED
    BY <2>3 DEF Channel!ChannelNext
<1>4. CASE PublishUnheard \/ ComesUp \/ Handled \/ Wake \/ ConnectFails \/ UNCHANGED vars
  <2>1. UNCHANGED <<lines, pending, log>>
    BY <1>4 DEF PublishUnheard, ComesUp, Handled, Wake, ConnectFails, vars
  <2>2. \/ pc' = pc
        \/ pc = "handle" /\ pc' = "read"
        \/ pc \in {"connect", "sleep"} /\ pc' \in {"connect", "sleep"}
    BY <1>4 DEF PublishUnheard, ComesUp, Handled, Wake, ConnectFails, vars
  <2>3. Word' = Word /\ (Open' <=> Open) /\ (Connected' <=> Connected)
    BY <2>1, <2>2 DEF Word, Open, Connected, Ended
  <2>. QED
    BY <2>1, <2>3, QuietSteps
<1>5. CASE GoesDown
  <2>1. UNCHANGED <<pending, pc, log>>
    BY <1>5 DEF GoesDown
  <2>2. CASE Connected
    <3>1. lines' = <<Other("reset")>>
      BY <1>5, <2>2 DEF GoesDown
    <3>2. Channel!Breaks
      BY <2>1, <2>2, <3>1, BreaksChannel
    <3>. QED
      BY <3>2 DEF Channel!ChannelNext
  <2>3. CASE ~Connected
    <3>1. lines' = lines
      BY <1>5, <2>3 DEF GoesDown
    <3>2. Word' = Word /\ (Open' <=> Open) /\ (Connected' <=> Connected)
      BY <2>1, <3>1 DEF Word, Open, Connected, Ended
    <3>. QED
      BY <2>1, <3>2, QuietSteps
  <2>. QED
    BY <2>2, <2>3
<1>6. CASE Connect
  BY <1>6, ConnectsChannel DEF Channel!ChannelNext
<1>7. CASE Read
  <2>1. CASE ReadData
    BY <1>7, <2>1, ReadsChannelData
  <2>2. CASE ReadComment
    BY <1>7, <2>2, ReadsChannelComment
  <2>3. CASE ReadBlank
    BY <1>7, <2>3, ReadsChannelBlank DEF Channel!ChannelNext
  <2>4. CASE ReadEnd
    BY <1>7, <2>4, ReadsChannelEnd DEF Channel!ChannelNext
  <2>. QED
    BY <1>7, <2>1, <2>2, <2>3, <2>4 DEF Read
<1>8. CASE Fail
  BY <1>8, FailsChannel DEF Channel!ChannelNext
<1>. QED
  BY <1>1, <1>2, <1>3, <1>4, <1>5, <1>6, <1>7, <1>8 DEF Next, DaemonStep, ClientStep

(* However the stream is cut into lines and connections, the main task     *)
(* gets whole events, in the order in which signal-cli published them, and *)
(* each at most once; while a connection lives it loses none, and one that *)
(* breaks takes the latest with it (events, _iter_sse_json).               *)
THEOREM StreamRefinesChannel == Spec => StreamImplementsChannel
<1>1. Init => Channel!ChannelInit
  BY ChannelStarts
<1>2. IInv /\ [Next]_vars
      => [Channel!ChannelNext]_<<Connected, {e \in Event : Arriving(e)}, log>>
  BY ChannelSteps
<1>3. Spec => []IInv
  BY Inductive
<1>. QED
  BY <1>1, <1>2, <1>3, PTL DEF Spec, StreamImplementsChannel, Channel!ChannelSpec

-----------------------------------------------------------------------------
(* The wait before the next attempt.                                       *)

LEMMA InitWaiting == Init => Waiting
BY Constants DEF Init, Waiting

LEMMA NextWaiting == Waiting /\ [Next]_vars => Waiting'
<1>. SUFFICES ASSUME Waiting, [Next]_vars PROVE Waiting'
  OBVIOUS
<1>1. /\ Initial \in Nat /\ Maximal \in Nat /\ Initial <= Maximal /\ MaxFailures \in Nat
      /\ backoff \in Initial .. Maximal /\ failures \in 0 .. MaxFailures
  BY Constants DEF Waiting
<1>2. CASE Wake
  <2>1. backoff' = backoff \/ backoff' = (IF backoff * 2 < Maximal THEN backoff * 2 ELSE Maximal)
    BY <1>2 DEF Wake
  <2>2. \/ failures' = failures
        \/ failures # MaxFailures /\ failures' = failures + 1
    BY <1>2 DEF Wake
  <2>3. backoff' \in Initial .. Maximal
    BY <1>1, <2>1
  <2>4. failures' \in 0 .. MaxFailures
    BY <1>1, <2>2
  <2>. QED
    BY <2>3, <2>4 DEF Waiting
<1>3. CASE Read
  <2>1. \/ UNCHANGED <<backoff, failures>>
        \/ backoff' = Initial /\ failures' = 0
    BY <1>3 DEF Read, ReadData, ReadComment, ReadBlank, ReadEnd, Ignore, Yield
  <2>. QED
    BY <1>1, <2>1 DEF Waiting
<1>4. CASE UNCHANGED <<backoff, failures>>
  BY <1>4 DEF Waiting
<1>. QED
  BY <1>2, <1>3, <1>4
     DEF Next, DaemonStep, ClientStep, SendLine, SendComment, EndStream, PublishUnheard,
         GoesDown, ComesUp, Connect, ConnectFails, Handled, Fail, vars

(* The wait is never below reconnect_initial_seconds, so that there is no  *)
(* busy loop, nor above reconnect_max_seconds (events).                    *)
THEOREM BackoffBounded == Spec => [](Initial <= backoff /\ backoff <= Maximal)
<1>1. Waiting => Initial <= backoff /\ backoff <= Maximal
  BY Constants DEF Waiting
<1>. QED
  BY <1>1, InitWaiting, NextWaiting, PTL DEF Spec

(* What the next theorem needs of powers of two, which have no definition  *)
(* that the provers can unfold.                                            *)
PowersOfTwo == 2^0 = 1 /\ \A n \in Nat : 2^n \in Nat /\ 2^(n + 1) = 2 * 2^n

LEMMA MinOfTwo ==
    ASSUME NEW a \in Nat, NEW b \in Nat
    PROVE  Min({a, b}) = IF a <= b THEN a ELSE b
<1>. DEFINE m == IF a <= b THEN a ELSE b
<1>1. m \in {a, b} /\ \A y \in {a, b} : m <= y
  OBVIOUS
<1>2. \A x \in {a, b} : (\A y \in {a, b} : x <= y) => x = m
  OBVIOUS
<1>. HIDE DEF m
<1>3. Min({a, b}) = m
  BY <1>1, <1>2 DEF Min
<1>. QED
  BY <1>3 DEF m

LEMMA InitBackoff ==
    ASSUME PowersOfTwo, NEW b, NEW n, b = Initial, n = 0
    PROVE  b = Min({Initial * 2^n, Maximal})
<1>1. Initial \in Nat /\ Maximal \in Nat /\ Initial <= Maximal
  BY Constants
<1>2. 2^n = 1
  BY DEF PowersOfTwo
<1>3. Initial * 2^n = Initial
  BY <1>1, <1>2
<1>. QED
  BY <1>1, <1>3, MinOfTwo

LEMMA NextBackoff ==
    ASSUME PowersOfTwo, Waiting, BackoffFollowsFailures, [Next]_vars
    PROVE  BackoffFollowsFailures'
<1>1. /\ Initial \in Nat /\ Maximal \in Nat /\ Initial <= Maximal /\ MaxFailures \in Nat
      /\ backoff \in Nat /\ failures \in Nat
  BY Constants DEF Waiting
<1>2. CASE Wake /\ ~received
  <2>. DEFINE a == Initial * 2^failures
              c == Initial * 2^(failures + 1)
  <2>1. 2^failures \in Nat /\ 2^(failures + 1) = 2 * 2^failures /\ failures + 1 \in Nat
    BY <1>1 DEF PowersOfTwo
  <2>2. a \in Nat /\ c \in Nat /\ c = 2 * a
    BY <1>1, <2>1
  <2>3. Initial * 2^MaxFailures >= Maximal
    BY StreamAssumption DEF StreamAssumption
  <2>4. failures = MaxFailures => a >= Maximal
    BY <2>3
  <2>5. /\ backoff' = (IF backoff * 2 < Maximal THEN backoff * 2 ELSE Maximal)
        /\ failures' = (IF failures = MaxFailures THEN failures ELSE failures + 1)
    BY <1>2 DEF Wake
  <2>. HIDE DEF a, c
  <2>6. backoff = IF a <= Maximal THEN a ELSE Maximal
    BY <1>1, <2>2, MinOfTwo DEF BackoffFollowsFailures, a
  <2>7. CASE failures = MaxFailures
    <3>1. backoff' = Maximal /\ backoff = Maximal
      BY <1>1, <2>2, <2>4, <2>5, <2>6, <2>7
    <3>2. failures' = failures
      BY <2>5, <2>7
    <3>. QED
      BY <3>1, <3>2 DEF BackoffFollowsFailures
  <2>8. CASE failures # MaxFailures
    <3>1. backoff' = IF c <= Maximal THEN c ELSE Maximal
      BY <1>1, <2>2, <2>5, <2>6
    <3>2. failures' = failures + 1
      BY <2>5, <2>8
    <3>3. backoff' = Min({c, Maximal})
      BY <1>1, <2>2, <3>1, MinOfTwo
    <3>. QED
      BY <3>2, <3>3 DEF BackoffFollowsFailures, c
  <2>. QED
    BY <2>7, <2>8
<1>3. CASE UNCHANGED <<backoff, failures>>
  BY <1>3 DEF BackoffFollowsFailures
<1>4. CASE backoff' = Initial /\ failures' = 0
  BY <1>4, InitBackoff DEF BackoffFollowsFailures
<1>5. CASE Read
  <2>1. \/ UNCHANGED <<backoff, failures>>
        \/ backoff' = Initial /\ failures' = 0
    BY <1>5 DEF Read, ReadData, ReadComment, ReadBlank, ReadEnd, Ignore, Yield
  <2>. QED
    BY <1>3, <1>4, <2>1
<1>6. CASE Wake /\ received
  BY <1>3, <1>6 DEF Wake
<1>. QED
  BY <1>2, <1>3, <1>5, <1>6
     DEF Next, DaemonStep, ClientStep, SendLine, SendComment, EndStream, PublishUnheard,
         GoesDown, ComesUp, Connect, ConnectFails, Handled, Fail, vars

(* The wait follows from the attempts that failed since the last event:    *)
(* the initial one doubled for each, and no more than the maximal one.     *)
THEOREM BackoffDoubles ==
    ASSUME PowersOfTwo
    PROVE  Spec => []BackoffFollowsFailures
<1>1. Init => BackoffFollowsFailures
  BY InitBackoff DEF Init, BackoffFollowsFailures
<1>2. Waiting /\ BackoffFollowsFailures /\ [Next]_vars => BackoffFollowsFailures'
  BY NextBackoff
<1>. QED
  BY <1>1, <1>2, InitWaiting, NextWaiting, PTL DEF Spec
=============================================================================
