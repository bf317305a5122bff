--------------------------- MODULE MessageProofs ---------------------------
(***************************************************************************)
(* Messages to Discord, for any number of goroutines and messages and any  *)
(* capacity of the queue: nothing disappears, and what one goroutine wrote *)
(* to one channel stays in order on its way through the queue, the lists   *)
(* of the batch and Discord.  The order is stated of lists of messages, so *)
(* the first lemmas say what the operations on lists do to it.             *)
(***************************************************************************)
EXTENDS Messages, SequenceTheorems, TLAPS

Issue   == [to : Targets, by : Senders]
Issues  == Seq(Issue)
Writers == [at : {"none", "first", "drop", "again"}, msg : Nat]

\* Of two messages of one goroutine for one channel the earlier one comes first.
Ordered(q, x, y) == q[x].to = q[y].to /\ q[x].by = q[y].by => x < y

Sorted(q, s)   == \A i, j \in 1 .. Len(s) : i < j => Ordered(q, s[i], s[j])
Above(q, s, x) == \A i \in 1 .. Len(s) : Ordered(q, s[i], x)
Follows(q, s, t) == \A j \in 1 .. Len(t) : Above(q, s, t[j])

\* A list of messages that were issued
Known(q, s) == s \in Seq(1 .. Len(q))

MessageTypes ==
  /\ issued \in Issues /\ errors \in Nat
  /\ writing \in [Senders -> Writers]
  /\ \A p \in Senders :
       /\ writing[p].at = "none" <=> writing[p].msg = 0
       /\ writing[p].msg # 0 => /\ writing[p].msg \in 1 .. Len(issued)
                                /\ issued[writing[p].msg].by = p
  /\ Known(issued, channel) /\ Known(issued, delivered) /\ lost \subseteq 1 .. Len(issued)
  /\ DOMAIN batch = Lists
  /\ \A b \in Lists : /\ Known(issued, batch[b])
                      /\ \A i \in 1 .. Len(batch[b]) : ListOf(batch[b][i]) = b

\* As long as no send failed: what is shown, each list of the batch, the queue and what
\* is being queued follow each other, and each is in order.
OrderInv ==
  errors = 0 =>
    /\ Sorted(issued, delivered) /\ Sorted(issued, channel) /\ Follows(issued, delivered, channel)
    /\ \A b \in Lists : /\ Sorted(issued, batch[b])
                        /\ Follows(issued, delivered, batch[b])
                        /\ Follows(issued, batch[b], channel)
    /\ \A p \in Senders : writing[p].msg # 0 =>
         /\ Above(issued, delivered, writing[p].msg) /\ Above(issued, channel, writing[p].msg)
         /\ \A b \in Lists : Above(issued, batch[b], writing[p].msg)

\* Every message is somewhere.
Everywhere ==
  \A x \in 1 .. Len(issued) :
    \/ \E p \in Senders : writing[p].msg = x
    \/ x \in Range(channel) \/ x \in Range(delivered) \/ x \in lost
    \/ \E b \in Lists : x \in Range(batch[b])

MessageInv == MessageTypes /\ Everywhere /\ OrderInv

LEMMA MessageNumbers ==
  /\ MaxMessages \in Nat /\ ChanSize \in Nat \ {0}
  BY MessageConstants

\* What the operations on lists do to their elements and to their order
LEMMA AppendList ==
  ASSUME NEW q, NEW s, Known(q, s), NEW x \in 1 .. Len(q)
  PROVE  /\ Known(q, Append(s, x)) /\ Range(Append(s, x)) = Range(s) \cup {x}
         /\ Sorted(q, s) /\ Above(q, s, x) => Sorted(q, Append(s, x))
         /\ \A t : Follows(q, t, s) /\ Above(q, t, x) => Follows(q, t, Append(s, x))
         /\ \A y : Above(q, s, y) /\ Ordered(q, x, y) => Above(q, Append(s, x), y)
<1> DEFINE S == 1 .. Len(q)
           r == Append(s, x)
<1> HIDE DEF S
<1>1. s \in Seq(S) /\ x \in S
  BY DEF Known, S
<1>2. r \in Seq(S) /\ Len(r) = Len(s) + 1
      /\ \A i \in 1 .. Len(r) : r[i] = IF i <= Len(s) THEN s[i] ELSE x
  BY <1>1
<1>3. Len(s) \in Nat /\ DOMAIN r = 1 .. Len(r) /\ DOMAIN s = 1 .. Len(s)
  BY <1>1, <1>2
<1> HIDE DEF r
<1>4. Known(q, r)
  BY <1>2 DEF Known, S
<1>5. Range(r) = Range(s) \cup {x}
  <2>1. \A i \in 1 .. Len(s) : i \in 1 .. Len(r) /\ r[i] = s[i]
    BY <1>2, <1>3
  <2>2. Len(s) + 1 \in 1 .. Len(r) /\ r[Len(s) + 1] = x
    BY <1>2, <1>3
  <2>3. \A i \in 1 .. Len(r) : i \in 1 .. Len(s) \/ r[i] = x
    BY <1>2, <1>3
  <2> QED
    BY <1>3, <2>1, <2>2, <2>3 DEF Range
<1>6. ASSUME Sorted(q, s), Above(q, s, x) PROVE Sorted(q, r)
  BY <1>2, <1>3, <1>6 DEF Sorted, Above
<1>7. ASSUME NEW t, Follows(q, t, s), Above(q, t, x) PROVE Follows(q, t, r)
  BY <1>2, <1>3, <1>7 DEF Follows
<1>8. ASSUME NEW y, Above(q, s, y), Ordered(q, x, y) PROVE Above(q, r, y)
  BY <1>2, <1>3, <1>8 DEF Above
<1> QED
  BY <1>4, <1>5, <1>6, <1>7, <1>8 DEF r

LEMMA TailList ==
  ASSUME NEW q, NEW s, Known(q, s), s # <<>>
  PROVE  /\ Known(q, Tail(s)) /\ Head(s) \in 1 .. Len(q) /\ Range(s) = Range(Tail(s)) \cup {Head(s)}
         /\ Len(s) \in Nat /\ Len(Tail(s)) = Len(s) - 1
         /\ Sorted(q, s) => Sorted(q, Tail(s)) /\ \A j \in 1 .. Len(Tail(s)) : Ordered(q, Head(s), Tail(s)[j])
         /\ \A t : Follows(q, t, s) => Follows(q, t, Tail(s)) /\ Above(q, t, Head(s))
         /\ \A y : Above(q, s, y) => Above(q, Tail(s), y) /\ Ordered(q, Head(s), y)
<1> DEFINE S == 1 .. Len(q)
           r == Tail(s)
           x == Head(s)
<1> HIDE DEF S
<1>1. s \in Seq(S)
  BY DEF Known, S
<1>2. r \in Seq(S) /\ x \in S /\ Len(r) = Len(s) - 1 /\ x = s[1]
      /\ \A i \in 1 .. Len(r) : r[i] = s[i + 1]
  BY <1>1
<1>3. Len(s) \in Nat \ {0} /\ DOMAIN r = 1 .. Len(r) /\ DOMAIN s = 1 .. Len(s)
  BY <1>1, <1>2
<1> HIDE DEF r, x
<1>4. Known(q, r) /\ x \in 1 .. Len(q)
  BY <1>2 DEF Known, S
<1>5. Range(s) = Range(r) \cup {x}
  <2>1. \A i \in 1 .. Len(r) : i + 1 \in 1 .. Len(s) /\ r[i] = s[i + 1]
    BY <1>2, <1>3
  <2>2. 1 \in 1 .. Len(s)
    BY <1>3
  <2>3. \A i \in 1 .. Len(s) : i = 1 \/ (i - 1 \in 1 .. Len(r) /\ r[i - 1] = s[i])
    BY <1>2, <1>3
  <2>4. ASSUME NEW y \in Range(s) PROVE y \in Range(r) \cup {x}
    <3>1. PICK i \in 1 .. Len(s) : y = s[i]
      BY <1>3 DEF Range
    <3>2. i = 1 \/ (i - 1 \in 1 .. Len(r) /\ r[i - 1] = y)
      BY <2>3, <3>1
    <3> QED
      BY <1>2, <1>3, <3>1, <3>2 DEF Range
  <2>5. ASSUME NEW y \in Range(r) PROVE y \in Range(s)
    <3>1. PICK i \in 1 .. Len(r) : y = r[i]
      BY <1>3 DEF Range
    <3> QED
      BY <1>3, <2>1, <3>1 DEF Range
  <2>6. x \in Range(s)
    BY <1>2, <1>3, <2>2 DEF Range
  <2> QED
    BY <2>4, <2>5, <2>6
<1>6. ASSUME Sorted(q, s) PROVE Sorted(q, r) /\ \A j \in 1 .. Len(r) : Ordered(q, x, r[j])
  BY <1>2, <1>3, <1>6 DEF Sorted
<1>7. ASSUME NEW t, Follows(q, t, s) PROVE Follows(q, t, r) /\ Above(q, t, x)
  BY <1>2, <1>3, <1>7 DEF Follows
<1>8. ASSUME NEW y, Above(q, s, y) PROVE Above(q, r, y) /\ Ordered(q, x, y)
  BY <1>2, <1>3, <1>8 DEF Above
<1> QED
  BY <1>2, <1>3, <1>4, <1>5, <1>6, <1>7, <1>8 DEF r, x

Joined(s, t, r) == r = s \o t

LEMMA ConcatList ==
  ASSUME NEW q, NEW s, NEW t, Known(q, s), Known(q, t), NEW r, Joined(s, t, r)
  PROVE  /\ Known(q, r) /\ Range(r) = Range(s) \cup Range(t)
         /\ Sorted(q, s) /\ Sorted(q, t) /\ Follows(q, s, t) => Sorted(q, r)
         /\ \A y : Above(q, s, y) /\ Above(q, t, y) => Above(q, r, y)
<1> DEFINE S == 1 .. Len(q)
<1> HIDE DEF S
<1>1. s \in Seq(S) /\ t \in Seq(S)
  BY DEF Known, S
<1>2. r \in Seq(S) /\ Len(r) = Len(s) + Len(t)
      /\ \A i \in 1 .. Len(r) : r[i] = IF i <= Len(s) THEN s[i] ELSE t[i - Len(s)]
  BY <1>1 DEF Joined
<1>3. Len(s) \in Nat /\ Len(t) \in Nat
  BY <1>1
<1>5. Range(r) = Range(s) \cup Range(t)
  BY <1>1, RangeConcatenation DEF Joined
<1>4. Known(q, r)
  BY <1>2 DEF Known, S
<1>6. ASSUME Sorted(q, s), Sorted(q, t), Follows(q, s, t) PROVE Sorted(q, r)
  <2> SUFFICES ASSUME NEW i \in 1 .. Len(r), NEW j \in 1 .. Len(r), i < j
               PROVE  Ordered(q, r[i], r[j])
    BY DEF Sorted
  <2>1. CASE j <= Len(s)
    BY <1>2, <1>3, <1>6, <2>1 DEF Sorted
  <2>2. CASE i <= Len(s) /\ Len(s) < j
    <3>1. /\ j - Len(s) \in 1 .. Len(t) /\ i \in 1 .. Len(s)
          /\ r[i] = s[i] /\ r[j] = t[j - Len(s)]
      BY <1>2, <1>3, <2>2
    <3> QED
      BY <1>6, <3>1 DEF Follows, Above
  <2>3. CASE Len(s) < i
    <3>1. /\ j - Len(s) \in 1 .. Len(t) /\ i - Len(s) \in 1 .. Len(t)
          /\ i - Len(s) < j - Len(s)
          /\ r[i] = t[i - Len(s)] /\ r[j] = t[j - Len(s)]
      BY <1>2, <1>3, <2>3
    <3> QED
      BY <1>6, <3>1 DEF Sorted
  <2> QED
    BY <1>3, <2>1, <2>2, <2>3
<1>7. ASSUME NEW y, Above(q, s, y), Above(q, t, y) PROVE Above(q, r, y)
  <2> SUFFICES ASSUME NEW i \in 1 .. Len(r) PROVE Ordered(q, r[i], y)
    BY DEF Above
  <2>1. CASE i <= Len(s)
    BY <1>2, <1>3, <1>7, <2>1 DEF Above
  <2>2. CASE ~(i <= Len(s))
    <3>1. i - Len(s) \in 1 .. Len(t) /\ r[i] = t[i - Len(s)]
      BY <1>2, <1>3, <2>2
    <3> QED
      BY <1>7, <3>1 DEF Above
  <2> QED
    BY <2>1, <2>2
<1> QED
  BY <1>2, <1>4, <1>5, <1>6, <1>7

\* A list falls into what is sent and the rest.
Halves(s, k, a, b) == k \in 1 .. Len(s) /\ a = SubSeq(s, 1, k) /\ b = SubSeq(s, k + 1, Len(s))

LEMMA SplitList ==
  ASSUME NEW q, NEW s, Known(q, s), NEW k, NEW a, NEW b, Halves(s, k, a, b)
  PROVE  /\ Known(q, a) /\ Known(q, b) /\ Range(s) = Range(a) \cup Range(b) /\ Len(a) = k
         /\ \A i \in 1 .. Len(a) : i \in 1 .. Len(s) /\ a[i] = s[i]
         /\ \A i \in 1 .. Len(b) : i + k \in 1 .. Len(s) /\ b[i] = s[i + k]
         /\ Sorted(q, s) => Sorted(q, a) /\ Sorted(q, b) /\ Follows(q, a, b)
         /\ \A t : Follows(q, t, s) => Follows(q, t, a) /\ Follows(q, t, b)
         /\ \A y : Above(q, s, y) => Above(q, a, y) /\ Above(q, b, y)
<1> DEFINE S == 1 .. Len(q)
<1> HIDE DEF S
<1>0. a = SubSeq(s, 1, k) /\ b = SubSeq(s, k + 1, Len(s)) /\ k \in 1 .. Len(s)
  BY DEF Halves
<1>1. s \in Seq(S) /\ Len(s) \in Nat /\ k \in Nat /\ 1 <= k /\ k <= Len(s)
  BY <1>0 DEF Known, S
<1>2. a \in Seq(S) /\ Len(a) = k /\ \A i \in 1 .. k : a[i] = s[i]
  BY <1>0, <1>1
<1>3. b \in Seq(S) /\ Len(b) = Len(s) - k /\ \A i \in 1 .. Len(s) - k : b[i] = s[i + k]
  BY <1>0, <1>1
<1>4. Known(q, a) /\ Known(q, b)
  BY <1>2, <1>3 DEF Known, S
<1>5. \A i \in 1 .. Len(a) : i \in 1 .. Len(s) /\ a[i] = s[i]
  BY <1>1, <1>2
<1>6. \A i \in 1 .. Len(b) : i + k \in 1 .. Len(s) /\ b[i] = s[i + k]
  BY <1>1, <1>3
<1>7. Range(s) = Range(a) \cup Range(b)
  <2>1. DOMAIN a = 1 .. Len(a) /\ DOMAIN b = 1 .. Len(b) /\ DOMAIN s = 1 .. Len(s)
    BY <1>1, <1>2, <1>3
  <2>2. \A i \in 1 .. Len(s) : \/ i \in 1 .. Len(a) /\ a[i] = s[i]
                               \/ i - k \in 1 .. Len(b) /\ b[i - k] = s[i]
    BY <1>1, <1>2, <1>3
  <2>3. ASSUME NEW y \in Range(s) PROVE y \in Range(a) \cup Range(b)
    <3>1. PICK i \in 1 .. Len(s) : y = s[i]
      BY <2>1 DEF Range
    <3> QED
      BY <2>1, <2>2, <3>1 DEF Range
  <2>4. ASSUME NEW y \in Range(a) PROVE y \in Range(s)
    BY <1>5, <2>1, <2>4 DEF Range
  <2>5. ASSUME NEW y \in Range(b) PROVE y \in Range(s)
    <3>1. PICK i \in 1 .. Len(b) : y = b[i]
      BY <2>1, <2>5 DEF Range
    <3> QED
      BY <1>6, <2>1, <3>1 DEF Range
  <2> QED
    BY <2>3, <2>4, <2>5
<1>8. ASSUME Sorted(q, s) PROVE Sorted(q, a) /\ Sorted(q, b) /\ Follows(q, a, b)
  <2>1. Sorted(q, a)
    BY <1>5, <1>8 DEF Sorted
  <2>2. Sorted(q, b)
    <3> SUFFICES ASSUME NEW i \in 1 .. Len(b), NEW j \in 1 .. Len(b), i < j
                 PROVE  Ordered(q, b[i], b[j])
      BY DEF Sorted
    <3>1. i + k < j + k /\ i + k \in 1 .. Len(s) /\ j + k \in 1 .. Len(s)
          /\ b[i] = s[i + k] /\ b[j] = s[j + k]
      BY <1>1, <1>3, <1>6
    <3> QED
      BY <1>8, <3>1 DEF Sorted
  <2>3. Follows(q, a, b)
    <3> SUFFICES ASSUME NEW j \in 1 .. Len(b), NEW i \in 1 .. Len(a)
                 PROVE  Ordered(q, a[i], b[j])
      BY DEF Follows, Above
    <3>1. i < j + k
      BY <1>1, <1>2, <1>3
    <3> QED
      BY <1>5, <1>6, <1>8, <3>1 DEF Sorted
  <2> QED
    BY <2>1, <2>2, <2>3
<1>9. ASSUME NEW t, Follows(q, t, s) PROVE Follows(q, t, a) /\ Follows(q, t, b)
  BY <1>5, <1>6, <1>9 DEF Follows
<1>10. ASSUME NEW y, Above(q, s, y) PROVE Above(q, a, y) /\ Above(q, b, y)
  BY <1>5, <1>6, <1>10 DEF Above
<1> QED
  BY <1>2, <1>4, <1>5, <1>6, <1>7, <1>8, <1>9, <1>10

\* A new message changes nothing about those before it, and comes after them.
LEMMA IssueKeeps ==
  ASSUME NEW q \in Issues, NEW r \in Issue, NEW p, p = Append(q, r)
  PROVE  /\ p \in Issues /\ Len(p) = Len(q) + 1 /\ Len(q) \in Nat /\ p[Len(p)] = r
         /\ \A x \in 1 .. Len(q) : p[x] = q[x]
         /\ \A s : Known(q, s) =>
              /\ Known(p, s) /\ (Sorted(q, s) => Sorted(p, s)) /\ Above(p, s, Len(p))
              /\ \A x \in 1 .. Len(q) : Above(q, s, x) => Above(p, s, x)
         /\ \A s, t : Known(q, s) /\ Known(q, t) /\ Follows(q, s, t) => Follows(p, s, t)
<1>1. q \in Seq(Issue) /\ r \in Issue
  BY DEF Issues
<1>2. p \in Seq(Issue) /\ Len(p) = Len(q) + 1 /\ Len(q) \in Nat /\ p[Len(p)] = r
      /\ \A x \in 1 .. Len(q) : p[x] = q[x]
  BY <1>1
<1>3. ASSUME NEW x \in 1 .. Len(q), NEW y \in 1 .. Len(q), Ordered(q, x, y) PROVE Ordered(p, x, y)
  BY <1>2, <1>3 DEF Ordered
<1>4. ASSUME NEW s, Known(q, s)
      PROVE  /\ Known(p, s) /\ \A i \in 1 .. Len(s) : s[i] \in 1 .. Len(q)
  BY <1>2, <1>4 DEF Known
<1>5. ASSUME NEW s, Known(q, s), Sorted(q, s) PROVE Sorted(p, s)
  BY <1>3, <1>4, <1>5 DEF Sorted
<1>6. ASSUME NEW s, Known(q, s) PROVE Above(p, s, Len(p))
  <2>1. \A i \in 1 .. Len(s) : s[i] < Len(p)
    BY <1>2, <1>4, <1>6
  <2> QED
    BY <2>1 DEF Above, Ordered
<1>7. ASSUME NEW s, Known(q, s), NEW x \in 1 .. Len(q), Above(q, s, x) PROVE Above(p, s, x)
  BY <1>3, <1>4, <1>7 DEF Above
<1>8. ASSUME NEW s, NEW t, Known(q, s), Known(q, t), Follows(q, s, t) PROVE Follows(p, s, t)
  BY <1>4, <1>7, <1>8 DEF Follows
<1> QED
  BY <1>2, <1>4, <1>5, <1>6, <1>7, <1>8 DEF Issues

LEMMA NoList ==
  ASSUME NEW q
  PROVE  /\ Known(q, <<>>) /\ Range(<<>>) = {} /\ Sorted(q, <<>>)
         /\ \A x : Above(q, <<>>, x)
         /\ \A s : Follows(q, s, <<>>) /\ Follows(q, <<>>, s)
  BY DEF Known, Range, Sorted, Above, Follows

LEMMA IssuedIs ==
  ASSUME MessageTypes, NEW x \in 1 .. Len(issued)
  PROVE  issued[x].to \in Targets /\ issued[x].by \in Senders /\ ListOf(x) \in Lists
<1>1. issued[x] \in Issue
  BY DEF MessageTypes, Issues
<1> QED
  BY <1>1, MessageConstants DEF ListOf, To, Lists, Issue

\* A goroutine that has queued its message, or given up, rests.
LEMMA RestingWriter ==
  ASSUME writing \in [Senders -> Writers], NEW p \in Senders,
         writing' = [writing EXCEPT ![p] = Resting]
  PROVE  /\ writing' \in [Senders -> Writers] /\ writing'[p].msg = 0 /\ writing'[p].at = "none"
         /\ \A o \in Senders : o # p => writing'[o] = writing[o]
<1>1. Resting \in Writers /\ Resting.msg = 0 /\ Resting.at = "none"
  BY DEF Resting, Writers
<1> QED
  BY <1>1

LEMMA BusyWriter ==
  ASSUME writing \in [Senders -> Writers], NEW p \in Senders,
         NEW a \in {"drop", "again"}, writing' = [writing EXCEPT ![p].at = a]
  PROVE  /\ writing' \in [Senders -> Writers] /\ writing'[p].msg = writing[p].msg
         /\ writing'[p].at # "none"
         /\ \A o \in Senders : o # p => writing'[o] = writing[o]
<1>1. writing[p] \in Writers
  OBVIOUS
<1>2. [writing[p] EXCEPT !.at = a] \in Writers /\ [writing[p] EXCEPT !.at = a].at = a
      /\ [writing[p] EXCEPT !.at = a].msg = writing[p].msg
  BY <1>1 DEF Writers
<1>3. writing' = [writing EXCEPT ![p] = [writing[p] EXCEPT !.at = a]]
  OBVIOUS
<1> QED
  BY <1>2, <1>3

\* The parts of the types that a step of another goroutine or of the loop leaves alone
WritersOK ==
  /\ writing \in [Senders -> Writers]
  /\ \A p \in Senders :
       /\ writing[p].at = "none" <=> writing[p].msg = 0
       /\ writing[p].msg # 0 => /\ writing[p].msg \in 1 .. Len(issued)
                                /\ issued[writing[p].msg].by = p

BatchOK ==
  /\ DOMAIN batch = Lists
  /\ \A b \in Lists : /\ Known(issued, batch[b])
                      /\ \A i \in 1 .. Len(batch[b]) : ListOf(batch[b][i]) = b

LEMMA MessageTypesIs ==
  MessageTypes <=>
    /\ issued \in Issues /\ errors \in Nat /\ WritersOK /\ BatchOK
    /\ Known(issued, channel) /\ Known(issued, delivered) /\ lost \subseteq 1 .. Len(issued)
  BY DEF MessageTypes, WritersOK, BatchOK

LEMMA MessageInit == MessagesInit => MessageInv
<1> SUFFICES ASSUME MessagesInit PROVE MessageInv
  OBVIOUS
<1>1. /\ issued = <<>> /\ channel = <<>> /\ delivered = <<>> /\ lost = {} /\ errors = 0
      /\ batch = [b \in Lists |-> <<>>] /\ writing = [p \in Senders |-> Resting]
  BY DEF MessagesInit
<1>2. WritersOK
  BY <1>1 DEF WritersOK, Resting, Writers
<1>3. BatchOK
  BY <1>1, NoList DEF BatchOK
<1>4. MessageTypes
  <2>1. issued \in Issues /\ errors \in Nat /\ lost \subseteq 1 .. Len(issued)
    BY <1>1 DEF Issues
  <2> QED
    BY <1>1, <1>2, <1>3, <2>1, NoList, MessageTypesIs
<1>5. Everywhere
  BY <1>1 DEF Everywhere
<1>6. OrderInv
  BY <1>1, NoList DEF OrderInv, Resting
<1> QED
  BY <1>4, <1>5, <1>6 DEF MessageInv

\* A goroutine puts its message into the queue.
LEMMA EnqueueInv ==
  ASSUME MessageInv, NEW p \in Senders, writing[p].msg # 0,
         channel' = Append(channel, writing[p].msg), writing' = [writing EXCEPT ![p] = Resting],
         UNCHANGED <<issued, batch, errors, delivered, lost>>
  PROVE  MessageInv'
<1> DEFINE w == writing[p].msg
<1>0. MessageTypes /\ Everywhere /\ OrderInv /\ w \in 1 .. Len(issued) /\ issued[w].by = p
      /\ WritersOK /\ BatchOK /\ Known(issued, channel)
  BY MessageTypesIs DEF MessageInv, WritersOK
<1>1. /\ writing' \in [Senders -> Writers] /\ writing'[p].msg = 0 /\ writing'[p].at = "none"
      /\ \A o \in Senders : o # p => writing'[o] = writing[o]
  BY <1>0, RestingWriter DEF WritersOK
<1> HIDE DEF w
<1>w. channel' = Append(channel, w)
  BY DEF w
<1>2. /\ Known(issued, channel') /\ Range(channel') = Range(channel) \cup {w}
      /\ Sorted(issued, channel) /\ Above(issued, channel, w) => Sorted(issued, channel')
      /\ \A t : Follows(issued, t, channel) /\ Above(issued, t, w) => Follows(issued, t, channel')
      /\ \A y : Above(issued, channel, y) /\ Ordered(issued, w, y) => Above(issued, channel', y)
  BY <1>0, <1>w, AppendList
<1>3. WritersOK'
  BY <1>0, <1>1 DEF WritersOK
<1>4. BatchOK'
  BY <1>0 DEF BatchOK, ListOf, To
<1>5. MessageTypes'
  BY <1>0, <1>2, <1>3, <1>4 DEF MessageTypes, WritersOK, BatchOK
<1>6. Everywhere'
  <2> SUFFICES ASSUME NEW x \in 1 .. Len(issued)
               PROVE  \/ \E o \in Senders : writing'[o].msg = x
                      \/ x \in Range(channel') \/ x \in Range(delivered) \/ x \in lost
                      \/ \E b \in Lists : x \in Range(batch[b])
    BY DEF Everywhere
  <2>1. CASE \E o \in Senders : writing[o].msg = x
    <3>1. PICK o \in Senders : writing[o].msg = x
      BY <2>1
    <3>2. CASE o = p
      BY <1>2, <3>1, <3>2 DEF w
    <3>3. CASE o # p
      BY <1>1, <3>1, <3>3
    <3> QED
      BY <3>2, <3>3
  <2>2. CASE ~\E o \in Senders : writing[o].msg = x
    BY <1>0, <1>2, <2>2 DEF Everywhere
  <2> QED
    BY <2>1, <2>2
<1>7. OrderInv'
  <2> SUFFICES ASSUME errors = 0 PROVE OrderInv'
    BY DEF OrderInv
  <2>1. /\ Sorted(issued, delivered) /\ Sorted(issued, channel')
        /\ Follows(issued, delivered, channel')
    BY <1>0, <1>2 DEF OrderInv, w
  <2>2. \A b \in Lists : /\ Sorted(issued, batch[b]) /\ Follows(issued, delivered, batch[b])
                         /\ Follows(issued, batch[b], channel')
    BY <1>0, <1>2 DEF OrderInv, w
  <2>3. ASSUME NEW o \in Senders, writing'[o].msg # 0
        PROVE  /\ Above(issued, delivered, writing'[o].msg) /\ Above(issued, channel', writing'[o].msg)
               /\ \A b \in Lists : Above(issued, batch[b], writing'[o].msg)
    <3>1. o # p /\ writing'[o] = writing[o]
      BY <1>1, <2>3
    <3>2. Ordered(issued, w, writing[o].msg)
      BY <1>0, <2>3, <3>1 DEF Ordered, WritersOK
    <3> QED
      BY <1>0, <1>2, <2>3, <3>1, <3>2 DEF OrderInv
  <2> QED
    BY <2>1, <2>2, <2>3 DEF OrderInv
<1> QED
  BY <1>5, <1>6, <1>7 DEF MessageInv

LEMMA QueueInv ==
  ASSUME MessageInv, NEW p \in Senders, NEW to \in Targets, QueueDiscordMessage(p, to)
  PROVE  MessageInv'
<1> DEFINE r == [to |-> to, by |-> p]
           w == Len(issued')
           v == [at |-> "first", msg |-> w]
<1>0. MessageTypes /\ Everywhere /\ OrderInv /\ WritersOK /\ BatchOK /\ issued \in Issues
      /\ Known(issued, channel) /\ Known(issued, delivered) /\ lost \subseteq 1 .. Len(issued)
  BY MessageTypesIs DEF MessageInv
<1>1. /\ issued' = Append(issued, r) /\ writing' = [writing EXCEPT ![p] = v]
      /\ writing[p].msg = 0
      /\ UNCHANGED <<channel, batch, errors, delivered, lost>>
  BY DEF QueueDiscordMessage
<1>2. r \in Issue /\ r.by = p
  BY DEF Issue
<1> HIDE DEF r
<1> DEFINE q1 == issued'
<1>i. q1 = Append(issued, r) /\ w = Len(q1) /\ r \in Issue
  BY <1>1, <1>2
<1> HIDE DEF q1, w
<1>j. ASSUME NEW s, Known(issued, s)
      PROVE  /\ Known(q1, s) /\ (Sorted(issued, s) => Sorted(q1, s)) /\ Above(q1, s, Len(q1))
             /\ \A x \in 1 .. Len(issued) : Above(issued, s, x) => Above(q1, s, x)
  BY <1>0, <1>i, <1>j, IssueKeeps
<1>k. ASSUME NEW s, NEW t, Known(issued, s), Known(issued, t), Follows(issued, s, t)
      PROVE  Follows(q1, s, t)
  BY <1>0, <1>i, <1>k, IssueKeeps
<1>l. /\ q1 \in Issues /\ Len(q1) = Len(issued) + 1 /\ Len(issued) \in Nat /\ q1[Len(q1)] = r
      /\ \A x \in 1 .. Len(issued) : q1[x] = issued[x]
  BY <1>0, <1>i DEF Issues
<1>3. /\ issued' \in Issues /\ w = Len(issued) + 1 /\ Len(issued) \in Nat /\ issued'[w] = r
      /\ \A x \in 1 .. Len(issued) : issued'[x] = issued[x]
      /\ \A s : Known(issued, s) =>
           /\ Known(issued', s) /\ (Sorted(issued, s) => Sorted(issued', s)) /\ Above(issued', s, w)
           /\ \A x \in 1 .. Len(issued) : Above(issued, s, x) => Above(issued', s, x)
      /\ \A s, t : Known(issued, s) /\ Known(issued, t) /\ Follows(issued, s, t)
                     => Follows(issued', s, t)
  BY <1>i, <1>j, <1>k, <1>l DEF q1
<1>4. v \in Writers /\ v.msg = w /\ v.at = "first"
  BY <1>3 DEF Writers
<1> HIDE DEF v
<1>5. /\ writing' \in [Senders -> Writers] /\ writing'[p] = v
      /\ \A o \in Senders : o # p => writing'[o] = writing[o]
  BY <1>0, <1>1, <1>4 DEF WritersOK
<1> HIDE DEF w
<1>w. w \in 1 .. Len(issued') /\ 1 .. Len(issued) \subseteq 1 .. Len(issued') /\ w # 0
      /\ \A x \in 1 .. Len(issued') : x = w \/ x \in 1 .. Len(issued)
  BY <1>3 DEF w
<1>6. WritersOK'
  <2> SUFFICES ASSUME NEW o \in Senders
               PROVE  /\ writing'[o].at = "none" <=> writing'[o].msg = 0
                      /\ writing'[o].msg # 0 => /\ writing'[o].msg \in 1 .. Len(issued')
                                                /\ issued'[writing'[o].msg].by = o
    BY <1>5 DEF WritersOK
  <2>1. CASE o = p
    BY <1>2, <1>3, <1>4, <1>5, <1>w, <2>1
  <2>2. CASE o # p
    BY <1>0, <1>3, <1>5, <1>w, <2>2 DEF WritersOK
  <2> QED
    BY <2>1, <2>2
<1>7. BatchOK'
  <2> SUFFICES ASSUME NEW b \in Lists
               PROVE  /\ Known(issued', batch[b])
                      /\ \A i \in 1 .. Len(batch[b]) : ListOf(batch[b][i])' = b
    BY <1>0, <1>1 DEF BatchOK
  <2>1. Known(issued, batch[b])
    BY <1>0 DEF BatchOK
  <2>2. ASSUME NEW i \in 1 .. Len(batch[b]) PROVE ListOf(batch[b][i])' = b
    <3>1. batch[b][i] \in 1 .. Len(issued)
      BY <2>1 DEF Known
    <3>2. ListOf(batch[b][i]) = b
      BY <1>0 DEF BatchOK
    <3> QED
      BY <1>1, <1>3, <3>1, <3>2 DEF ListOf, To
  <2> QED
    BY <1>3, <2>1, <2>2
<1>8. MessageTypes'
  <2>1. Known(issued', channel') /\ Known(issued', delivered') /\ lost' \subseteq 1 .. Len(issued')
    BY <1>0, <1>1, <1>3, <1>w
  <2>2. errors' \in Nat
    BY <1>0, <1>1 DEF MessageTypes
  <2> QED
    BY <1>3, <1>6, <1>7, <2>1, <2>2 DEF MessageTypes, WritersOK, BatchOK
<1>9. Everywhere'
  <2> SUFFICES ASSUME NEW x \in 1 .. Len(issued')
               PROVE  \/ \E o \in Senders : writing'[o].msg = x
                      \/ x \in Range(channel) \/ x \in Range(delivered) \/ x \in lost
                      \/ \E b \in Lists : x \in Range(batch[b])
    BY <1>1 DEF Everywhere
  <2>1. CASE x = w
    BY <1>4, <1>5, <2>1
  <2>2. CASE x \in 1 .. Len(issued)
    <3>1. ASSUME NEW o \in Senders, writing[o].msg = x PROVE writing'[o].msg = x
      <4>1. o # p
        BY <1>1, <2>2, <3>1
      <4> QED
        BY <1>5, <3>1, <4>1
    <3> QED
      BY <1>0, <2>2, <3>1 DEF Everywhere
  <2> QED
    BY <1>w, <2>1, <2>2
<1>10. OrderInv'
  <2> SUFFICES ASSUME errors = 0 PROVE OrderInv'
    BY <1>1 DEF OrderInv
  <2>0. \A b \in Lists : Known(issued, batch[b])
    BY <1>0 DEF BatchOK
  <2>1. /\ Sorted(issued', delivered) /\ Sorted(issued', channel)
        /\ Follows(issued', delivered, channel)
    BY <1>0, <1>3 DEF OrderInv
  <2>2. \A b \in Lists : /\ Sorted(issued', batch[b]) /\ Follows(issued', delivered, batch[b])
                         /\ Follows(issued', batch[b], channel)
    BY <1>0, <1>3, <2>0 DEF OrderInv
  <2>3. ASSUME NEW o \in Senders, writing'[o].msg # 0
        PROVE  /\ Above(issued', delivered, writing'[o].msg)
               /\ Above(issued', channel, writing'[o].msg)
               /\ \A b \in Lists : Above(issued', batch[b], writing'[o].msg)
    <3>1. CASE o = p
      BY <1>0, <1>3, <1>4, <1>5, <2>0, <3>1
    <3>2. CASE o # p
      <4>1. writing'[o] = writing[o] /\ writing[o].msg \in 1 .. Len(issued)
        BY <1>0, <1>5, <2>3, <3>2 DEF WritersOK
      <4> QED
        BY <1>0, <1>3, <2>0, <2>3, <4>1 DEF OrderInv
    <3> QED
      BY <3>1, <3>2
  <2> QED
    BY <1>1, <2>1, <2>2, <2>3 DEF OrderInv
<1> QED
  BY <1>8, <1>9, <1>10 DEF MessageInv

\* A goroutine waits for room, or gives its message up; the queue may lose messages.
LEMMA RoomInv ==
  ASSUME MessageInv, UNCHANGED <<issued, batch, errors, delivered>>, WritersOK',
         \A o \in Senders : writing'[o].msg = 0 \/ writing'[o].msg = writing[o].msg,
         Known(issued, channel'), Sorted(issued, channel) => Sorted(issued, channel'),
         \A t : Follows(issued, t, channel) => Follows(issued, t, channel'),
         \A y : Above(issued, channel, y) => Above(issued, channel', y),
         lost \subseteq lost', lost' \subseteq 1 .. Len(issued),
         \A x \in Range(channel) : x \in Range(channel') \/ x \in lost',
         \A o \in Senders : writing'[o].msg = writing[o].msg \/ writing[o].msg \in lost'
  PROVE  MessageInv'
<1>0. MessageTypes /\ Everywhere /\ OrderInv /\ BatchOK
  BY MessageTypesIs DEF MessageInv
<1>1. BatchOK'
  BY <1>0 DEF BatchOK, ListOf, To
<1>2. MessageTypes'
  BY <1>0, <1>1 DEF MessageTypes, WritersOK, BatchOK
<1>3. Everywhere'
  <2> SUFFICES ASSUME NEW x \in 1 .. Len(issued)
               PROVE  \/ \E o \in Senders : writing'[o].msg = x
                      \/ x \in Range(channel') \/ x \in Range(delivered) \/ x \in lost'
                      \/ \E b \in Lists : x \in Range(batch[b])
    BY DEF Everywhere
  <2>1. CASE \E o \in Senders : writing[o].msg = x
    BY <2>1
  <2>2. CASE ~\E o \in Senders : writing[o].msg = x
    BY <1>0, <2>2 DEF Everywhere
  <2> QED
    BY <2>1, <2>2
<1>4. OrderInv'
  <2> SUFFICES ASSUME errors = 0 PROVE OrderInv'
    BY DEF OrderInv
  <2>1. ASSUME NEW o \in Senders, writing'[o].msg # 0
        PROVE  /\ Above(issued, delivered, writing'[o].msg) /\ Above(issued, channel', writing'[o].msg)
               /\ \A b \in Lists : Above(issued, batch[b], writing'[o].msg)
    <3>1. writing'[o].msg = writing[o].msg /\ writing[o].msg # 0
      BY <2>1
    <3> QED
      BY <1>0, <3>1 DEF OrderInv
  <2>2. /\ Sorted(issued, delivered) /\ Sorted(issued, channel')
        /\ Follows(issued, delivered, channel')
        /\ \A b \in Lists : /\ Sorted(issued, batch[b]) /\ Follows(issued, delivered, batch[b])
                            /\ Follows(issued, batch[b], channel')
    BY <1>0 DEF OrderInv
  <2> QED
    BY <2>1, <2>2 DEF OrderInv
<1> QED
  BY <1>2, <1>3, <1>4 DEF MessageInv

\* The types of a goroutine that only goes on to its next channel operation, or rests
LEMMA WriterGoesOn ==
  ASSUME WritersOK, UNCHANGED issued, NEW p \in Senders, writing[p].at # "none",
         \/ writing' = [writing EXCEPT ![p].at = "drop"]
         \/ writing' = [writing EXCEPT ![p].at = "again"]
  PROVE  WritersOK' /\ \A o \in Senders : writing'[o].msg = writing[o].msg
<1>1. PICK a \in {"drop", "again"} : writing' = [writing EXCEPT ![p].at = a]
  OBVIOUS
<1>2. /\ writing' \in [Senders -> Writers] /\ writing'[p].msg = writing[p].msg
      /\ writing'[p].at # "none"
      /\ \A o \in Senders : o # p => writing'[o] = writing[o]
  BY <1>1, BusyWriter DEF WritersOK
<1> QED
  BY <1>2 DEF WritersOK

LEMMA TryQueueInv ==
  ASSUME MessageInv, NEW p \in Senders, TryQueue(p)
  PROVE  MessageInv'
<1>0. /\ WritersOK /\ writing[p].at = "first" /\ UNCHANGED <<issued, batch, errors, delivered, lost>>
      /\ Known(issued, channel) /\ lost \subseteq 1 .. Len(issued)
  BY MessageTypesIs DEF MessageInv, TryQueue
<1>1. CASE Full(channel)
  <2>1. writing' = [writing EXCEPT ![p].at = "drop"] /\ UNCHANGED channel
    BY <1>1 DEF TryQueue
  <2>2. WritersOK' /\ \A o \in Senders : writing'[o].msg = writing[o].msg
    BY <1>0, <2>1, WriterGoesOn
  <2> QED
    BY <1>0, <2>1, <2>2, RoomInv
<1>2. CASE ~Full(channel)
  <2>1. /\ channel' = Append(channel, writing[p].msg)
        /\ writing' = [writing EXCEPT ![p] = Resting]
    BY <1>2 DEF TryQueue
  <2>2. writing[p].msg # 0
    BY <1>0 DEF WritersOK
  <2> QED
    BY <1>0, <2>1, <2>2, EnqueueInv
<1> QED
  BY <1>1, <1>2

LEMMA DropOldestInv ==
  ASSUME MessageInv, NEW p \in Senders, DropOldest(p)
  PROVE  MessageInv'
<1>0. /\ WritersOK /\ writing[p].at = "drop" /\ UNCHANGED <<issued, batch, errors, delivered>>
      /\ Known(issued, channel) /\ lost \subseteq 1 .. Len(issued)
      /\ writing' = [writing EXCEPT ![p].at = "again"]
  BY MessageTypesIs DEF MessageInv, DropOldest
<1>1. WritersOK' /\ \A o \in Senders : writing'[o].msg = writing[o].msg
  BY <1>0, WriterGoesOn
<1>2. CASE channel = <<>>
  <2>1. UNCHANGED <<channel, lost>>
    BY <1>2 DEF DropOldest
  <2> QED
    BY <1>0, <1>1, <2>1, RoomInv
<1>3. CASE channel # <<>>
  <2>1. channel' = Tail(channel) /\ lost' = lost \cup (Range(channel) \ Range(channel'))
    BY <1>3 DEF DropOldest
  <2>2. /\ Known(issued, channel') /\ Head(channel) \in 1 .. Len(issued)
        /\ Range(channel) = Range(channel') \cup {Head(channel)}
        /\ Sorted(issued, channel) => Sorted(issued, channel')
        /\ \A t : Follows(issued, t, channel) => Follows(issued, t, channel')
        /\ \A y : Above(issued, channel, y) => Above(issued, channel', y)
    BY <1>0, <1>3, <2>1, TailList
  <2>3. lost \subseteq lost' /\ lost' \subseteq 1 .. Len(issued)
        /\ \A x \in Range(channel) : x \in Range(channel') \/ x \in lost'
    BY <1>0, <2>1, <2>2
  <2> QED
    BY <1>0, <1>1, <2>2, <2>3, RoomInv
<1> QED
  BY <1>2, <1>3

LEMMA TryAgainInv ==
  ASSUME MessageInv, NEW p \in Senders, TryAgain(p)
  PROVE  MessageInv'
<1>0. /\ WritersOK /\ writing[p].at = "again" /\ UNCHANGED <<issued, batch, errors, delivered>>
      /\ Known(issued, channel) /\ lost \subseteq 1 .. Len(issued)
      /\ writing' = [writing EXCEPT ![p] = Resting] /\ writing[p].msg # 0
      /\ writing[p].msg \in 1 .. Len(issued)
  BY MessageTypesIs DEF MessageInv, TryAgain, WritersOK
<1>1. CASE ~Full(channel)
  BY <1>0, <1>1, EnqueueInv DEF TryAgain
<1>2. CASE Full(channel)
  <2>1. lost' = lost \cup {writing[p].msg} /\ UNCHANGED channel
    BY <1>2 DEF TryAgain
  <2>2. /\ writing' \in [Senders -> Writers] /\ writing'[p].msg = 0 /\ writing'[p].at = "none"
        /\ \A o \in Senders : o # p => writing'[o] = writing[o]
    BY <1>0, RestingWriter DEF WritersOK
  <2>3. WritersOK'
    BY <1>0, <2>2 DEF WritersOK
  <2>4. \A o \in Senders : /\ writing'[o].msg = 0 \/ writing'[o].msg = writing[o].msg
                           /\ writing'[o].msg = writing[o].msg \/ writing[o].msg \in lost'
    BY <2>1, <2>2
  <2> QED
    BY <1>0, <2>1, <2>3, <2>4, RoomInv
<1> QED
  BY <1>1, <1>2

LEMMA CollectInv ==
  ASSUME MessageInv, Collect
  PROVE  MessageInv'
<1> DEFINE h == Head(channel)
           d == ListOf(h)
<1>0. /\ MessageTypes /\ Everywhere /\ OrderInv /\ WritersOK /\ BatchOK /\ errors \in Nat
      /\ issued \in Issues /\ Known(issued, channel) /\ Known(issued, delivered)
      /\ lost \subseteq 1 .. Len(issued)
  BY MessageTypesIs DEF MessageInv
<1>1. /\ channel # <<>> /\ channel' = Tail(channel) /\ UNCHANGED <<issued, writing, errors, delivered, lost>>
      /\ batch' = [batch EXCEPT ![d] = Append(@, h)]
  BY DEF Collect
<1>2. /\ Known(issued, channel') /\ h \in 1 .. Len(issued)
      /\ Range(channel) = Range(channel') \cup {h}
      /\ Sorted(issued, channel) => Sorted(issued, channel')
           /\ \A j \in 1 .. Len(channel') : Ordered(issued, h, channel'[j])
      /\ \A t : Follows(issued, t, channel) => Follows(issued, t, channel') /\ Above(issued, t, h)
      /\ \A y : Above(issued, channel, y) => Above(issued, channel', y) /\ Ordered(issued, h, y)
  BY <1>0, <1>1, TailList
<1>3. d \in Lists
  BY <1>0, <1>2, IssuedIs
<1>d. ListOf(h) = d /\ Known(issued, batch[d])
  BY <1>0, <1>3 DEF BatchOK
<1> HIDE DEF h, d
<1>4. batch'[d] = Append(batch[d], h) /\ DOMAIN batch' = Lists
      /\ \A c \in Lists : c # d => batch'[c] = batch[c]
  BY <1>0, <1>1, <1>3 DEF BatchOK
<1>5. /\ Known(issued, batch'[d]) /\ Range(batch'[d]) = Range(batch[d]) \cup {h}
      /\ Sorted(issued, batch[d]) /\ Above(issued, batch[d], h) => Sorted(issued, batch'[d])
      /\ \A t : Follows(issued, t, batch[d]) /\ Above(issued, t, h) => Follows(issued, t, batch'[d])
      /\ \A y : Above(issued, batch[d], y) /\ Ordered(issued, h, y) => Above(issued, batch'[d], y)
  BY <1>2, <1>d, <1>4, AppendList
<1>6. BatchOK'
  <2> SUFFICES ASSUME NEW b \in Lists
               PROVE  /\ Known(issued, batch'[b])
                      /\ \A i \in 1 .. Len(batch'[b]) : ListOf(batch'[b][i]) = b
    BY <1>1, <1>4 DEF BatchOK, ListOf, To
  <2>1. CASE b # d
    BY <1>0, <1>4, <2>1 DEF BatchOK
  <2>2. CASE b = d
    <3>1. ASSUME NEW i \in 1 .. Len(batch'[d]) PROVE ListOf(batch'[d][i]) = d
      <4>1. batch[d] \in Seq(1 .. Len(issued))
        BY <1>d DEF Known
      <4>2. batch'[d][i] = h \/ (i \in 1 .. Len(batch[d]) /\ batch'[d][i] = batch[d][i])
        BY <1>4, <4>1
      <4> QED
        BY <1>0, <1>3, <1>d, <4>2 DEF BatchOK
    <3> QED
      BY <1>5, <2>2, <3>1
  <2> QED
    BY <2>1, <2>2
<1>7. MessageTypes'
  BY <1>0, <1>1, <1>2, <1>6 DEF MessageTypes, BatchOK
<1>8. Everywhere'
  <2> SUFFICES ASSUME NEW x \in 1 .. Len(issued)
               PROVE  \/ \E o \in Senders : writing[o].msg = x
                      \/ x \in Range(channel') \/ x \in Range(delivered) \/ x \in lost
                      \/ \E b \in Lists : x \in Range(batch'[b])
    BY <1>1 DEF Everywhere
  <2>1. \A b \in Lists : Range(batch[b]) \subseteq Range(batch'[b])
    BY <1>4, <1>5
  <2>2. h \in Range(batch'[d])
    BY <1>5
  <2> QED
    BY <1>0, <1>2, <1>3, <2>1, <2>2 DEF Everywhere
<1>9. OrderInv'
  <2> SUFFICES ASSUME errors = 0 PROVE OrderInv'
    BY <1>1 DEF OrderInv
  <2>0. /\ Sorted(issued, delivered) /\ Sorted(issued, channel) /\ Follows(issued, delivered, channel)
        /\ \A b \in Lists : /\ Sorted(issued, batch[b]) /\ Follows(issued, delivered, batch[b])
                            /\ Follows(issued, batch[b], channel)
        /\ \A p \in Senders : writing[p].msg # 0 =>
             /\ Above(issued, delivered, writing[p].msg) /\ Above(issued, channel, writing[p].msg)
             /\ \A b \in Lists : Above(issued, batch[b], writing[p].msg)
    BY <1>0 DEF OrderInv
  <2>1. Sorted(issued, channel') /\ Follows(issued, delivered, channel')
    BY <1>2, <2>0
  <2>2. ASSUME NEW b \in Lists
        PROVE  /\ Sorted(issued, batch'[b]) /\ Follows(issued, delivered, batch'[b])
               /\ Follows(issued, batch'[b], channel')
    <3>1. CASE b # d
      BY <1>2, <1>4, <2>0, <3>1
    <3>2. CASE b = d
      <4>1. Sorted(issued, batch'[d]) /\ Follows(issued, delivered, batch'[d])
        BY <1>2, <1>3, <1>5, <2>0
      <4>2. Follows(issued, batch[d], channel')
        BY <1>2, <1>3, <2>0
      <4>3. Follows(issued, batch'[d], channel')
        BY <1>2, <1>5, <2>0, <4>2 DEF Follows
      <4> QED
        BY <3>2, <4>1, <4>3
    <3> QED
      BY <3>1, <3>2
  <2>3. ASSUME NEW p \in Senders, writing[p].msg # 0
        PROVE  /\ Above(issued, delivered, writing[p].msg) /\ Above(issued, channel', writing[p].msg)
               /\ \A b \in Lists : Above(issued, batch'[b], writing[p].msg)
    BY <1>2, <1>3, <1>4, <1>5, <2>0, <2>3
  <2> QED
    BY <1>1, <2>0, <2>1, <2>2, <2>3 DEF OrderInv
<1> QED
  BY <1>7, <1>8, <1>9 DEF MessageInv

\* What every send does: a part of one list leaves the batch.
LEMMA SendFacts ==
  ASSUME MessageInv, NEW b \in Lists, NEW k \in Chunks(b), SendStep(b, k),
         NEW a, a = Chunk(b, k)
  PROVE  /\ UNCHANGED <<issued, writing>> /\ BatchOK'
         /\ Known(issued, a) /\ Len(a) = k /\ k \in Nat \ {0}
         /\ \A i \in 1 .. Len(a) : ListOf(a[i]) = b
         /\ \A c \in Lists : c # b => batch'[c] = batch[c]
         /\ Range(batch[b]) = Range(a) \cup Range(batch'[b])
         /\ Sorted(issued, batch[b]) =>
              /\ Sorted(issued, a) /\ Sorted(issued, batch'[b]) /\ Follows(issued, a, batch'[b])
         /\ \A t : Follows(issued, t, batch[b]) => Follows(issued, t, a) /\ Follows(issued, t, batch'[b])
         /\ \A y : Above(issued, batch[b], y) => Above(issued, a, y) /\ Above(issued, batch'[b], y)
<1> DEFINE s == batch[b]
           r == SubSeq(s, k + 1, Len(s))
<1>0. BatchOK /\ Known(issued, s) /\ k \in 1 .. Len(s) /\ a = SubSeq(s, 1, k)
      /\ batch' = [batch EXCEPT ![b] = r] /\ UNCHANGED <<issued, writing>>
  BY MessageTypesIs DEF MessageInv, BatchOK, SendStep, Chunk, Chunks
<1>1. batch'[b] = r /\ DOMAIN batch' = Lists /\ \A c \in Lists : c # b => batch'[c] = batch[c]
  BY <1>0 DEF BatchOK
<1>2. \A i \in 1 .. Len(s) : ListOf(s[i]) = b
  BY <1>0 DEF BatchOK
<1>r. r = SubSeq(s, k + 1, Len(s)) /\ s = batch[b]
  OBVIOUS
<1>k. k \in Nat \ {0}
  <2>1. s \in Seq(1 .. Len(issued))
    BY <1>0 DEF Known
  <2> QED
    BY <1>0, <2>1
<1>p. Known(issued, s) /\ Halves(s, k, a, r)
  BY <1>0 DEF Halves
<1> HIDE DEF r, s
<1>3. /\ Known(issued, a) /\ Known(issued, r) /\ Range(s) = Range(a) \cup Range(r) /\ Len(a) = k
  BY <1>p, SplitList
<1>i. /\ \A i \in 1 .. Len(a) : i \in 1 .. Len(s) /\ a[i] = s[i]
      /\ \A i \in 1 .. Len(r) : i + k \in 1 .. Len(s) /\ r[i] = s[i + k]
  BY <1>p, SplitList
<1>s. Sorted(issued, s) => Sorted(issued, a) /\ Sorted(issued, r) /\ Follows(issued, a, r)
  BY <1>p, SplitList
<1>t. ASSUME NEW t, Follows(issued, t, s) PROVE Follows(issued, t, a) /\ Follows(issued, t, r)
  BY <1>p, <1>t, SplitList
<1>y. ASSUME NEW y, Above(issued, s, y) PROVE Above(issued, a, y) /\ Above(issued, r, y)
  BY <1>p, <1>y, SplitList
<1>4. \A i \in 1 .. Len(a) : ListOf(a[i]) = b
  BY <1>2, <1>i
<1>5. BatchOK'
  <2>1. \A i \in 1 .. Len(r) : ListOf(r[i]) = b
    BY <1>2, <1>i
  <2>2. \A c \in Lists : /\ Known(issued, batch'[c])
                         /\ \A i \in 1 .. Len(batch'[c]) : ListOf(batch'[c][i]) = c
    BY <1>0, <1>1, <1>3, <2>1 DEF BatchOK
  <2> QED
    BY <1>0, <1>1, <2>2 DEF BatchOK, ListOf, To
<1> QED
  BY <1>0, <1>1, <1>3, <1>4, <1>5, <1>k, <1>r, <1>s, <1>t, <1>y

LEMMA SmartWriteInv ==
  ASSUME MessageInv, SmartWriteDiscord
  PROVE  MessageInv'
<1>1. PICK b \in Lists : \E k \in Chunks(b) :
        /\ SendStep(b, k) /\ delivered' = delivered \o Chunk(b, k)
        /\ UNCHANGED <<channel, errors, lost>>
  BY DEF SmartWriteDiscord
<1>2. PICK k \in Chunks(b) :
        /\ SendStep(b, k) /\ delivered' = delivered \o Chunk(b, k)
        /\ UNCHANGED <<channel, errors, lost>>
  BY <1>1
<1> DEFINE a == Chunk(b, k)
<1>a. a = Chunk(b, k) /\ Joined(delivered, a, delivered')
  BY <1>2 DEF Joined
<1> HIDE DEF a
<1>3. /\ UNCHANGED <<issued, writing>> /\ BatchOK' /\ Known(issued, a)
      /\ \A i \in 1 .. Len(a) : ListOf(a[i]) = b
      /\ \A c \in Lists : c # b => batch'[c] = batch[c]
      /\ Range(batch[b]) = Range(a) \cup Range(batch'[b])
      /\ Sorted(issued, batch[b]) =>
           /\ Sorted(issued, a) /\ Sorted(issued, batch'[b]) /\ Follows(issued, a, batch'[b])
      /\ \A t : Follows(issued, t, batch[b]) => Follows(issued, t, a) /\ Follows(issued, t, batch'[b])
      /\ \A y : Above(issued, batch[b], y) => Above(issued, a, y) /\ Above(issued, batch'[b], y)
  BY <1>2, <1>a, SendFacts
<1>0. /\ MessageTypes /\ Everywhere /\ OrderInv /\ WritersOK /\ BatchOK /\ errors \in Nat
      /\ issued \in Issues /\ Known(issued, channel) /\ Known(issued, delivered)
      /\ lost \subseteq 1 .. Len(issued)
  BY MessageTypesIs DEF MessageInv
<1>4. /\ Known(issued, delivered') /\ Range(delivered') = Range(delivered) \cup Range(a)
      /\ Sorted(issued, delivered) /\ Sorted(issued, a) /\ Follows(issued, delivered, a)
           => Sorted(issued, delivered')
      /\ \A y : Above(issued, delivered, y) /\ Above(issued, a, y) => Above(issued, delivered', y)
  BY <1>0, <1>3, <1>a, ConcatList
<1>5. MessageTypes'
  BY <1>0, <1>2, <1>3, <1>4 DEF MessageTypes, BatchOK
<1>6. Everywhere'
  <2> SUFFICES ASSUME NEW x \in 1 .. Len(issued)
               PROVE  \/ \E o \in Senders : writing[o].msg = x
                      \/ x \in Range(channel) \/ x \in Range(delivered') \/ x \in lost
                      \/ \E c \in Lists : x \in Range(batch'[c])
    BY <1>2, <1>3 DEF Everywhere
  <2>1. \A c \in Lists : Range(batch[c]) \subseteq Range(batch'[c]) \cup Range(a)
    BY <1>3
  <2> QED
    BY <1>0, <1>4, <2>1 DEF Everywhere
<1>7. OrderInv'
  <2> SUFFICES ASSUME errors = 0 PROVE OrderInv'
    BY <1>2 DEF OrderInv
  <2>0. /\ Sorted(issued, delivered) /\ Sorted(issued, channel) /\ Follows(issued, delivered, channel)
        /\ \A c \in Lists : /\ Sorted(issued, batch[c]) /\ Follows(issued, delivered, batch[c])
                            /\ Follows(issued, batch[c], channel)
        /\ \A p \in Senders : writing[p].msg # 0 =>
             /\ Above(issued, delivered, writing[p].msg) /\ Above(issued, channel, writing[p].msg)
             /\ \A c \in Lists : Above(issued, batch[c], writing[p].msg)
    BY <1>0 DEF OrderInv
  <2>1. Sorted(issued, delivered') /\ Follows(issued, delivered', channel)
    <3>1. Sorted(issued, delivered')
      BY <1>3, <1>4, <2>0
    <3>2. Follows(issued, delivered', channel)
      BY <1>3, <1>4, <2>0 DEF Follows
    <3> QED
      BY <3>1, <3>2
  <2>2. ASSUME NEW c \in Lists
        PROVE  /\ Sorted(issued, batch'[c]) /\ Follows(issued, delivered', batch'[c])
               /\ Follows(issued, batch'[c], channel)
    <3>1. CASE c # b
      <4>1. Follows(issued, a, batch[c])
        <5> SUFFICES ASSUME NEW j \in 1 .. Len(batch[c]), NEW i \in 1 .. Len(a)
                     PROVE  Ordered(issued, a[i], batch[c][j])
          BY DEF Follows, Above
        <5>1. ListOf(a[i]) = b /\ ListOf(batch[c][j]) = c
          BY <1>0, <1>3 DEF BatchOK
        <5> QED
          BY <3>1, <5>1 DEF Ordered, ListOf, To
      <4>2. Follows(issued, delivered', batch[c])
        BY <1>4, <2>0, <4>1 DEF Follows
      <4> QED
        BY <1>3, <2>0, <3>1, <4>2
    <3>2. CASE c = b
      <4>1. Sorted(issued, batch'[b]) /\ Follows(issued, a, batch'[b])
            /\ Follows(issued, delivered, batch'[b])
        BY <1>3, <2>0
      <4>2. Follows(issued, delivered', batch'[b])
        BY <1>4, <4>1 DEF Follows
      <4>3. Follows(issued, batch'[b], channel)
        BY <1>3, <2>0 DEF Follows
      <4> QED
        BY <3>2, <4>1, <4>2, <4>3
    <3> QED
      BY <3>1, <3>2
  <2>3. ASSUME NEW p \in Senders, writing[p].msg # 0
        PROVE  /\ Above(issued, delivered', writing[p].msg) /\ Above(issued, channel, writing[p].msg)
               /\ \A c \in Lists : Above(issued, batch'[c], writing[p].msg)
    BY <1>3, <1>4, <2>0, <2>3
  <2> QED
    BY <1>2, <1>3, <2>0, <2>1, <2>2, <2>3 DEF OrderInv
<1> QED
  BY <1>5, <1>6, <1>7 DEF MessageInv

\* What is queued again is known, and nothing of it is lost as long as there is room.
LEMMA RequeuedList ==
  ASSUME NEW q, NEW c, NEW s, Known(q, c), Known(q, s), NEW r, r = Requeued(c, s)
  PROVE  /\ Known(q, r) /\ (Len(c) + Len(s) <= ChanSize => Range(r) = Range(c) \cup Range(s))
         /\ Range(c \o s) = Range(c) \cup Range(s)
<1> DEFINE S   == 1 .. Len(q)
           all == c \o s
<1>0. c \in Seq(S) /\ s \in Seq(S)
  BY DEF Known
<1>l. Len(all) = Len(c) + Len(s)
  BY <1>0
<1>a. Joined(c, s, all)
  BY DEF Joined
<1>1. Known(q, all) /\ Range(all) = Range(c) \cup Range(s)
  <2> HIDE DEF all
  <2> QED
    BY <1>a, ConcatList
<1>2. r = IF Len(all) <= ChanSize THEN all ELSE SubSeq(all, Len(all) - ChanSize + 1, Len(all))
  BY DEF Requeued
<1>3. all \in Seq(S)
  BY <1>1 DEF Known
<1> HIDE DEF S, all
<1>4. Len(all) \in Nat /\ ChanSize \in Nat \ {0}
  BY <1>3, MessageNumbers
<1>5. CASE Len(all) <= ChanSize
  <2>1. r = all
    BY <1>2, <1>5
  <2> QED
    BY <1>1, <1>l, <2>1 DEF all
<1>6. CASE ~(Len(all) <= ChanSize)
  <2>1. r = SubSeq(all, Len(all) - ChanSize + 1, Len(all))
    BY <1>2, <1>6
  <2>2. Len(all) - ChanSize + 1 \in 1 .. Len(all)
    BY <1>4, <1>6
  <2>3. r \in Seq(S)
    BY <1>3, <1>4, <2>1, <2>2
  <2>4. Known(q, r)
    BY <2>3 DEF Known, S
  <2> QED
    BY <1>1, <1>6, <1>l, <2>4 DEF all
<1> QED
  BY <1>5, <1>6

\* A send that failed: its messages are queued again, shown, or given up.
LEMMA FailedInv ==
  ASSUME MessageInv, NEW b \in Lists, NEW k \in Chunks(b), SendStep(b, k),
         errors' = errors + 1, Known(issued, channel'), Known(issued, delivered'),
         lost \subseteq lost', lost' \subseteq 1 .. Len(issued),
         Range(delivered) \subseteq Range(delivered'),
         Range(channel) \cup Range(Chunk(b, k)) \subseteq Range(channel') \cup lost'
  PROVE  MessageInv'
<1> DEFINE a == Chunk(b, k)
<1>a. a = Chunk(b, k) /\ Range(channel) \cup Range(a) \subseteq Range(channel') \cup lost'
  OBVIOUS
<1> HIDE DEF a
<1>0. MessageTypes /\ Everywhere /\ WritersOK /\ errors \in Nat /\ issued \in Issues
  BY MessageTypesIs DEF MessageInv
<1>1. /\ UNCHANGED <<issued, writing>> /\ BatchOK'
      /\ \A c \in Lists : c # b => batch'[c] = batch[c]
      /\ Range(batch[b]) = Range(a) \cup Range(batch'[b])
  BY <1>a, SendFacts
<1>2. errors' \in Nat /\ errors' # 0
  BY <1>0
<1>3. MessageTypes'
  BY <1>0, <1>1, <1>2 DEF MessageTypes, BatchOK
<1>4. Everywhere'
  <2> SUFFICES ASSUME NEW x \in 1 .. Len(issued)
               PROVE  \/ \E o \in Senders : writing[o].msg = x
                      \/ x \in Range(channel') \/ x \in Range(delivered') \/ x \in lost'
                      \/ \E c \in Lists : x \in Range(batch'[c])
    BY <1>1 DEF Everywhere
  <2>1. \A c \in Lists : Range(batch[c]) \subseteq Range(batch'[c]) \cup Range(a)
    BY <1>1
  <2> QED
    BY <1>0, <1>a, <2>1 DEF Everywhere
<1>5. OrderInv'
  BY <1>2 DEF OrderInv
<1> QED
  BY <1>3, <1>4, <1>5 DEF MessageInv

\* Everything in a list was issued.
LEMMA KnownRange ==
  ASSUME NEW q, NEW s, Known(q, s)
  PROVE  Range(s) \subseteq 1 .. Len(q)
<1>1. s \in Seq(1 .. Len(q))
  BY DEF Known
<1> QED
  BY <1>1 DEF Range

LEMMA SendRetriedInv ==
  ASSUME MessageInv, SendRetried
  PROVE  MessageInv'
<1>1. PICK b \in Lists : \E k \in Chunks(b) :
        /\ SendStep(b, k) /\ errors' = errors + 1
        /\ channel' = Requeued(channel, Chunk(b, k))
        /\ lost' = IF Len(channel) + k > ChanSize
                   THEN lost \cup (Range(channel \o Chunk(b, k)) \ Range(channel')) ELSE lost
        /\ delivered' \in {delivered, IF online THEN delivered \o Chunk(b, k) ELSE delivered}
  BY DEF SendRetried
<1>2. PICK k \in Chunks(b) :
        /\ SendStep(b, k) /\ errors' = errors + 1
        /\ channel' = Requeued(channel, Chunk(b, k))
        /\ lost' = IF Len(channel) + k > ChanSize
                   THEN lost \cup (Range(channel \o Chunk(b, k)) \ Range(channel')) ELSE lost
        /\ delivered' \in {delivered, IF online THEN delivered \o Chunk(b, k) ELSE delivered}
  BY <1>1
<1> DEFINE a == Chunk(b, k)
<1>a. /\ a = Chunk(b, k) /\ channel' = Requeued(channel, a)
      /\ lost' = IF Len(channel) + k > ChanSize
                 THEN lost \cup (Range(channel \o a) \ Range(channel')) ELSE lost
      /\ delivered' = delivered \/ delivered' = delivered \o a
  BY <1>2
<1> HIDE DEF a
<1>0. /\ Known(issued, channel) /\ Known(issued, delivered) /\ lost \subseteq 1 .. Len(issued)
  BY MessageTypesIs DEF MessageInv
<1>3. Known(issued, a) /\ Len(a) = k /\ k \in Nat \ {0}
  BY <1>2, <1>a, SendFacts
<1>4. /\ Known(issued, channel')
      /\ Len(channel) + Len(a) <= ChanSize => Range(channel') = Range(channel) \cup Range(a)
      /\ Range(channel \o a) = Range(channel) \cup Range(a)
  BY <1>0, <1>3, <1>a, RequeuedList
<1>5. Known(issued, delivered') /\ Range(delivered) \subseteq Range(delivered')
  <2>1. CASE delivered' = delivered
    BY <1>0, <2>1
  <2>2. CASE Joined(delivered, a, delivered')
    <3>1. Known(issued, delivered) /\ Known(issued, a)
      BY <1>0, <1>3
    <3>2. Known(issued, delivered') /\ Range(delivered') = Range(delivered) \cup Range(a)
      BY <2>2, <3>1, ConcatList
    <3> QED
      BY <3>2
  <2> QED
    BY <1>a, <2>1, <2>2 DEF Joined
<1>6. Range(channel) \cup Range(a) \subseteq 1 .. Len(issued)
  BY <1>0, <1>3, KnownRange
<1>7. Len(channel) \in Nat /\ ChanSize \in Nat
  <2>1. channel \in Seq(1 .. Len(issued))
    BY <1>0 DEF Known
  <2> QED
    BY <2>1, MessageNumbers
<1>8. /\ lost \subseteq lost' /\ lost' \subseteq 1 .. Len(issued)
      /\ Range(channel) \cup Range(a) \subseteq Range(channel') \cup lost'
  <2>1. CASE Len(channel) + k > ChanSize
    <3>1. lost' = lost \cup ((Range(channel) \cup Range(a)) \ Range(channel'))
      BY <1>4, <1>a, <2>1
    <3> QED
      BY <1>0, <1>6, <3>1
  <2>2. CASE ~(Len(channel) + k > ChanSize)
    <3>1. lost' = lost /\ Len(channel) + Len(a) <= ChanSize
      BY <1>3, <1>7, <1>a, <2>2
    <3> QED
      BY <1>0, <1>4, <3>1
  <2> QED
    BY <2>1, <2>2
<1>9. Range(channel) \cup Range(Chunk(b, k)) \subseteq Range(channel') \cup lost'
  BY <1>8, <1>a
<1> QED
  BY <1>2, <1>4, <1>5, <1>8, <1>9, FailedInv

LEMMA SendFailsInv ==
  ASSUME MessageInv, SendFails
  PROVE  MessageInv'
<1>1. PICK b \in Lists : \E k \in Chunks(b) :
        /\ SendStep(b, k) /\ errors' = errors + 1
        /\ lost' = lost \cup Range(Chunk(b, k)) /\ UNCHANGED <<channel, delivered>>
  BY DEF SendFails
<1>2. PICK k \in Chunks(b) :
        /\ SendStep(b, k) /\ errors' = errors + 1
        /\ lost' = lost \cup Range(Chunk(b, k)) /\ UNCHANGED <<channel, delivered>>
  BY <1>1
<1>0. /\ Known(issued, channel) /\ Known(issued, delivered) /\ lost \subseteq 1 .. Len(issued)
  BY MessageTypesIs DEF MessageInv
<1>3. Known(issued, Chunk(b, k))
  BY <1>2, SendFacts
<1>4. Range(Chunk(b, k)) \subseteq 1 .. Len(issued)
  BY <1>3, KnownRange
<1>5. /\ Known(issued, channel') /\ Known(issued, delivered')
      /\ lost \subseteq lost' /\ lost' \subseteq 1 .. Len(issued)
      /\ Range(delivered) \subseteq Range(delivered')
      /\ Range(channel) \cup Range(Chunk(b, k)) \subseteq Range(channel') \cup lost'
  BY <1>0, <1>2, <1>4
<1> QED
  BY <1>2, <1>5, FailedInv

LEMMA LoopEndsInv ==
  ASSUME MessageInv, LoopEnds
  PROVE  MessageInv'
<1>0. /\ MessageTypes /\ Everywhere /\ OrderInv /\ WritersOK /\ BatchOK /\ errors \in Nat
      /\ issued \in Issues /\ Known(issued, channel) /\ Known(issued, delivered)
      /\ lost \subseteq 1 .. Len(issued)
  BY MessageTypesIs DEF MessageInv
<1>1. /\ lost' = lost \cup InBatch /\ batch' = [b \in Lists |-> <<>>]
      /\ UNCHANGED <<issued, writing, channel, errors, delivered>>
  BY DEF LoopEnds
<1>2. BatchOK'
  BY <1>1, NoList DEF BatchOK
<1>3. InBatch \subseteq 1 .. Len(issued)
  <2>1. \A b \in Lists : Range(batch[b]) \subseteq 1 .. Len(issued)
    BY <1>0, KnownRange DEF BatchOK
  <2> QED
    BY <2>1 DEF InBatch
<1>4. MessageTypes'
  BY <1>0, <1>1, <1>2, <1>3 DEF MessageTypes, BatchOK
<1>5. Everywhere'
  <2>1. \A b \in Lists : Range(batch[b]) \subseteq lost'
    BY <1>1 DEF InBatch
  <2> QED
    BY <1>0, <1>1, <2>1 DEF Everywhere
<1>6. OrderInv'
  <2>1. \A b \in Lists : batch'[b] = <<>>
    BY <1>1
  <2> QED
    BY <1>0, <1>1, <2>1, NoList DEF OrderInv
<1> QED
  BY <1>4, <1>5, <1>6 DEF MessageInv

LEMMA MessageStep == MessageInv /\ [MessagesNext]_messageVars => MessageInv'
<1> SUFFICES ASSUME MessageInv, [MessagesNext]_messageVars PROVE MessageInv'
  OBVIOUS
<1>1. ASSUME NEW p \in Senders, NEW to \in Targets, QueueDiscordMessage(p, to) PROVE MessageInv'
  BY <1>1, QueueInv
<1>2. ASSUME NEW p \in Senders, TryQueue(p) \/ DropOldest(p) \/ TryAgain(p) PROVE MessageInv'
  BY <1>2, TryQueueInv, DropOldestInv, TryAgainInv
<1>3. CASE Collect
  BY <1>3, CollectInv
<1>4. CASE SmartWriteDiscord
  BY <1>4, SmartWriteInv
<1>5. CASE SendRetried \/ SendFails
  BY <1>5, SendRetriedInv, SendFailsInv
<1>6. CASE LoopEnds
  BY <1>6, LoopEndsInv
<1>7. CASE UNCHANGED <<issued, writing, channel, batch, errors, delivered, lost>>
  BY <1>7 DEF MessageInv, MessageTypes, Everywhere, OrderInv, ListOf, To
<1>8. CASE CollectEnds \/ LoopRests \/ Refill \/ Session \/ UNCHANGED messageVars
  BY <1>7, <1>8 DEF CollectEnds, LoopRests, Refill, Session, messageVars
<1> QED
  BY <1>1, <1>2, <1>3, <1>4, <1>5, <1>6, <1>8 DEF MessagesNext

\* Messages: none disappears between the goroutines that queue, the bounded queue, the
\* batch and Discord, and as long as no send fails what one goroutine wrote to one
\* channel is shown once and in order.
THEOREM MessagesAreKept == MessagesSpec => []MessagesKept
<1>1. MessageInv => MessagesKept
  <2> SUFFICES ASSUME MessageInv PROVE NothingVanishes /\ ShownInOrder
    BY DEF MessagesKept
  <2>0. /\ MessageTypes /\ Everywhere /\ OrderInv /\ WritersOK /\ BatchOK
        /\ issued \in Issues /\ Known(issued, channel) /\ Known(issued, delivered)
        /\ lost \subseteq 1 .. Len(issued)
    BY MessageTypesIs DEF MessageInv
  <2>1. DOMAIN issued = 1 .. Len(issued) /\ DOMAIN delivered = 1 .. Len(delivered)
    BY <2>0 DEF Issues, Known
  <2>2. NothingVanishes
    <3>1. Range(channel) \cup Range(delivered) \subseteq 1 .. Len(issued)
      BY <2>0, KnownRange
    <3>2. InBatch \subseteq 1 .. Len(issued) /\ \A b \in Lists : Range(batch[b]) \subseteq InBatch
      <4>1. \A b \in Lists : Range(batch[b]) \subseteq 1 .. Len(issued)
        BY <2>0, KnownRange DEF BatchOK
      <4> QED
        BY <4>1 DEF InBatch
    <3>3. Underway \subseteq 1 .. Len(issued)
      BY <2>0 DEF Underway, WritersOK
    <3>4. ASSUME NEW x \in 1 .. Len(issued)
          PROVE  x \in Underway \cup Range(channel) \cup InBatch \cup Range(delivered) \cup lost
      <4>1. CASE \E p \in Senders : writing[p].msg = x
        <5>1. x # 0
          OBVIOUS
        <5> QED
          BY <4>1, <5>1 DEF Underway
      <4>2. CASE ~\E p \in Senders : writing[p].msg = x
        BY <2>0, <3>2, <4>2 DEF Everywhere
      <4> QED
        BY <4>1, <4>2
    <3> QED
      BY <2>0, <2>1, <3>1, <3>2, <3>3, <3>4 DEF NothingVanishes
  <2>3. ShownInOrder
    <3> SUFFICES ASSUME errors = 0, NEW i \in DOMAIN delivered, NEW j \in DOMAIN delivered, i < j,
                        To(delivered[i]) = To(delivered[j]),
                        issued[delivered[i]].by = issued[delivered[j]].by
                 PROVE  delivered[i] < delivered[j]
      BY DEF ShownInOrder
    <3>1. Sorted(issued, delivered)
      BY <2>0 DEF OrderInv
    <3> QED
      BY <2>1, <3>1 DEF Sorted, Ordered, To
  <2> QED
    BY <2>2, <2>3
<1> QED
  BY <1>1, MessageInit, MessageStep, PTL DEF MessagesSpec

\* The queue and the tokens keep their limits, and the loop sends only what it has.
BoundInv ==
  /\ Len(channel) <= ChanSize /\ tokens \in 0 .. MaxTokens
  /\ loop \in {"collect", "send"} => \E b \in Lists : batch[b] # <<>>

LEMMA BoundSend ==
  ASSUME MessageInv, BoundInv, NEW b \in Lists, NEW k \in Chunks(b), SendStep(b, k),
         Len(channel') <= ChanSize
  PROVE  BoundInv'
<1>1. tokens' \in 0 .. MaxTokens
  BY MessageConstants DEF BoundInv, SendStep
<1>2. ASSUME loop' \in {"collect", "send"} PROVE \E c \in Lists : batch'[c] # <<>>
  BY <1>2 DEF SendStep
<1> QED
  BY <1>1, <1>2 DEF BoundInv

LEMMA BoundStep == MessageInv /\ BoundInv /\ [MessagesNext]_messageVars => BoundInv'
<1> SUFFICES ASSUME MessageInv, BoundInv, [MessagesNext]_messageVars PROVE BoundInv'
  OBVIOUS
<1> DEFINE S == 1 .. Len(issued)
<1>0. channel \in Seq(S) /\ BatchOK
  BY MessageTypesIs DEF MessageInv, Known
<1> HIDE DEF S
<1>c. Len(channel) \in Nat /\ Len(channel) <= ChanSize /\ ChanSize \in Nat \ {0}
  BY <1>0, MessageNumbers DEF BoundInv
<1>a. \A x : ~Full(channel) => Len(Append(channel, x)) <= ChanSize
  BY <1>0, <1>c DEF Full
<1>t. channel # <<>> => Len(Tail(channel)) <= ChanSize
  BY <1>0, <1>c
<1>1. ASSUME UNCHANGED <<batch, loop, tokens>>, Len(channel') <= ChanSize PROVE BoundInv'
  BY <1>1 DEF BoundInv
<1>2. ASSUME NEW p \in Senders, NEW to \in Targets, QueueDiscordMessage(p, to) PROVE BoundInv'
  BY <1>1, <1>2, <1>c DEF QueueDiscordMessage
<1>3. ASSUME NEW p \in Senders, TryQueue(p) \/ DropOldest(p) \/ TryAgain(p) PROVE BoundInv'
  BY <1>1, <1>3, <1>a, <1>c, <1>t DEF TryQueue, DropOldest, TryAgain
<1>4. CASE Collect
  <2> DEFINE d == ListOf(Head(channel))
  <2>1. Len(channel') <= ChanSize /\ UNCHANGED tokens
    BY <1>4, <1>t DEF Collect
  <2>2. Head(channel) \in S
    BY <1>0, <1>4 DEF Collect
  <2>3. d \in Lists
    BY <2>2, IssuedIs DEF MessageInv, S
  <2>4. batch'[d] = Append(batch[d], Head(channel))
    BY <1>0, <1>4, <2>3 DEF Collect, BatchOK
  <2>5. batch[d] \in Seq(S)
    BY <1>0, <2>3 DEF BatchOK, Known, S
  <2>6. batch'[d] # <<>>
    <3> DEFINE s == batch[d]
    <3>1. s \in Seq(S)
      BY <2>5
    <3> HIDE DEF s
    <3>2. Len(Append(s, Head(channel))) = Len(s) + 1 /\ Len(s) \in Nat
      BY <2>2, <3>1
    <3>3. Len(batch'[d]) # Len(<<>>)
      BY <2>4, <3>2 DEF s
    <3> QED
      BY <3>3
  <2> QED
    BY <2>1, <2>3, <2>6 DEF BoundInv
<1>5. CASE SmartWriteDiscord
  <2>1. PICK b \in Lists : \E k \in Chunks(b) : SendStep(b, k) /\ UNCHANGED channel
    BY <1>5 DEF SmartWriteDiscord
  <2> QED
    BY <1>c, <2>1, BoundSend
<1>6. CASE SendFails
  <2>1. PICK b \in Lists : \E k \in Chunks(b) : SendStep(b, k) /\ UNCHANGED channel
    BY <1>6 DEF SendFails
  <2> QED
    BY <1>c, <2>1, BoundSend
<1>7. CASE SendRetried
  <2>1. PICK b \in Lists : \E k \in Chunks(b) :
          SendStep(b, k) /\ channel' = Requeued(channel, Chunk(b, k))
    BY <1>7 DEF SendRetried
  <2>2. PICK k \in Chunks(b) : SendStep(b, k) /\ channel' = Requeued(channel, Chunk(b, k))
    BY <2>1
  <2> DEFINE a == Chunk(b, k)
  <2>3. a \in Seq(S) /\ channel' = Requeued(channel, a)
    BY <2>2, SendFacts DEF Known, S
  <2> HIDE DEF a
  <2>4. Len(channel') <= ChanSize
    <3> DEFINE all == channel \o a
    <3>1. all \in Seq(S) /\ Len(all) \in Nat
      BY <1>0, <2>3
    <3>2. channel' = IF Len(all) <= ChanSize THEN all
                     ELSE SubSeq(all, Len(all) - ChanSize + 1, Len(all))
      BY <2>3 DEF Requeued
    <3> HIDE DEF all
    <3> QED
      BY <1>c, <3>1, <3>2
  <2> QED
    BY <2>2, <2>4, BoundSend
<1>8. CASE LoopEnds
  BY <1>8, <1>c DEF LoopEnds, BoundInv
<1>9. CASE CollectEnds \/ LoopRests \/ Refill \/ Session \/ UNCHANGED messageVars
  BY <1>9, MessageConstants
     DEF CollectEnds, LoopRests, Refill, Session, messageVars, BoundInv
<1> QED
  BY <1>2, <1>3, <1>4, <1>5, <1>6, <1>7, <1>8, <1>9 DEF MessagesNext

LEMMA BoundInit == MessagesInit => BoundInv
  BY MessageConstants DEF MessagesInit, BoundInv

LEMMA MessagesTyped == MessageInv /\ BoundInv => MessagesTypeOK
<1> SUFFICES ASSUME MessageInv, BoundInv PROVE MessagesTypeOK
  OBVIOUS
<1>0. /\ BatchOK /\ issued \in Issues /\ Known(issued, channel) /\ Known(issued, delivered)
      /\ lost \subseteq 1 .. Len(issued)
  BY MessageTypesIs DEF MessageInv
<1>1. DOMAIN issued = 1 .. Len(issued)
  BY <1>0 DEF Issues
<1>2. \A b \in Lists : Range(batch[b]) \subseteq 1 .. Len(issued)
  BY <1>0, KnownRange DEF BatchOK
<1>3. Range(channel) \cup InBatch \cup Range(delivered) \cup lost \subseteq DOMAIN issued
  BY <1>0, <1>1, <1>2, KnownRange DEF InBatch
<1>4. ASSUME loop = "send" PROVE InBatch # {}
  <2>1. PICK b \in Lists : batch[b] # <<>>
    BY <1>4 DEF BoundInv
  <2>2. Known(issued, batch[b])
    BY <1>0 DEF BatchOK
  <2>3. Range(batch[b]) # {}
    BY <2>1, <2>2, TailList
  <2> QED
    BY <2>3 DEF InBatch
<1> QED
  BY <1>3, <1>4 DEF MessagesTypeOK, BoundInv

\* Messages: the queue never holds more than it may, nothing is sent without a token,
\* and the loop that sends has something left to send.
THEOREM MessagesTypeCorrect == MessagesSpec => []MessagesTypeOK
  BY BoundInit, MessagesTyped, MessageInit, MessageStep, BoundStep, PTL DEF MessagesSpec
=============================================================================
