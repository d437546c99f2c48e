---------------------------- MODULE Inbound_proofs ----------------------------
(***************************************************************************)
(* What the limits on a peer's frames and on the event queue do, for every *)
(* value of the limits, frames of any size that come in pieces of any      *)
(* length, and any course of time:                                         *)
(*   - BytesAreCounted: the byte count of the queue is that of its events; *)
(*   - RateIsBounded: the frames of the last second are those of the       *)
(*     window and of the one before it;                                    *)
(*   - EndIsTrue: a session fails for a limit only when it is exceeded, one *)
(*     that ends with the stream has taken all of it, and the news of an   *)
(*     overflow find room.                                                 *)
(*                                                                         *)
(* The bytes that are on their way are described by the positions of the   *)
(* newlines in them (Carries): whatever pieces recv gives, the buffer and  *)
(* the wire together carry the frames that have not been taken.            *)
(***************************************************************************)
EXTENDS Inbound, TLAPS, Integers, SequenceTheorems, FiniteSetTheorems

(* Types. *)
Events == [text : Seq(Nat), size : Nat]
Phases == {"handshake", "handed", "reader", "failed", "left", "ended"}
Causes == {"none", "malformed", "large", "rate", "capacity", "eof", "lost", "closed"}

TypeOK ==
    /\ now \in Nat /\ sent \in Seq(Kinds) /\ wire \in Seq(Nat) /\ eof \in BOOLEAN
    /\ phase \in Phases /\ buffer \in Seq(Nat) /\ why \in Causes /\ done \in Nat
    /\ started \in Nat /\ started <= now /\ frames \in Nat /\ bytes \in Nat
    /\ inbox \in Seq(Events) /\ inboxBytes \in Nat /\ told \in BOOLEAN
    /\ recent \in Seq(Nat \X Nat)

\* What has been taken when the session's thread is where it is.
PhaseOK ==
    /\ Reading => why = "none"
    /\ phase = "handshake" => done < HandshakeFrames
    /\ phase \in {"handed", "reader"} => done >= HandshakeFrames
    /\ phase \in {"handshake", "handed"} => recent = <<>> /\ frames = 0 /\ bytes = 0

(* The stream. *)
\* The stream has the members of list after the n-th: the newline of the i-th is at
\* pos[i], and its bytes are before it.
Carries(stream, list, n, pos) ==
    /\ pos \in [n..Len(list) -> Nat]
    /\ pos[n] = 0 /\ pos[Len(list)] = Len(stream)
    /\ \A i, j \in n..Len(list) : i < j => pos[i] < pos[j]
    /\ \A i \in n + 1 .. Len(list) :
        /\ pos[i] = pos[i - 1] + list[i].raw + 1
        /\ stream[pos[i]] = Newline
        /\ \A p \in pos[i - 1] + 1 .. pos[i] - 1 : stream[p] = i

\* As long as the session reads, the buffer and the wire have every frame that has not
\* been taken.
StreamOK ==
    Reading => done <= Len(sent) /\ \E pos : Carries(buffer \o wire, sent, done, pos)

(* The rate. *)
Sum(k) == Total(SubSeq(Lengths(recent), 1, k))

\* The first k frames of the last second are those of the window before, the others
\* are the ones that the window has counted: all of them until it is over.
SplitAt(k) ==
    /\ \A i \in 1..k : recent[i][1] < started
    /\ \A i \in k + 1 .. Len(recent) : started <= recent[i][1]
    /\ k <= RateFrames /\ Sum(k) <= RateBytes
    /\ Len(recent) <= k + frames /\ Total(Lengths(recent)) <= Sum(k) + bytes
    /\ now < started + Second =>
          Len(recent) = k + frames /\ Total(Lengths(recent)) = Sum(k) + bytes

TimesOK ==
    /\ \A i \in 1..Len(recent) :
        recent[i][1] <= now /\ now < recent[i][1] + Second /\ recent[i][1] < started + Second
    /\ \A i, j \in 1..Len(recent) : i <= j => recent[i][1] <= recent[j][1]

RateOK ==
    /\ TimesOK
    /\ why \notin {"rate", "closed"} => frames <= RateFrames /\ bytes <= RateBytes
    /\ \E k \in 0..Len(recent) : SplitAt(k)

\* A queue that overflowed is empty until the news of it are queued, and these stay
\* in it until they are polled.
OverflowOK ==
    why = "capacity" =>
        /\ phase = "failed" => inbox = <<>> /\ inboxBytes = 0
        /\ phase \in {"left", "ended"} => told \/ Contains(inbox, Notice)

IInv ==
    /\ TypeOK /\ PhaseOK /\ StreamOK /\ RateOK /\ OverflowOK
    /\ BytesAreCounted /\ RateIsTrue /\ SizeIsTrue /\ EndIsComplete

-----------------------------------------------------------------------------
(* Induction. *)
\* Induction over the numbers, with the set of those for which it holds: counting
\* up would map the members up to n injectively to members without 0.
LEMMA SetInduction ==
  ASSUME NEW S, 0 \in S, \A n \in Nat : n \in S => n + 1 \in S
  PROVE  \A n \in Nat : n \in S
<1>. SUFFICES ASSUME NEW n \in Nat, n \notin S PROVE FALSE
  OBVIOUS
<1> DEFINE A == S \cap (0..n)
<1> DEFINE B == A \ {0}
<1> DEFINE f == [x \in A |-> x + 1]
<1>1. IsFiniteSet(0..n)
  BY FS_Interval
<1>2. IsFiniteSet(A)
  <2>1. A \in SUBSET (0..n)
    OBVIOUS
  <2>. QED BY <1>1, <2>1, FS_Subset
<1>3. 0 \in A /\ f \in [A -> B]
  OBVIOUS
<1>4. \A x, y \in A : f[x] = f[y] => x = y
  OBVIOUS
<1>. HIDE DEF A, f
<1>5. IsFiniteSet(B) /\ Cardinality(B) = Cardinality(A) - 1 /\ Cardinality(A) \in Nat
  BY <1>2, <1>3, FS_RemoveElement, FS_CardinalityType
<1>6. Cardinality(B) < Cardinality(A)
  BY <1>5
<1>. HIDE DEF B
<1>. QED BY <1>2, <1>3, <1>4, <1>5, <1>6, FS_PigeonHole

\* A set of the first numbers that is not empty has a least and a greatest member.
LEMMA Extremes ==
  ASSUME NEW n \in Nat, NEW T \in SUBSET (0..n), T # {}
  PROVE  /\ Min(T) \in T /\ \A y \in T : Min(T) <= y
         /\ Max(T) \in T /\ \A y \in T : y <= Max(T)
<1> DEFINE Lowest(U) == \E x \in U : \A y \in U : x <= y
<1> DEFINE Highest(U) == \E x \in U : \A y \in U : y <= x
<1> DEFINE S == {m \in Nat : \A U \in SUBSET (0..m) : U # {} => Lowest(U) /\ Highest(U)}
<1>1. 0 \in S
  <2>1. ASSUME NEW U \in SUBSET (0..0), U # {} PROVE Lowest(U) /\ Highest(U)
    <3>1. \A x \in U : x = 0
      OBVIOUS
    <3>2. 0 \in U
      BY <2>1, <3>1
    <3>. QED BY <3>1, <3>2
  <2>. QED BY <2>1
<1>2. ASSUME NEW m \in Nat, m \in S PROVE m + 1 \in S
  <2>. SUFFICES ASSUME NEW U \in SUBSET (0..m + 1), U # {}
                PROVE  Lowest(U) /\ Highest(U)
    OBVIOUS
  <2>1. CASE m + 1 \notin U
    <3>1. U \in SUBSET (0..m)
      BY <2>1
    <3>. QED BY <1>2, <3>1
  <2>2. CASE m + 1 \in U
    <3>1. Highest(U)
      BY <2>2
    <3>2. CASE U = {m + 1}
      BY <3>1, <3>2
    <3>3. CASE U # {m + 1}
      <4>1. U \ {m + 1} \in SUBSET (0..m) /\ U \ {m + 1} # {}
        BY <3>3
      <4>2. PICK x \in U \ {m + 1} : \A y \in U \ {m + 1} : x <= y
        BY <1>2, <4>1
      <4>3. x <= m + 1
        BY <4>1
      <4>. QED BY <3>1, <4>2, <4>3
    <3>. QED BY <3>2, <3>3
  <2>. QED BY <2>1, <2>2
<1>3. \A m \in Nat : m \in S
  <2>. HIDE DEF S
  <2>. QED BY <1>1, <1>2, SetInduction
<1>4. Lowest(T) /\ Highest(T)
  BY <1>3
<1>5. Min(T) \in T /\ \A y \in T : Min(T) <= y
  BY <1>4 DEF Min
<1>6. Max(T) \in T /\ \A y \in T : Max(T) >= y
  BY <1>4 DEF Max
<1>7. T \subseteq Nat
  OBVIOUS
<1>. QED BY <1>5, <1>6, <1>7

-----------------------------------------------------------------------------
(* Sums. *)
\* p counts up the first m members of s, or all of them.
CountsTo(s, m, p) ==
    /\ p \in [0..m -> Nat] /\ p[0] = 0
    /\ \A n \in 1..m : p[n] = p[n - 1] + s[n]
Counts(s, p) == CountsTo(s, Len(s), p)

\* There is one such p.
LEMMA CountsExist ==
  ASSUME NEW s \in Seq(Nat)
  PROVE  \E p : Counts(s, p)
<1>0. Len(s) \in Nat /\ \A n \in 1..Len(s) : s[n] \in Nat
  BY LenProperties, ElementOfSeq
<1> DEFINE S == {m \in Nat : m <= Len(s) => \E p : CountsTo(s, m, p)}
<1>1. 0 \in S
  <2>1. CountsTo(s, 0, [i \in 0..0 |-> 0])
    BY DEF CountsTo
  <2>. QED BY <2>1
<1>2. ASSUME NEW m \in Nat, m \in S PROVE m + 1 \in S
  <2>. SUFFICES ASSUME m + 1 <= Len(s) PROVE \E p : CountsTo(s, m + 1, p)
    OBVIOUS
  <2>1. PICK p : CountsTo(s, m, p)
    BY <1>0, <1>2
  <2> DEFINE q == [n \in 0..m + 1 |-> IF n = m + 1 THEN p[m] + s[m + 1] ELSE p[n]]
  <2>2. p[m] + s[m + 1] \in Nat
    BY <1>0, <2>1 DEF CountsTo
  <2>3. q \in [0..m + 1 -> Nat] /\ q[0] = 0
    BY <2>1, <2>2 DEF CountsTo
  <2>4. ASSUME NEW n \in 1..m + 1 PROVE q[n] = q[n - 1] + s[n]
    <3>1. CASE n = m + 1
      BY <3>1
    <3>2. CASE n # m + 1
      <4>1. n \in 1..m /\ n - 1 \in 0..m
        BY <3>2
      <4>. QED BY <2>1, <4>1 DEF CountsTo
    <3>. QED BY <3>1, <3>2
  <2>5. CountsTo(s, m + 1, q)
    <3>. HIDE DEF q
    <3>. QED BY <2>3, <2>4 DEF CountsTo
  <2>. QED BY <2>5
<1>3. \A m \in Nat : m \in S
  <2>. HIDE DEF S
  <2>. QED BY <1>1, <1>2, SetInduction
<1>4. \E p : CountsTo(s, Len(s), p)
  BY <1>0, <1>3
<1>. QED BY <1>4 DEF Counts

\* What Total computes is the last of them.
LEMMA TotalIs ==
  ASSUME NEW s \in Seq(Nat), NEW p, Counts(s, p)
  PROVE  Total(s) = p[Len(s)]
<1>0. Len(s) \in Nat
  BY LenProperties
<1> DEFINE Step(g, n) == IF n = 0 THEN 0 ELSE g[n - 1] + s[n]
<1> DEFINE part == CHOOSE g : g = [n \in 0..Len(s) |-> Step(g, n)]
<1>1. p = [n \in 0..Len(s) |-> Step(p, n)]
  <2>1. ASSUME NEW n \in 0..Len(s) PROVE p[n] = Step(p, n)
    BY <1>0, <2>1 DEF Counts, CountsTo
  <2>2. p = [n \in 0..Len(s) |-> p[n]]
    BY DEF Counts, CountsTo
  <2>. HIDE DEF Step
  <2>. QED BY <2>1, <2>2
<1>2. part = [n \in 0..Len(s) |-> Step(part, n)]
  <2>1. \E g : g = [n \in 0..Len(s) |-> Step(g, n)]
    BY <1>1
  <2>. HIDE DEF Step
  <2>. QED BY <2>1
<1>3. Total(s) = part[Len(s)]
  BY DEF Total
<1>4. \A n \in 0..Len(s) : part[n] = Step(part, n)
  <2>. HIDE DEF Step, part
  <2>. QED BY <1>2
<1>. HIDE DEF part
<1> DEFINE S == {n \in Nat : n <= Len(s) => part[n] = p[n]}
<1>5. 0 \in S
  BY <1>0, <1>4 DEF Counts, CountsTo
<1>6. ASSUME NEW n \in Nat, n \in S PROVE n + 1 \in S
  <2>. SUFFICES ASSUME n + 1 <= Len(s) PROVE part[n + 1] = p[n + 1]
    OBVIOUS
  <2>1. /\ n + 1 \in 1..Len(s) /\ n + 1 \in 0..Len(s) /\ n + 1 # 0 /\ (n + 1) - 1 = n
        /\ part[n] = p[n]
    BY <1>0, <1>6
  <2>2. part[n + 1] = part[n] + s[n + 1]
    BY <1>4, <2>1
  <2>. QED BY <2>1, <2>2 DEF Counts, CountsTo
<1>7. \A n \in Nat : n \in S
  <2>. HIDE DEF S
  <2>. QED BY <1>5, <1>6, SetInduction
<1>. QED BY <1>0, <1>3, <1>7

\* The total of the first n.
Prefix(s, n) == Total(SubSeq(s, 1, n))

LEMMA PrefixIs ==
  ASSUME NEW s \in Seq(Nat), NEW p, Counts(s, p)
  PROVE  \A n \in 0..Len(s) : Prefix(s, n) = p[n]
<1>. SUFFICES ASSUME NEW n \in 0..Len(s) PROVE Total(SubSeq(s, 1, n)) = p[n]
  BY DEF Prefix
<1>0. Len(s) \in Nat /\ \A i \in 1..Len(s) : s[i] \in Nat
  BY LenProperties, ElementOfSeq
<1>1. n \in Nat /\ \A i \in 1..n : i \in 1..Len(s) /\ s[i] \in Nat
  BY <1>0
<1>2. /\ SubSeq(s, 1, n) \in Seq(Nat) /\ Len(SubSeq(s, 1, n)) = n
      /\ \A i \in 1..n : SubSeq(s, 1, n)[i] = s[i]
  BY <1>1, SubSeqProperties
<1> DEFINE q == [i \in 0..n |-> p[i]]
<1>3. Counts(SubSeq(s, 1, n), q) /\ q[n] = p[n]
  <2>1. \A i \in 0..n : i \in 0..Len(s)
    BY <1>0, <1>1
  <2>0. (\A i \in 0..n : p[i] \in Nat) /\ 0 \in 0..n /\ n \in 0..n /\ p[0] = 0
    <3>1. p[0] = 0 /\ \A i \in 0..Len(s) : p[i] \in Nat
      BY DEF Counts, CountsTo
    <3>. QED BY <1>1, <2>1, <3>1
  <2>2. q \in [0..n -> Nat] /\ q[0] = 0 /\ q[n] = p[n]
    BY <2>0
  <2>3. ASSUME NEW i \in 1..n PROVE q[i] = q[i - 1] + SubSeq(s, 1, n)[i]
    <3>1. i \in 1..Len(s) /\ i \in 0..n /\ i - 1 \in 0..n
      BY <1>1
    <3>. QED BY <1>2, <3>1 DEF Counts, CountsTo
  <2>. HIDE DEF q
  <2>. QED BY <1>2, <2>2, <2>3 DEF Counts, CountsTo
<1>. HIDE DEF q
<1>. QED BY <1>2, <1>3, TotalIs

\* Prefixes count up to the total.
LEMMA PrefixCounts ==
  ASSUME NEW s \in Seq(Nat)
  PROVE  /\ Counts(s, [n \in 0..Len(s) |-> Prefix(s, n)])
         /\ \A n \in 0..Len(s) : Prefix(s, n) \in Nat
         /\ Prefix(s, 0) = 0 /\ Prefix(s, Len(s)) = Total(s) /\ Total(s) \in Nat
<1>0. Len(s) \in Nat
  BY LenProperties
<1>1. PICK p : Counts(s, p)
  BY CountsExist
<1>2. \A n \in 0..Len(s) : Prefix(s, n) = p[n] /\ p[n] \in Nat
  <2>1. \A n \in 0..Len(s) : Prefix(s, n) = p[n]
    BY <1>1, PrefixIs
  <2>. QED BY <1>1, <2>1 DEF Counts, CountsTo
<1>3. [n \in 0..Len(s) |-> Prefix(s, n)] = p
  <2>1. p = [n \in 0..Len(s) |-> p[n]]
    BY <1>1 DEF Counts, CountsTo
  <2>. QED BY <1>2, <2>1
<1>4. Total(s) = p[Len(s)] /\ p[0] = 0
  BY <1>1, TotalIs DEF Counts, CountsTo
<1>. QED BY <1>0, <1>1, <1>2, <1>3, <1>4

\* They grow.
LEMMA PrefixGrows ==
  ASSUME NEW s \in Seq(Nat), NEW m \in 0..Len(s), NEW n \in 0..Len(s), m <= n
  PROVE  Prefix(s, m) <= Prefix(s, n)
<1>0. Len(s) \in Nat /\ (\A i \in 1..Len(s) : s[i] \in Nat) /\ m \in Nat
  BY LenProperties, ElementOfSeq
<1>1. \A i \in 0..Len(s) : Prefix(s, i) \in Nat
  BY PrefixCounts
<1>2. \A i \in 1..Len(s) : Prefix(s, i) = Prefix(s, i - 1) + s[i]
  <2>. SUFFICES ASSUME NEW i \in 1..Len(s) PROVE Prefix(s, i) = Prefix(s, i - 1) + s[i]
    OBVIOUS
  <2>1. i \in 0..Len(s) /\ i - 1 \in 0..Len(s)
    BY <1>0
  <2>. QED BY <2>1, PrefixCounts DEF Counts, CountsTo
<1> DEFINE S == {d \in Nat : m + d <= Len(s) => Prefix(s, m) <= Prefix(s, m + d)}
<1>3. 0 \in S
  BY <1>0, <1>1
<1>4. ASSUME NEW d \in Nat, d \in S PROVE d + 1 \in S
  <2>. SUFFICES ASSUME m + (d + 1) <= Len(s) PROVE Prefix(s, m) <= Prefix(s, m + (d + 1))
    OBVIOUS
  <2>1. /\ m + (d + 1) \in 1..Len(s) /\ m + (d + 1) - 1 = m + d /\ m + d \in 0..Len(s)
        /\ Prefix(s, m) <= Prefix(s, m + d)
    BY <1>0, <1>4
  <2>2. Prefix(s, m + (d + 1)) = Prefix(s, m + d) + s[m + (d + 1)]
    BY <1>2, <2>1
  <2>. QED BY <1>0, <1>1, <2>1, <2>2
<1>5. \A d \in Nat : d \in S
  <2>. HIDE DEF S
  <2>. QED BY <1>3, <1>4, SetInduction
<1>6. n - m \in Nat /\ m + (n - m) = n
  BY <1>0
<1>7. n - m \in S
  <2>. HIDE DEF S
  <2>. QED BY <1>5, <1>6
<1>8. n <= Len(s)
  BY <1>0
<1>. QED BY <1>6, <1>7, <1>8

\* What is behind the first d has the total of the rest.
LEMMA PrefixOfRest ==
  ASSUME NEW s \in Seq(Nat), NEW d \in 0..Len(s)
  PROVE  LET t == SubSeq(s, d + 1, Len(s))
         IN  /\ t \in Seq(Nat) /\ Len(t) = Len(s) - d
             /\ \A n \in 0..Len(s) - d : Prefix(t, n) = Prefix(s, n + d) - Prefix(s, d)
             /\ Total(t) = Total(s) - Prefix(s, d)
<1> DEFINE t == SubSeq(s, d + 1, Len(s))
<1>0. Len(s) \in Nat /\ (\A i \in 1..Len(s) : s[i] \in Nat) /\ d \in Nat
  BY LenProperties, ElementOfSeq
<1>1. /\ t \in Seq(Nat) /\ Len(t) = Len(s) - d
      /\ \A i \in 1..Len(s) - d : t[i] = s[d + i] /\ d + i \in 1..Len(s)
  <2>1. \A i \in d + 1 .. Len(s) : s[i] \in Nat
    BY <1>0
  <2>2. /\ t \in Seq(Nat) /\ Len(t) = (IF d + 1 <= Len(s) THEN Len(s) - (d + 1) + 1 ELSE 0)
        /\ \A i \in 1..Len(s) - (d + 1) + 1 : t[i] = s[(d + 1) + i - 1]
    BY <1>0, <2>1, SubSeqProperties
  <2>. HIDE DEF t
  <2>. QED BY <1>0, <2>2
<1>. HIDE DEF t
<1> DEFINE p == [n \in 0..Len(t) |-> Prefix(s, n + d) - Prefix(s, d)]
<1>2. ASSUME NEW n \in 0..Len(t)
      PROVE  /\ n + d \in 0..Len(s) /\ Prefix(s, d) <= Prefix(s, n + d)
             /\ Prefix(s, d) \in Nat /\ Prefix(s, n + d) \in Nat
  <2>1. n + d \in 0..Len(s) /\ d <= n + d
    BY <1>0, <1>1
  <2>. QED BY <1>0, <2>1, PrefixGrows, PrefixCounts
<1>3. p \in [0..Len(t) -> Nat] /\ p[0] = 0
  <2>1. \A n \in 0..Len(t) : Prefix(s, n + d) - Prefix(s, d) \in Nat
    BY <1>2
  <2>2. 0 \in 0..Len(t) /\ 0 + d = d
    BY <1>0, <1>1
  <2>3. p[0] = 0
    BY <1>2, <2>2
  <2>. QED BY <2>1, <2>3
<1>4. ASSUME NEW n \in 1..Len(t) PROVE p[n] = p[n - 1] + t[n]
  <2>1. /\ n \in 0..Len(t) /\ n - 1 \in 0..Len(t) /\ n + d \in 1..Len(s) /\ n + d \in 0..Len(s)
        /\ (n - 1) + d = (n + d) - 1 /\ (n + d) - 1 \in 0..Len(s) /\ t[n] = s[n + d]
    BY <1>0, <1>1
  <2>2. Prefix(s, n + d) = Prefix(s, (n + d) - 1) + s[n + d]
    BY <2>1, PrefixCounts DEF Counts, CountsTo
  <2>3. p[n] = Prefix(s, n + d) - Prefix(s, d) /\ p[n - 1] = Prefix(s, (n + d) - 1) - Prefix(s, d)
    BY <2>1
  <2>4. /\ Prefix(s, d) \in Nat /\ Prefix(s, (n + d) - 1) \in Nat /\ Prefix(s, n + d) \in Nat
        /\ s[n + d] \in Nat
    <3>1. d \in 0..Len(s)
      OBVIOUS
    <3>. QED BY <1>0, <2>1, <3>1, PrefixCounts
  <2>5. Prefix(s, n + d) - Prefix(s, d) = (Prefix(s, (n + d) - 1) - Prefix(s, d)) + s[n + d]
    BY <2>2, <2>4
  <2>6. t[n] = s[n + d]
    BY <2>1
  <2>. HIDE DEF p
  <2>. QED BY <2>3, <2>5, <2>6
<1>5. Counts(t, p)
  <2>. HIDE DEF p
  <2>. QED BY <1>3, <1>4 DEF Counts, CountsTo
<1>6. \A n \in 0..Len(t) : Prefix(t, n) = p[n]
  <2>. HIDE DEF p
  <2>. QED BY <1>1, <1>5, PrefixIs
<1>7. Total(t) = p[Len(t)] /\ Len(t) + d = Len(s) /\ Len(t) \in 0..Len(t)
  <2>1. Total(t) = p[Len(t)]
    <3>. HIDE DEF p
    <3>. QED BY <1>1, <1>5, TotalIs
  <2>2. Len(t) + d = Len(s) /\ Len(t) \in 0..Len(t)
    BY <1>0, <1>1
  <2>. QED BY <2>1, <2>2
<1>8. Prefix(s, Len(s)) = Total(s)
  BY PrefixCounts
<1>. QED BY <1>1, <1>6, <1>7, <1>8 DEF t

\* A last member adds to the total and to no prefix.
LEMMA PrefixOfAppend ==
  ASSUME NEW s \in Seq(Nat), NEW x \in Nat
  PROVE  /\ Append(s, x) \in Seq(Nat)
         /\ \A n \in 0..Len(s) : Prefix(Append(s, x), n) = Prefix(s, n)
         /\ Total(Append(s, x)) = Total(s) + x
<1> DEFINE t == Append(s, x)
<1>0. Len(s) \in Nat /\ Total(s) \in Nat
  BY LenProperties, PrefixCounts
<1>1. /\ t \in Seq(Nat) /\ Len(t) = Len(s) + 1 /\ t[Len(s) + 1] = x
      /\ \A i \in 1..Len(s) : t[i] = s[i]
  BY <1>0, AppendProperties
<1>. HIDE DEF t
<1> DEFINE p == [n \in 0..Len(s) + 1 |-> IF n = Len(s) + 1 THEN Total(s) + x ELSE Prefix(s, n)]
<1>2. p \in [0..Len(t) -> Nat] /\ p[0] = 0
  <2>1. \A n \in 0..Len(s) + 1 : n = Len(s) + 1 \/ n \in 0..Len(s)
    BY <1>0
  <2>2. \A n \in 0..Len(s) : Prefix(s, n) \in Nat
    BY PrefixCounts
  <2>3. p \in [0..Len(s) + 1 -> Nat]
    BY <1>0, <2>1, <2>2
  <2>4. p[0] = Prefix(s, 0) /\ Prefix(s, 0) = 0
    BY SMTT(30), <1>0, PrefixCounts
  <2>. HIDE DEF p
  <2>. QED BY <1>1, <2>3, <2>4
<1>3. ASSUME NEW n \in 1..Len(t) PROVE p[n] = p[n - 1] + t[n]
  <2>1. CASE n = Len(s) + 1
    <3>1. p[n] = Total(s) + x /\ p[n - 1] = Prefix(s, Len(s)) /\ t[n] = x
      BY <1>0, <1>1, <2>1
    <3>. QED BY <3>1, PrefixCounts
  <2>2. CASE n # Len(s) + 1
    <3>1. n \in 1..Len(s) /\ n \in 0..Len(s) /\ n - 1 \in 0..Len(s)
      BY <1>0, <1>1, <2>2
    <3>2. p[n] = Prefix(s, n) /\ p[n - 1] = Prefix(s, n - 1) /\ t[n] = s[n]
      BY SMTT(30), <1>0, <1>1, <3>1
    <3>. QED BY <3>1, <3>2, PrefixCounts DEF Counts, CountsTo
  <2>. QED BY <2>1, <2>2
<1>4. Counts(t, p)
  <2>. HIDE DEF p
  <2>. QED BY <1>2, <1>3 DEF Counts, CountsTo
<1>5. (\A n \in 0..Len(t) : Prefix(t, n) = p[n]) /\ Total(t) = p[Len(t)]
  <2>. HIDE DEF p
  <2>. QED BY <1>1, <1>4, PrefixIs, TotalIs
<1>6. \A n \in 0..Len(s) : n \in 0..Len(t) /\ p[n] = Prefix(s, n)
  BY <1>0, <1>1
<1>7. p[Len(t)] = Total(s) + x
  BY <1>0, <1>1
<1>. HIDE DEF p
<1>. QED BY <1>1, <1>5, <1>6, <1>7 DEF t

-----------------------------------------------------------------------------
(* The stream. *)
\* What is before and what is behind a place of a sequence.
LEMMA Pieces ==
  ASSUME NEW S, NEW s \in Seq(S), NEW m \in 0..Len(s)
  PROVE  /\ Len(s) \in Nat /\ m \in Nat
         /\ SubSeq(s, 1, m) \in Seq(S) /\ Len(SubSeq(s, 1, m)) = m
         /\ \A i \in 1..m : SubSeq(s, 1, m)[i] = s[i] /\ i \in 1..Len(s)
         /\ SubSeq(s, m + 1, Len(s)) \in Seq(S) /\ Len(SubSeq(s, m + 1, Len(s))) = Len(s) - m
         /\ \A i \in 1..Len(s) - m :
              SubSeq(s, m + 1, Len(s))[i] = s[m + i] /\ m + i \in 1..Len(s)
<1>1. Len(s) \in Nat /\ m \in Nat /\ \A i \in 1..Len(s) : s[i] \in S
  <2>1. Len(s) \in Nat
    BY LenProperties
  <2>2. \A i \in 1..Len(s) : s[i] \in S
    BY ElementOfSeq
  <2>. QED BY <2>1, <2>2
<1>2. /\ SubSeq(s, 1, m) \in Seq(S) /\ Len(SubSeq(s, 1, m)) = m
      /\ \A i \in 1..m : SubSeq(s, 1, m)[i] = s[i] /\ i \in 1..Len(s)
  <2>1. \A i \in 1..m : i \in 1..Len(s) /\ s[i] \in S
    BY <1>1
  <2>. QED BY <1>1, <2>1, SubSeqProperties
<1>3. /\ SubSeq(s, m + 1, Len(s)) \in Seq(S)
      /\ Len(SubSeq(s, m + 1, Len(s))) = (IF m + 1 <= Len(s) THEN Len(s) - (m + 1) + 1 ELSE 0)
      /\ \A i \in 1..Len(s) - (m + 1) + 1 : SubSeq(s, m + 1, Len(s))[i] = s[(m + 1) + i - 1]
  <2>1. \A i \in m + 1 .. Len(s) : s[i] \in S
    BY <1>1
  <2>. QED BY <1>1, <2>1, SubSeqProperties
<1>4. Len(SubSeq(s, m + 1, Len(s))) = Len(s) - m
  BY <1>1, <1>3
<1>5. \A i \in 1..Len(s) - m :
        SubSeq(s, m + 1, Len(s))[i] = s[m + i] /\ m + i \in 1..Len(s)
  <2>. SUFFICES ASSUME NEW i \in 1..Len(s) - m
                PROVE  SubSeq(s, m + 1, Len(s))[i] = s[m + i] /\ m + i \in 1..Len(s)
    OBVIOUS
  <2>1. /\ i \in 1..Len(s) - (m + 1) + 1 /\ (m + 1) + i - 1 = m + i /\ m + i \in 1..Len(s)
    BY <1>1
  <2>. QED BY <1>3, <2>1
<1>. QED BY <1>1, <1>2, <1>3, <1>4, <1>5

\* Three pieces are put together in any order.
LEMMA ThreePieces ==
  ASSUME NEW x \in Seq(Nat), NEW y \in Seq(Nat), NEW z \in Seq(Nat)
  PROVE  (x \o y) \o z = x \o (y \o z)
BY SMTT(30), ConcatAssociative

\* A piece that moves from the wire to the buffer leaves the stream what it is, and
\* what is dropped from the buffer is dropped from the stream.
LEMMA StreamPieces ==
  ASSUME NEW b \in Seq(Nat), NEW w \in Seq(Nat)
  PROVE  /\ \A m \in 0..Len(w) :
              (b \o SubSeq(w, 1, m)) \o SubSeq(w, m + 1, Len(w)) = b \o w
         /\ \A m \in 0..Len(b) :
              SubSeq(b, m + 1, Len(b)) \o w = SubSeq(b \o w, m + 1, Len(b \o w))
<1>0. /\ Len(b) \in Nat /\ Len(w) \in Nat
      /\ b \o w \in Seq(Nat) /\ Len(b \o w) = Len(b) + Len(w)
      /\ \A i \in 1..Len(b) + Len(w) :
            (b \o w)[i] = IF i <= Len(b) THEN b[i] ELSE w[i - Len(b)]
  BY LenProperties, ConcatProperties
<1>1. ASSUME NEW m \in 0..Len(w)
      PROVE  (b \o SubSeq(w, 1, m)) \o SubSeq(w, m + 1, Len(w)) = b \o w
  <2> DEFINE u == SubSeq(w, 1, m)
  <2> DEFINE v == SubSeq(w, m + 1, Len(w))
  <2>1. /\ u \in Seq(Nat) /\ Len(u) = m /\ (\A i \in 1..m : u[i] = w[i]) /\ m \in Nat
        /\ v \in Seq(Nat) /\ Len(v) = Len(w) - m /\ \A i \in 1..Len(w) - m : v[i] = w[m + i]
    BY Pieces
  <2>. HIDE DEF u, v
  <2>2. u \o v = w
    <3>1. /\ u \o v \in Seq(Nat) /\ Len(u \o v) = Len(w)
          /\ \A i \in 1..Len(w) : (u \o v)[i] = IF i <= m THEN u[i] ELSE v[i - m]
      BY SMTT(30), <1>0, <2>1, ConcatProperties
    <3>2. ASSUME NEW i \in 1..Len(w) PROVE (u \o v)[i] = w[i]
      <4>1. CASE i <= m
        BY <1>0, <2>1, <3>1, <4>1
      <4>2. CASE ~(i <= m)
        <5>1. i - m \in 1..Len(w) - m /\ m + (i - m) = i
          BY <1>0, <2>1, <4>2
        <5>. QED BY <2>1, <3>1, <4>2, <5>1
      <4>. QED BY <4>1, <4>2
    <3>. QED BY <3>1, <3>2, SeqEqual
  <2>3. (b \o u) \o v = b \o (u \o v)
    BY <2>1, ThreePieces
  <2>4. (b \o u) \o v = b \o w
    BY <2>2, <2>3
  <2>. QED BY <2>4 DEF u, v
<1>2. ASSUME NEW m \in 0..Len(b)
      PROVE  SubSeq(b, m + 1, Len(b)) \o w = SubSeq(b \o w, m + 1, Len(b \o w))
  <2> DEFINE u == SubSeq(b, m + 1, Len(b))
  <2> DEFINE s == b \o w
  <2> DEFINE t == SubSeq(s, m + 1, Len(s))
  <2>1. /\ u \in Seq(Nat) /\ Len(u) = Len(b) - m /\ m \in Nat
        /\ \A i \in 1..Len(b) - m : u[i] = b[m + i]
    BY SMTT(30), Pieces
  <2>2. /\ t \in Seq(Nat) /\ Len(t) = Len(s) - m
        /\ \A i \in 1..Len(s) - m : t[i] = s[m + i]
    <3>1. s \in Seq(Nat) /\ m \in 0..Len(s)
      BY <1>0, <2>1
    <3>2. \A x \in Seq(Nat) : \A k \in 0..Len(x) :
            /\ SubSeq(x, k + 1, Len(x)) \in Seq(Nat)
            /\ Len(SubSeq(x, k + 1, Len(x))) = Len(x) - k
            /\ \A i \in 1..Len(x) - k : SubSeq(x, k + 1, Len(x))[i] = x[k + i]
      BY SMTT(30), Pieces
    <3>. HIDE DEF s
    <3>. QED BY <3>1, <3>2
  <2>. HIDE DEF u, t
  <2>3. /\ u \o w \in Seq(Nat) /\ Len(u \o w) = Len(u) + Len(w)
        /\ \A i \in 1..Len(u) + Len(w) :
              (u \o w)[i] = IF i <= Len(u) THEN u[i] ELSE w[i - Len(u)]
    <3>1. u \in Seq(Nat) /\ w \in Seq(Nat)
      BY <2>1
    <3>. QED BY <3>1, ConcatProperties
  <2>4. Len(t) = Len(u \o w) /\ Len(u \o w) \in Nat
    BY <1>0, <2>1, <2>2, <2>3
  <2>5. ASSUME NEW i \in 1..Len(u \o w) PROVE (u \o w)[i] = t[i]
    <3>1. i \in 1..Len(s) - m /\ m + i \in 1..Len(b) + Len(w) /\ t[i] = s[m + i]
          /\ i \in 1..Len(u) + Len(w)
      BY <1>0, <2>1, <2>2, <2>3
    <3>2. CASE i <= Len(u)
      <4>1. m + i <= Len(b) /\ i \in 1..Len(b) - m
        BY <1>0, <2>1, <3>2
      <4>2. (u \o w)[i] = b[m + i] /\ s[m + i] = b[m + i]
        BY <1>0, <2>1, <2>3, <3>1, <3>2, <4>1
      <4>. QED BY <3>1, <4>2
    <3>3. CASE ~(i <= Len(u))
      <4>1. ~(m + i <= Len(b)) /\ (m + i) - Len(b) = i - Len(u)
        BY <1>0, <2>1, <3>3
      <4>2. (u \o w)[i] = w[i - Len(u)] /\ s[m + i] = w[(m + i) - Len(b)]
        BY <1>0, <2>3, <3>1, <3>3, <4>1
      <4>. QED BY <3>1, <4>1, <4>2
    <3>. QED BY <3>2, <3>3
  <2>6. u \o w = t
    BY <2>2, <2>3, <2>4, <2>5, SeqEqual
  <2>. QED BY <2>6 DEF u, t
<1>. QED BY <1>1, <1>2

\* The frame that comes first in a stream, and the stream behind it.
LEMMA FirstFrame ==
  ASSUME NEW st \in Seq(Nat), NEW list \in Seq(Kinds), NEW n \in Nat, n <= Len(list),
         NEW pos, Carries(st, list, n, pos)
  PROVE  /\ Len(st) # 0 => n + 1 \in 1..Len(list)
         /\ n + 1 \in 1..Len(list) =>
              LET e == list[n + 1].raw + 1
              IN  /\ e \in 1..Len(st) /\ st[e] = Newline /\ \A p \in 1..e - 1 : st[p] = n + 1
                  /\ list[n + 1].raw \in Nat /\ list[n + 1].event \in Nat
                  /\ \E pos2 : Carries(SubSeq(st, e + 1, Len(st)), list, n + 1, pos2)
<1>0. /\ Len(st) \in Nat /\ Len(list) \in Nat
      /\ \A i \in 1..Len(list) : list[i].raw \in Nat /\ list[i].event \in Nat
  <2>1. Len(st) \in Nat /\ Len(list) \in Nat
    BY LenProperties
  <2>2. ASSUME NEW i \in 1..Len(list) PROVE list[i].raw \in Nat /\ list[i].event \in Nat
    <3>1. list[i] \in Kinds
      BY ElementOfSeq
    <3>. QED BY <3>1, KindsAssumption
  <2>. QED BY <2>1, <2>2
<1>1. /\ pos \in [n..Len(list) -> Nat] /\ pos[n] = 0 /\ pos[Len(list)] = Len(st)
      /\ \A i, j \in n..Len(list) : i < j => pos[i] < pos[j]
  BY DEF Carries
<1>2. \A i \in n + 1 .. Len(list) :
        /\ pos[i] = pos[i - 1] + list[i].raw + 1
        /\ st[pos[i]] = Newline
        /\ \A p \in pos[i - 1] + 1 .. pos[i] - 1 : st[p] = i
  BY DEF Carries
<1>3. Len(st) # 0 => n + 1 \in 1..Len(list)
  BY <1>0, <1>1
<1>4. ASSUME n + 1 \in 1..Len(list)
      PROVE  LET e == list[n + 1].raw + 1
             IN  /\ e \in 1..Len(st) /\ st[e] = Newline /\ \A p \in 1..e - 1 : st[p] = n + 1
                 /\ list[n + 1].raw \in Nat /\ list[n + 1].event \in Nat
                 /\ \E pos2 : Carries(SubSeq(st, e + 1, Len(st)), list, n + 1, pos2)
  <2> DEFINE e == list[n + 1].raw + 1
  <2>1. /\ n + 1 \in n + 1 .. Len(list) /\ (n + 1) - 1 = n /\ n \in n..Len(list)
        /\ n + 1 \in n..Len(list) /\ Len(list) \in n..Len(list)
        /\ list[n + 1].raw \in Nat /\ list[n + 1].event \in Nat /\ e \in Nat
    BY <1>0, <1>4
  <2>2. pos[n + 1] = e /\ st[e] = Newline /\ \A p \in 1..e - 1 : st[p] = n + 1
    <3>1. pos[n + 1] = pos[n] + list[n + 1].raw + 1
      BY <1>2, <2>1
    <3>2. pos[n + 1] = e /\ pos[n] + 1 = 1
      BY <1>1, <2>1, <3>1
    <3>. HIDE DEF e
    <3>. QED BY <1>2, <2>1, <3>2
  <2>3. \A i \in n + 1 .. Len(list) : i \in n..Len(list) /\ pos[i] \in Nat /\ e <= pos[i]
    <3>. SUFFICES ASSUME NEW i \in n + 1 .. Len(list)
                  PROVE  i \in n..Len(list) /\ pos[i] \in Nat /\ e <= pos[i]
      OBVIOUS
    <3>1. i \in n..Len(list) /\ pos[i] \in Nat
      BY <1>0, <1>1
    <3>2. i = n + 1 \/ n + 1 < i
      BY <1>0
    <3>3. n + 1 < i => pos[n + 1] < pos[i]
      BY <1>1, <2>1, <3>1
    <3>. QED BY <2>1, <2>2, <3>1, <3>2, <3>3
  <2>4. e \in 0..Len(st) /\ e \in 1..Len(st)
    <3>1. Len(list) \in n + 1 .. Len(list)
      BY <1>0, <1>4
    <3>2. e <= Len(st)
      BY <1>1, <2>3, <3>1
    <3>. QED BY <1>0, <2>1, <3>2
  <2> DEFINE rest == SubSeq(st, e + 1, Len(st))
  <2>5. /\ rest \in Seq(Nat) /\ Len(rest) = Len(st) - e
        /\ \A i \in 1..Len(st) - e : rest[i] = st[e + i]
    <3>. HIDE DEF e
    <3>. QED BY SMTT(30), <2>4, Pieces
  <2> DEFINE q == [i \in n + 1 .. Len(list) |-> pos[i] - e]
  <2>. HIDE DEF e, rest
  <2>0. \A a, b, r \in Nat : a = b + r + 1 => a - e = (b - e) + r + 1
    BY <2>1
  <2>12. \A a, b, p \in Nat : p \in (b - e) + 1 .. (a - e) - 1 => e + p \in b + 1 .. a - 1
    BY <2>1
  <2>6. \A i \in n + 1 .. Len(list) : q[i] = pos[i] - e /\ q[i] \in Nat
    BY <2>1, <2>3
  <2>7. q \in [n + 1 .. Len(list) -> Nat]
    BY <2>6
  <2>. HIDE DEF q
  <2>8. q[n + 1] = 0 /\ q[Len(list)] = Len(rest)
    <3>1. Len(list) \in n + 1 .. Len(list)
      BY <1>0, <1>4
    <3>2. q[n + 1] = 0
      BY <2>1, <2>2, <2>6, <3>1
    <3>3. q[Len(list)] = Len(st) - e
      BY <1>1, <2>6, <3>1
    <3>. QED BY <2>5, <3>2, <3>3
  <2>9. \A i, j \in n + 1 .. Len(list) : i < j => q[i] < q[j]
    <3>. SUFFICES ASSUME NEW i \in n + 1 .. Len(list), NEW j \in n + 1 .. Len(list), i < j
                  PROVE  q[i] < q[j]
      OBVIOUS
    <3>1. pos[i] < pos[j]
      BY <1>1, <2>3
    <3>. QED BY <2>1, <2>3, <2>6, <3>1
  <2>10. ASSUME NEW i \in (n + 1) + 1 .. Len(list)
         PROVE  /\ q[i] = q[i - 1] + list[i].raw + 1
                /\ rest[q[i]] = Newline
                /\ \A p \in q[i - 1] + 1 .. q[i] - 1 : rest[p] = i
    <3>1. /\ i \in n + 1 .. Len(list) /\ i - 1 \in n + 1 .. Len(list) /\ i \in 1..Len(list)
          /\ Len(list) \in n + 1 .. Len(list)
      BY <1>0
    <3>2. /\ pos[i] = pos[i - 1] + list[i].raw + 1 /\ st[pos[i]] = Newline
          /\ \A p \in pos[i - 1] + 1 .. pos[i] - 1 : st[p] = i
      BY <1>2, <3>1
    <3>3. /\ pos[i] \in Nat /\ pos[i - 1] \in Nat /\ e <= pos[i - 1] /\ list[i].raw \in Nat
          /\ q[i] = pos[i] - e /\ q[i - 1] = pos[i - 1] - e /\ q[i] \in Nat
          /\ q[i - 1] \in Nat
      BY <1>0, <2>3, <2>6, <3>1
    <3>4. pos[i] <= Len(st)
      <4>1. i = Len(list) \/ i < Len(list)
        BY <1>0, <3>1
      <4>2. i < Len(list) => pos[i] < pos[Len(list)]
        BY <1>1, <2>3, <3>1
      <4>. QED BY <1>0, <1>1, <3>3, <4>1, <4>2
    <3>5. /\ q[i] \in 1..Len(st) - e /\ e + q[i] = pos[i] /\ e \in Nat
          /\ q[i] <= Len(st) - e
      <4>1. e \in Nat /\ Len(st) \in Nat /\ pos[i] = pos[i - 1] + list[i].raw + 1
        BY <1>0, <2>1, <3>2
      <4>2. e + q[i] = pos[i]
        BY <3>3, <4>1
      <4>3. q[i] <= Len(st) - e
        BY <3>3, <3>4, <4>1
      <4>4. 1 <= q[i]
        BY SMTT(30), <3>3, <4>1
      <4>. QED BY <3>3, <4>1, <4>2, <4>3, <4>4
    <3>6. rest[q[i]] = Newline
      BY <2>5, <3>2, <3>5
    <3>7. ASSUME NEW p \in q[i - 1] + 1 .. q[i] - 1 PROVE rest[p] = i
      <4>1. p \in Nat /\ q[i - 1] + 1 <= p /\ p <= q[i] - 1 /\ Len(st) \in Nat
        BY <1>0, <3>3
      <4>2. p \in 1..Len(st) - e
        <5>1. q[i] \in Nat /\ q[i - 1] \in Nat /\ q[i] <= Len(st) - e /\ e \in Nat
          BY <3>3, <3>5
        <5>. QED BY SMTT(30), <4>1, <5>1
      <4>3. e + p \in pos[i - 1] + 1 .. pos[i] - 1
        <5>1. p \in (pos[i - 1] - e) + 1 .. (pos[i] - e) - 1
          BY <3>3
        <5>. QED BY <2>12, <3>3, <4>1, <5>1
      <4>. QED BY <2>5, <3>2, <4>2, <4>3
    <3>8. q[i] = q[i - 1] + list[i].raw + 1
      <4>1. e \in Nat /\ pos[i] = pos[i - 1] + list[i].raw + 1
        BY <2>1, <3>2
      <4>2. pos[i] - e = (pos[i - 1] - e) + list[i].raw + 1
        <5>1. pos[i] \in Nat /\ pos[i - 1] \in Nat /\ list[i].raw \in Nat
          BY <3>3
        <5>. QED BY <2>0, <4>1, <5>1
      <4>. QED BY <3>3, <4>2
    <3>. QED BY <3>6, <3>7, <3>8
  <2>11. Carries(rest, list, n + 1, q)
    BY <2>7, <2>8, <2>9, <2>10 DEF Carries
  <2>. QED BY <2>1, <2>2, <2>4, <2>11 DEF e, rest
<1>. QED BY <1>3, <1>4

\* A frame that is sent comes last in the stream.
LEMMA LastFrame ==
  ASSUME NEW st \in Seq(Nat), NEW list \in Seq(Kinds), NEW n \in Nat, n <= Len(list),
         NEW pos, Carries(st, list, n, pos), NEW kind \in Kinds
  PROVE  LET piece == Append(Line(Len(list) + 1, kind.raw), Newline)
         IN  /\ piece \in Seq(Nat)
             /\ \E pos2 : Carries(st \o piece, Append(list, kind), n, pos2)
<1> DEFINE m == Len(list)
<1> DEFINE line == Line(m + 1, kind.raw)
<1> DEFINE piece == Append(line, Newline)
<1> DEFINE list2 == Append(list, kind)
<1>0. m \in Nat /\ Len(st) \in Nat /\ kind.raw \in Nat /\ Newline \in Nat /\ n <= m
  BY LenProperties, KindsAssumption DEF Newline
<1>1. line \in Seq(Nat) /\ Len(line) = kind.raw /\ \A i \in 1..kind.raw : line[i] = m + 1
  BY <1>0 DEF Line
<1>. HIDE DEF line
<1>2. /\ piece \in Seq(Nat) /\ Len(piece) = kind.raw + 1 /\ piece[kind.raw + 1] = Newline
      /\ \A i \in 1..kind.raw : piece[i] = m + 1
  <2>1. line \in Seq(Nat) /\ Newline \in Nat
    BY <1>0, <1>1
  <2>2. /\ piece \in Seq(Nat) /\ Len(piece) = Len(line) + 1
        /\ piece[Len(line) + 1] = Newline /\ \A i \in 1..Len(line) : piece[i] = line[i]
    BY <2>1, AppendProperties
  <2>. HIDE DEF piece
  <2>. QED BY <1>1, <2>2
<1>3. /\ Len(list2) = m + 1 /\ list2[m + 1] = kind
      /\ \A i \in 1..m : list2[i] = list[i]
  BY <1>0, AppendProperties
<1>. HIDE DEF piece, list2
<1> DEFINE st2 == st \o piece
<1>4. /\ st2 \in Seq(Nat) /\ Len(st2) = Len(st) + (kind.raw + 1)
      /\ \A i \in 1..Len(st) : st2[i] = st[i]
      /\ \A i \in 1..kind.raw + 1 : st2[Len(st) + i] = piece[i]
  <2>1. /\ st2 \in Seq(Nat) /\ Len(st2) = Len(st) + (kind.raw + 1)
        /\ \A i \in 1..Len(st) + (kind.raw + 1) :
              st2[i] = IF i <= Len(st) THEN st[i] ELSE piece[i - Len(st)]
    <3>1. st \in Seq(Nat) /\ piece \in Seq(Nat)
      BY <1>2
    <3>2. /\ st2 \in Seq(Nat) /\ Len(st2) = Len(st) + Len(piece)
          /\ \A i \in 1..Len(st) + Len(piece) :
                st2[i] = IF i <= Len(st) THEN st[i] ELSE piece[i - Len(st)]
      BY <3>1, ConcatProperties
    <3>. HIDE DEF st2
    <3>. QED BY <1>2, <3>2
  <2>. HIDE DEF st2
  <2>2. ASSUME NEW i \in 1..kind.raw + 1 PROVE st2[Len(st) + i] = piece[i]
    <3>1. Len(st) + i \in 1..Len(st) + (kind.raw + 1) /\ ~(Len(st) + i <= Len(st))
          /\ (Len(st) + i) - Len(st) = i
      BY <1>0
    <3>. QED BY <2>1, <3>1
  <2>3. ASSUME NEW i \in 1..Len(st) PROVE st2[i] = st[i]
    <3>1. i \in 1..Len(st) + (kind.raw + 1) /\ i <= Len(st)
      BY <1>0
    <3>. QED BY <2>1, <3>1
  <2>. QED BY <2>1, <2>2, <2>3
<1>. HIDE DEF st2
<1>5. /\ pos \in [n..m -> Nat] /\ pos[n] = 0 /\ pos[m] = Len(st)
      /\ \A i, j \in n..m : i < j => pos[i] < pos[j]
  BY DEF Carries
<1>6. \A i \in n + 1 .. m :
        /\ pos[i] = pos[i - 1] + list[i].raw + 1
        /\ st[pos[i]] = Newline
        /\ \A p \in pos[i - 1] + 1 .. pos[i] - 1 : st[p] = i
  BY DEF Carries
<1> DEFINE q == [i \in n .. m + 1 |-> IF i = m + 1 THEN Len(st2) ELSE pos[i]]
<1>7. /\ \A i \in n..m : i \in n..m + 1 /\ i # m + 1 /\ q[i] = pos[i] /\ pos[i] \in Nat
      /\ q[m + 1] = Len(st) + (kind.raw + 1) /\ n \in n..m /\ m \in n..m
      /\ \A i \in n .. m + 1 : i \in n..m \/ i = m + 1
  <2>. HIDE DEF m
  <2>1. \A i \in n..m : i \in n..m + 1 /\ i # m + 1
    BY <1>0
  <2>2. \A i \in n..m : q[i] = pos[i] /\ pos[i] \in Nat
    BY <1>5, <2>1
  <2>3. q[m + 1] = Len(st2)
    BY <1>0
  <2>4. n \in n..m /\ m \in n..m /\ \A i \in n .. m + 1 : i \in n..m \/ i = m + 1
    BY <1>0
  <2>. QED BY <1>4, <2>1, <2>2, <2>3, <2>4
<1>8. q \in [n .. m + 1 -> Nat]
  <2>. HIDE DEF m
  <2>1. Len(st2) \in Nat
    BY <1>0, <1>4
  <2>. QED BY <1>7, <2>1
<1>. HIDE DEF q
<1>9. \A i \in n..m : pos[i] <= Len(st)
  <2>. SUFFICES ASSUME NEW i \in n..m PROVE pos[i] <= Len(st)
    OBVIOUS
  <2>1. i = m \/ i < m
    BY <1>0
  <2>. QED BY <1>0, <1>5, <1>7, <2>1
<1>10. \A i, j \in n .. m + 1 : i < j => q[i] < q[j]
  <2>. SUFFICES ASSUME NEW i \in n .. m + 1, NEW j \in n .. m + 1, i < j
                PROVE  q[i] < q[j]
    OBVIOUS
  <2>1. i \in n..m
    BY <1>0, <1>7
  <2>2. CASE j \in n..m
    BY <1>5, <1>7, <2>1, <2>2
  <2>3. CASE j = m + 1
    BY <1>0, <1>7, <1>9, <2>1, <2>3
  <2>. QED BY <1>7, <2>2, <2>3
<1>11. ASSUME NEW i \in n + 1 .. m + 1
       PROVE  /\ q[i] = q[i - 1] + list2[i].raw + 1
              /\ st2[q[i]] = Newline
              /\ \A p \in q[i - 1] + 1 .. q[i] - 1 : st2[p] = i
  <2>1. CASE i = m + 1
    <3>1. i - 1 = m /\ q[i - 1] = Len(st) /\ q[i] = Len(st) + (kind.raw + 1)
      BY <1>0, <1>5, <1>7, <2>1
    <3>2. kind.raw + 1 \in 1..kind.raw + 1
      BY <1>0
    <3>3. ASSUME NEW p \in q[i - 1] + 1 .. q[i] - 1 PROVE st2[p] = i
      <4>1. p - Len(st) \in 1..kind.raw /\ p - Len(st) \in 1..kind.raw + 1
            /\ Len(st) + (p - Len(st)) = p
        BY <1>0, <3>1
      <4>2. st2[Len(st) + (p - Len(st))] = piece[p - Len(st)]
        BY <1>4, <4>1
      <4>. QED BY <1>2, <2>1, <4>1, <4>2
    <3>4. st2[q[i]] = Newline
      BY <1>2, <1>4, <3>1, <3>2
    <3>5. q[i] = q[i - 1] + list2[i].raw + 1
      BY <1>0, <1>3, <2>1, <3>1
    <3>. QED BY <3>3, <3>4, <3>5
  <2>2. CASE i # m + 1
    <3>1. i \in n + 1 .. m /\ i \in n..m /\ i - 1 \in n..m /\ i \in 1..m /\ n < i
      BY <1>0, <2>2
    <3>2. /\ q[i] = pos[i] /\ q[i - 1] = pos[i - 1] /\ list2[i] = list[i]
          /\ pos[i] \in Nat /\ pos[i - 1] \in Nat
          /\ pos[i] <= Len(st) /\ 0 < pos[i]
      <4>1. n \in n..m /\ pos[n] < pos[i]
        BY <1>0, <1>5, <3>1
      <4>2. 0 < pos[i]
        BY <1>5, <4>1
      <4>. QED BY <1>3, <1>7, <1>9, <3>1, <4>2
    <3>3. pos[i] \in 1..Len(st)
      BY <1>0, <3>2
    <3>4. ASSUME NEW p \in q[i - 1] + 1 .. q[i] - 1 PROVE st2[p] = i
      <4>1. p \in 1..Len(st) /\ p \in pos[i - 1] + 1 .. pos[i] - 1
        BY SMTT(30), <1>0, <3>2
      <4>. QED BY <1>4, <1>6, <3>1, <4>1
    <3>5. st2[q[i]] = Newline /\ q[i] = q[i - 1] + list2[i].raw + 1
      BY <1>4, <1>6, <3>1, <3>2, <3>3
    <3>. QED BY <3>4, <3>5
  <2>. QED BY <2>1, <2>2
<1>12. Carries(st2, list2, n, q)
  <2>1. q[n] = 0 /\ q[m + 1] = Len(st2)
    BY <1>4, <1>5, <1>7
  <2>. QED BY <1>3, <1>8, <1>10, <1>11, <2>1 DEF Carries
<1>. QED BY <1>2, <1>12 DEF st2, list2, piece, line

\* The first line of a buffer is the frame that comes first in the stream; a buffer that
\* has no line has less than this frame.
LEMMA LineOfBuffer ==
  ASSUME NEW b \in Seq(Nat), NEW w \in Seq(Nat), NEW list \in Seq(Kinds),
         NEW n \in Nat, n <= Len(list), NEW pos, Carries(b \o w, list, n, pos)
  PROVE  /\ Contains(b, Newline) =>
              /\ n + 1 \in 1..Len(list)
              /\ Min({i \in DOMAIN b : b[i] = Newline}) = list[n + 1].raw + 1
              /\ list[n + 1].raw + 1 \in 1..Len(b)
              /\ \A p \in 1..list[n + 1].raw : b[p] = n + 1
         /\ ~Contains(b, Newline) =>
              /\ n + 1 \in 1..Len(list) => Len(b) <= list[n + 1].raw
              /\ Len(b) # 0 => n + 1 \in 1..Len(list)
              /\ Len(w) = 0 => n = Len(list)
<1> DEFINE st == b \o w
<1> DEFINE e == list[n + 1].raw + 1
<1>1. /\ Len(b) \in Nat /\ Len(w) \in Nat /\ Len(list) \in Nat /\ DOMAIN b = 1..Len(b)
      /\ st \in Seq(Nat) /\ Len(st) = Len(b) + Len(w)
  <2>1. Len(b) \in Nat /\ Len(w) \in Nat /\ Len(list) \in Nat /\ DOMAIN b = 1..Len(b)
    BY LenProperties
  <2>2. st \in Seq(Nat) /\ Len(st) = Len(b) + Len(w)
    BY ConcatProperties
  <2>. QED BY <2>1, <2>2
<1>2. \A i \in 1..Len(b) : st[i] = b[i]
  <2>. SUFFICES ASSUME NEW i \in 1..Len(b) PROVE st[i] = b[i]
    OBVIOUS
  <2>1. i \in 1..Len(b) + Len(w) /\ i <= Len(b)
    BY <1>1
  <2>2. st[i] = IF i <= Len(b) THEN b[i] ELSE w[i - Len(b)]
    BY <2>1, ConcatProperties
  <2>. HIDE DEF st
  <2>. QED BY <2>1, <2>2
<1>. HIDE DEF st
<1>3. /\ Len(st) # 0 => n + 1 \in 1..Len(list)
      /\ n + 1 \in 1..Len(list) =>
            /\ e \in 1..Len(st) /\ st[e] = Newline /\ \A p \in 1..e - 1 : st[p] = n + 1
            /\ list[n + 1].raw \in Nat
  <2>1. Carries(st, list, n, pos)
    BY DEF st
  <2>2. /\ Len(st) # 0 => n + 1 \in 1..Len(list)
        /\ n + 1 \in 1..Len(list) =>
              LET d == list[n + 1].raw + 1
              IN  /\ d \in 1..Len(st) /\ st[d] = Newline
                  /\ \A p \in 1..d - 1 : st[p] = n + 1
                  /\ list[n + 1].raw \in Nat /\ list[n + 1].event \in Nat
                  /\ \E pos2 : Carries(SubSeq(st, d + 1, Len(st)), list, n + 1, pos2)
    <3>1. st \in Seq(Nat) /\ n <= Len(list)
      BY <1>1
    <3>. HIDE DEF e
    <3>. QED BY <2>1, <3>1, FirstFrame
  <2>. QED BY <2>2
<1>4. Newline = 0
  BY DEF Newline
<1>5. ASSUME n + 1 \in 1..Len(list), e <= Len(b)
      PROVE  /\ e \in 1..Len(b) /\ b[e] = Newline /\ \A p \in 1..e - 1 : b[p] = n + 1
             /\ Contains(b, Newline)
  <2>1. e \in 1..Len(b) /\ \A p \in 1..e - 1 : p \in 1..Len(b)
    <3>1. e \in Nat /\ 1 <= e
      BY <1>3, <1>5
    <3>. HIDE DEF e
    <3>. QED BY <1>1, <1>5, <3>1
  <2>. HIDE DEF e
  <2>2. b[e] = Newline /\ \A p \in 1..e - 1 : b[p] = n + 1
    BY <1>2, <1>3, <1>5, <2>1
  <2>. QED BY <2>1, <2>2 DEF Contains
<1>6. ASSUME Contains(b, Newline) PROVE n + 1 \in 1..Len(list) /\ e <= Len(b)
  <2>1. PICK i \in 1..Len(b) : b[i] = Newline
    BY <1>6 DEF Contains
  <2>2. n + 1 \in 1..Len(list)
    BY <1>1, <1>3, <2>1
  <2>3. ASSUME Len(b) < e PROVE FALSE
    <3>1. i \in 1..e - 1
      <4>1. e \in Nat
        BY <1>3, <2>2
      <4>. HIDE DEF e
      <4>. QED BY <1>1, <2>1, <2>3, <4>1
    <3>. HIDE DEF e
    <3>2. b[i] = n + 1
      BY <1>2, <1>3, <2>1, <2>2, <3>1
    <3>. QED BY <1>4, <2>1, <3>2
  <2>4. e \in Nat
    BY <1>3, <2>2
  <2>. HIDE DEF e
  <2>. QED BY <1>1, <2>2, <2>3, <2>4
<1>7. ASSUME Contains(b, Newline)
      PROVE  /\ n + 1 \in 1..Len(list)
             /\ Min({i \in DOMAIN b : b[i] = Newline}) = e
             /\ e \in 1..Len(b)
             /\ \A p \in 1..list[n + 1].raw : b[p] = n + 1
  <2> DEFINE T == {i \in DOMAIN b : b[i] = Newline}
  <2>1. e \in 1..Len(b) /\ b[e] = Newline /\ \A p \in 1..e - 1 : b[p] = n + 1
    BY <1>5, <1>6, <1>7
  <2>2. list[n + 1].raw \in Nat /\ e - 1 = list[n + 1].raw
    BY <1>3, <1>6, <1>7
  <2>3. T \in SUBSET (0..Len(b)) /\ e \in T
    BY <1>1, <2>1
  <2>4. \A y \in T : y \in Nat /\ e <= y
    <3>. SUFFICES ASSUME NEW y \in T, ~(y \in Nat /\ e <= y) PROVE FALSE
      OBVIOUS
    <3>1. y \in 1..Len(b) /\ b[y] = Newline
      BY <1>1
    <3>. HIDE DEF e
    <3>2. y \in 1..e - 1
      BY <1>1, <2>1, <3>1
    <3>. QED BY <1>4, <2>1, <3>1, <3>2
  <2>. HIDE DEF T, e
  <2>5. Min(T) \in T /\ \A y \in T : Min(T) <= y
    BY <1>1, <2>3, Extremes
  <2>6. Min(T) = e
    <3>1. e \in Nat /\ Min(T) \in Nat /\ e <= Min(T) /\ Min(T) <= e
      BY <1>1, <2>1, <2>3, <2>4, <2>5
    <3>. QED BY <3>1
  <2>. QED BY <1>6, <1>7, <2>1, <2>2, <2>6 DEF T
<1>8. ASSUME ~Contains(b, Newline)
      PROVE  /\ n + 1 \in 1..Len(list) => Len(b) <= list[n + 1].raw
             /\ Len(b) # 0 => n + 1 \in 1..Len(list)
             /\ Len(w) = 0 => n = Len(list)
  <2>1. n + 1 \in 1..Len(list) => Len(b) <= list[n + 1].raw
    <3>. SUFFICES ASSUME n + 1 \in 1..Len(list) PROVE Len(b) <= list[n + 1].raw
      OBVIOUS
    <3>1. ~(e <= Len(b)) /\ list[n + 1].raw \in Nat
      BY <1>3, <1>5, <1>8
    <3>. QED BY <1>1, <3>1
  <2>2. Len(b) # 0 => n + 1 \in 1..Len(list)
    BY <1>1, <1>3
  <2>3. ASSUME Len(w) = 0, n # Len(list) PROVE FALSE
    <3>1. n + 1 \in 1..Len(list)
      BY <1>1, <2>3
    <3>2. e <= Len(b)
      BY <1>1, <1>3, <2>3, <3>1
    <3>. QED BY <1>5, <1>8, <3>1, <3>2
  <2>. QED BY <2>1, <2>2, <2>3
<1>. QED BY <1>7, <1>8

\* What the code finds in its buffer while the session reads.
LEMMA LineIs ==
  ASSUME TypeOK, StreamOK, Reading
  PROVE  /\ HasLine =>
              /\ done + 1 \in 1..Len(sent) /\ LineEnd = sent[done + 1].raw + 1
              /\ LineEnd \in 1..Len(buffer) /\ sent[done + 1].raw \in Nat
              /\ FirstLine \in Seq(Nat) /\ Len(FirstLine) = sent[done + 1].raw
              /\ \A p \in 1..Len(FirstLine) : FirstLine[p] = done + 1
         /\ ~HasLine =>
              /\ done + 1 \in 1..Len(sent) => Len(buffer) <= sent[done + 1].raw
              /\ Len(buffer) # 0 => done + 1 \in 1..Len(sent)
              /\ wire = <<>> => done = Len(sent)
<1>1. /\ buffer \in Seq(Nat) /\ wire \in Seq(Nat) /\ sent \in Seq(Kinds) /\ done \in Nat
      /\ done <= Len(sent) /\ Len(buffer) \in Nat
  BY LenProperties DEF TypeOK, StreamOK
<1>2. PICK pos : Carries(buffer \o wire, sent, done, pos)
  BY DEF StreamOK
<1>3. /\ Contains(buffer, Newline) =>
            /\ done + 1 \in 1..Len(sent)
            /\ Min({i \in DOMAIN buffer : buffer[i] = Newline}) = sent[done + 1].raw + 1
            /\ sent[done + 1].raw + 1 \in 1..Len(buffer)
            /\ \A p \in 1..sent[done + 1].raw : buffer[p] = done + 1
      /\ ~Contains(buffer, Newline) =>
            /\ done + 1 \in 1..Len(sent) => Len(buffer) <= sent[done + 1].raw
            /\ Len(buffer) # 0 => done + 1 \in 1..Len(sent)
            /\ Len(wire) = 0 => done = Len(sent)
  BY <1>1, <1>2, LineOfBuffer
<1>4. wire = <<>> => Len(wire) = 0
  OBVIOUS
<1>5. ASSUME HasLine
      PROVE  /\ done + 1 \in 1..Len(sent) /\ LineEnd = sent[done + 1].raw + 1
             /\ LineEnd \in 1..Len(buffer) /\ sent[done + 1].raw \in Nat
             /\ FirstLine \in Seq(Nat) /\ Len(FirstLine) = sent[done + 1].raw
             /\ \A p \in 1..Len(FirstLine) : FirstLine[p] = done + 1
  <2>1. /\ done + 1 \in 1..Len(sent) /\ LineEnd = sent[done + 1].raw + 1
        /\ LineEnd \in 1..Len(buffer)
        /\ \A p \in 1..sent[done + 1].raw : buffer[p] = done + 1
    BY <1>3, <1>5 DEF HasLine, LineEnd
  <2>2. sent[done + 1].raw \in Nat
    <3>1. sent[done + 1] \in Kinds
      BY <1>1, <2>1, ElementOfSeq
    <3>. QED BY <3>1, KindsAssumption
  <2>3. LineEnd - 1 = sent[done + 1].raw /\ LineEnd - 1 \in 0..Len(buffer)
    BY <1>1, <2>1, <2>2
  <2> DEFINE m == LineEnd - 1
  <2>4. m \in 0..Len(buffer) /\ FirstLine = SubSeq(buffer, 1, m)
    BY <2>3 DEF FirstLine
  <2>. HIDE DEF m
  <2>5. /\ FirstLine \in Seq(Nat) /\ Len(FirstLine) = m
        /\ \A i \in 1..m : FirstLine[i] = buffer[i]
    BY <1>1, <2>4, Pieces
  <2>. QED BY <2>1, <2>2, <2>3, <2>5 DEF m
<1>. QED BY <1>3, <1>4, <1>5 DEF HasLine

-----------------------------------------------------------------------------
(* Types. *)
\* The events that there are.
LEMMA EventTypes ==
  ASSUME TypeOK, StreamOK
  PROVE  /\ Notice \in Events
         /\ Reading /\ HasLine => Text(FirstLine) \in Events
<1>1. Notice \in Events
  <2>1. NoticeBytes \in Nat /\ <<>> \in Seq(Nat)
    BY LimitsAssumption
  <2>. QED BY <2>1 DEF Notice, Events
<1>2. ASSUME Reading, HasLine PROVE Text(FirstLine) \in Events
  <2> DEFINE line == FirstLine
  <2>1. /\ done + 1 \in 1..Len(sent) /\ line \in Seq(Nat)
        /\ \A p \in 1..Len(line) : line[p] = done + 1
    BY <1>2, LineIs
  <2>. HIDE DEF line
  <2>2. line # <<>> => line[1] = done + 1
    <3>1. line # <<>> => Len(line) \in Nat /\ Len(line) # 0
      BY <2>1, LenProperties, EmptySeq
    <3>. QED BY <2>1, <3>1
  <2>3. sent[done + 1].event \in Nat
    <3>1. sent[done + 1] \in Kinds
      BY <2>1, ElementOfSeq DEF TypeOK
    <3>. QED BY <3>1, KindsAssumption
  <2>4. Text(line) = [text |-> line, size |-> IF line = <<>> THEN 0 ELSE sent[line[1]].event]
    BY DEF Text
  <2>5. (IF line = <<>> THEN 0 ELSE sent[line[1]].event) \in Nat
    BY <2>2, <2>3
  <2>6. Text(line) \in Events
    BY <2>1, <2>4, <2>5 DEF Events
  <2>. QED BY <2>6 DEF line
<1>. QED BY <1>1, <1>2

\* The sizes of a queue with a new last event, and of a part of one.
LEMMA SizesOfAppend ==
  ASSUME NEW box \in Seq(Events)
  PROVE  /\ Sizes(box) \in Seq(Nat) /\ Len(Sizes(box)) = Len(box)
         /\ \A event \in Events : Sizes(Append(box, event)) = Append(Sizes(box), event.size)
<1>1. \A b \in Seq(Events) :
        /\ Len(b) \in Nat /\ DOMAIN b = 1..Len(b) /\ Sizes(b) \in Seq(Nat)
        /\ Len(Sizes(b)) = Len(b) /\ \A i \in 1..Len(b) : Sizes(b)[i] = b[i].size
  <2>. SUFFICES ASSUME NEW b \in Seq(Events)
                PROVE  /\ Len(b) \in Nat /\ DOMAIN b = 1..Len(b) /\ Sizes(b) \in Seq(Nat)
                       /\ Len(Sizes(b)) = Len(b) /\ \A i \in 1..Len(b) : Sizes(b)[i] = b[i].size
    OBVIOUS
  <2>1. Len(b) \in Nat /\ DOMAIN b = 1..Len(b)
    BY LenProperties
  <2>2. \A i \in 1..Len(b) : b[i].size \in Nat
    <3>1. \A i \in 1..Len(b) : b[i] \in Events
      BY ElementOfSeq
    <3>. QED BY <3>1 DEF Events
  <2>3. Sizes(b) = [i \in 1..Len(b) |-> b[i].size]
    BY <2>1 DEF Sizes
  <2>4. Sizes(b) \in [1..Len(b) -> Nat]
    BY <2>2, <2>3
  <2>. QED BY <2>1, <2>3, <2>4
<1>2. ASSUME NEW event \in Events PROVE Sizes(Append(box, event)) = Append(Sizes(box), event.size)
  <2> DEFINE b == Append(box, event)
  <2> DEFINE s == Append(Sizes(box), event.size)
  <2>1. /\ b \in Seq(Events) /\ Len(b) = Len(box) + 1 /\ b[Len(box) + 1] = event
        /\ \A i \in 1..Len(box) : b[i] = box[i]
    BY AppendProperties
  <2>2. event.size \in Nat
    BY DEF Events
  <2>3. /\ s \in Seq(Nat) /\ Len(s) = Len(box) + 1 /\ s[Len(box) + 1] = event.size
        /\ \A i \in 1..Len(box) : s[i] = Sizes(box)[i]
    BY <1>1, <2>2, AppendProperties
  <2>. HIDE DEF b, s
  <2>4. Sizes(b) \in Seq(Nat) /\ Len(Sizes(b)) = Len(s)
    BY <1>1, <2>1, <2>3
  <2>5. ASSUME NEW i \in 1..Len(Sizes(b)) PROVE Sizes(b)[i] = s[i]
    <3>1. Sizes(b)[i] = b[i].size /\ Len(box) \in Nat /\ i \in 1..Len(box) + 1
      BY <1>1, <2>1, <2>3, <2>4
    <3>2. CASE i = Len(box) + 1
      BY <2>1, <2>3, <3>1, <3>2
    <3>3. CASE i # Len(box) + 1
      <4>1. i \in 1..Len(box)
        BY <3>1, <3>3
      <4>2. b[i] = box[i] /\ s[i] = Sizes(box)[i] /\ Sizes(box)[i] = box[i].size
        BY <1>1, <2>1, <2>3, <4>1
      <4>. QED BY <3>1, <4>2
    <3>. QED BY <3>2, <3>3
  <2>6. Sizes(b) = s
    BY <2>3, <2>4, <2>5, SeqEqual
  <2>. QED BY <2>6 DEF b, s
<1>. QED BY <1>1, <1>2

\* The sizes of the first events, and of those behind them.
LEMMA SizesOfPart ==
  ASSUME NEW box \in Seq(Events), NEW n \in 0..Len(box)
  PROVE  /\ Sizes(SubSeq(box, 1, n)) = SubSeq(Sizes(box), 1, n)
         /\ Sizes(SubSeq(box, n + 1, Len(box))) = SubSeq(Sizes(box), n + 1, Len(box))
<1>0. /\ Len(box) \in Nat /\ n \in Nat /\ Sizes(box) \in Seq(Nat) /\ Len(Sizes(box)) = Len(box)
      /\ n \in 0..Len(Sizes(box)) /\ \A i \in 1..Len(box) : Sizes(box)[i] = box[i].size
  <2>1. Sizes(box) \in Seq(Nat) /\ Len(Sizes(box)) = Len(box)
    BY SizesOfAppend
  <2>2. Len(box) \in Nat /\ DOMAIN box = 1..Len(box)
    BY LenProperties
  <2>3. \A i \in 1..Len(box) : Sizes(box)[i] = box[i].size
    BY <2>2 DEF Sizes
  <2>. QED BY <2>1, <2>2, <2>3
<1>1. ASSUME NEW b \in Seq(Events), NEW s \in Seq(Nat), Len(b) = Len(s),
             \A i \in 1..Len(b) : b[i].size = s[i]
      PROVE  Sizes(b) = s
  <2>1. Len(b) \in Nat /\ DOMAIN b = 1..Len(b) /\ Sizes(b) \in Seq(Nat)
        /\ Len(Sizes(b)) = Len(b)
    <3>1. Sizes(b) \in Seq(Nat) /\ Len(Sizes(b)) = Len(b)
      BY SizesOfAppend
    <3>. QED BY <3>1, LenProperties
  <2>2. \A i \in 1..Len(b) : Sizes(b)[i] = s[i]
    BY <1>1, <2>1 DEF Sizes
  <2>. QED BY <1>1, <2>1, <2>2, SeqEqual
<1>2. Sizes(SubSeq(box, 1, n)) = SubSeq(Sizes(box), 1, n)
  <2> DEFINE b == SubSeq(box, 1, n)
  <2> DEFINE s == SubSeq(Sizes(box), 1, n)
  <2>1. b \in Seq(Events) /\ Len(b) = n /\ \A i \in 1..n : b[i] = box[i] /\ i \in 1..Len(box)
    BY Pieces
  <2>2. s \in Seq(Nat) /\ Len(s) = n /\ \A i \in 1..n : s[i] = Sizes(box)[i]
    BY <1>0, Pieces
  <2>. HIDE DEF b, s
  <2>3. \A i \in 1..Len(b) : b[i].size = s[i]
    BY <1>0, <2>1, <2>2
  <2>4. Sizes(b) = s
    BY <1>1, <2>1, <2>2, <2>3
  <2>. QED BY <2>4 DEF b, s
<1>3. Sizes(SubSeq(box, n + 1, Len(box))) = SubSeq(Sizes(box), n + 1, Len(box))
  <2> DEFINE b == SubSeq(box, n + 1, Len(box))
  <2> DEFINE s == SubSeq(Sizes(box), n + 1, Len(Sizes(box)))
  <2>1. /\ b \in Seq(Events) /\ Len(b) = Len(box) - n
        /\ \A i \in 1..Len(box) - n : b[i] = box[n + i] /\ n + i \in 1..Len(box)
    BY Pieces
  <2>2. /\ s \in Seq(Nat) /\ Len(s) = Len(Sizes(box)) - n
        /\ \A i \in 1..Len(Sizes(box)) - n : s[i] = Sizes(box)[n + i]
    BY <1>0, Pieces
  <2>. HIDE DEF b, s
  <2>3. Len(b) = Len(s) /\ \A i \in 1..Len(b) : b[i].size = s[i]
    BY <1>0, <2>1, <2>2
  <2>4. Sizes(b) = s
    BY <1>1, <2>1, <2>2, <2>3
  <2>. QED BY <1>0, <2>4 DEF b, s
<1>. QED BY <1>2, <1>3

\* What the queue does keeps its types, its byte count and its limits.
LEMMA QueueStep ==
  ASSUME TypeOK, BytesAreCounted, NEW event \in Events, Queue(event)
  PROVE  /\ inbox' \in Seq(Events) /\ inboxBytes' \in Nat
         /\ inboxBytes' = Total(Sizes(inbox')) /\ inboxBytes' <= QueueBytes
         /\ Len(inbox') <= QueueMessages
         /\ Fits(event) => inbox' = Append(inbox, event)
<1>0. inbox \in Seq(Events) /\ inboxBytes \in Nat /\ Len(inbox) \in Nat /\ event.size \in Nat
  BY LenProperties DEF TypeOK, Events
<1>1. CASE ~Fits(event)
  <2>1. UNCHANGED queue
    BY <1>1 DEF Queue
  <2>. QED BY <1>0, <1>1, <2>1 DEF queue, BytesAreCounted
<1>2. CASE Fits(event)
  <2>1. inbox' = Append(inbox, event) /\ inboxBytes' = inboxBytes + event.size
    BY <1>2 DEF Queue
  <2>2. Sizes(inbox) \in Seq(Nat) /\ Sizes(inbox') = Append(Sizes(inbox), event.size)
    BY <1>0, <2>1, SizesOfAppend
  <2>3. Total(Sizes(inbox')) = Total(Sizes(inbox)) + event.size
    BY <1>0, <2>2, PrefixOfAppend
  <2>4. inbox' \in Seq(Events) /\ Len(inbox') = Len(inbox) + 1
    BY <1>0, <2>1, AppendProperties
  <2>5. Len(inbox) < QueueMessages /\ inboxBytes + event.size <= QueueBytes
        /\ QueueMessages \in Nat
    BY <1>2, LimitsAssumption DEF Fits
  <2>6. inboxBytes = Total(Sizes(inbox))
    BY DEF BytesAreCounted
  <2>. QED BY <1>0, <2>1, <2>3, <2>4, <2>5, <2>6
<1>. QED BY <1>1, <1>2

\* There is a largest batch within the limit, or the first event alone.
LEMMA BatchExists ==
  ASSUME TypeOK, inbox # <<>>
  PROVE  Batch \in 1..Len(inbox)
<1>0. /\ inbox \in Seq(Events) /\ Len(inbox) \in Nat /\ Len(inbox) # 0
      /\ PollMessages \in Nat /\ PollMessages # 0
  BY LenProperties, EmptySeq, LimitsAssumption DEF TypeOK
<1> DEFINE most == Least(PollMessages, Len(inbox))
<1> DEFINE Size(n) == Total(Sizes(SubSeq(inbox, 1, n)))
<1>1. most \in Nat /\ 1 <= most /\ most <= Len(inbox)
  BY <1>0 DEF Least
<1>. HIDE DEF most
<1>2. \A n \in 1..most : Size(n) \in Nat
  <2>. SUFFICES ASSUME NEW n \in 1..most PROVE Size(n) \in Nat
    OBVIOUS
  <2>1. n \in 0..Len(inbox)
    BY <1>0, <1>1
  <2>2. SubSeq(inbox, 1, n) \in Seq(Events)
    BY <1>0, <2>1, Pieces
  <2>3. Sizes(SubSeq(inbox, 1, n)) \in Seq(Nat)
    BY <2>2, SizesOfAppend
  <2>. QED BY <2>3, PrefixCounts
<1> DEFINE T == {n \in 1..most : n = 1 \/ Size(n) <= PollBytes}
<1>. HIDE DEF Size
<1>3. T \in SUBSET (0..most) /\ 1 \in T
  BY <1>1
<1> DEFINE n == Max(T)
<1>4. n \in T /\ \A y \in T : y <= n
  BY <1>1, <1>3, Extremes
<1>. HIDE DEF n
<1>5. \A m \in n + 1 .. most : Size(m) > PollBytes
  <2>. SUFFICES ASSUME NEW m \in n + 1 .. most, ~(Size(m) > PollBytes) PROVE FALSE
    OBVIOUS
  <2>1. n \in Nat /\ 1 <= n /\ PollBytes \in Nat
    BY <1>4, LimitsAssumption
  <2>2. m \in 1..most /\ m # 1 /\ ~(m <= n)
    BY <1>1, <2>1
  <2>3. Size(m) <= PollBytes
    BY <1>2, <2>1, <2>2
  <2>. QED BY <1>4, <2>2, <2>3
<1>6. n \in 1..most /\ (n = 1 \/ Size(n) <= PollBytes)
  BY <1>4
<1>7. \E x \in 1..most : /\ x = 1 \/ Size(x) <= PollBytes
                         /\ \A m \in x + 1 .. most : Size(m) > PollBytes
  BY <1>5, <1>6
<1>8. Batch \in 1..most
  BY <1>7 DEF Batch, Size, most
<1>. QED BY <1>0, <1>1, <1>8

\* An emptied queue has no bytes.
LEMMA EmptyQueue ==
  /\ <<>> \in Seq(Events) /\ Total(Sizes(<<>>)) = 0 /\ Len(<<>>) = 0
  /\ 0 <= QueueBytes /\ 0 <= QueueMessages /\ ~Contains(<<>>, Notice)
<1>1. <<>> \in Seq(Events) /\ Len(<<>>) = 0
  OBVIOUS
<1>2. Sizes(<<>>) \in Seq(Nat) /\ Len(Sizes(<<>>)) = 0
  BY <1>1, SizesOfAppend
<1>3. Total(Sizes(<<>>)) = 0
  BY <1>2, PrefixCounts
<1>. QED BY <1>1, <1>3, LimitsAssumption DEF Contains

\* An event that is queued is in the queue, and those before it stay in it.
LEMMA AppendContains ==
  ASSUME NEW box \in Seq(Events), NEW event \in Events
  PROVE  /\ Contains(Append(box, event), event)
         /\ \A e : Contains(box, e) => Contains(Append(box, event), e)
<1> DEFINE a == Append(box, event)
<1>1. /\ a \in Seq(Events) /\ Len(a) = Len(box) + 1 /\ a[Len(box) + 1] = event
      /\ \A i \in 1..Len(box) : a[i] = box[i]
  BY AppendProperties
<1>2. Len(box) \in Nat
  BY LenProperties
<1>. HIDE DEF a
<1>3. Len(box) + 1 \in 1..Len(a) /\ \A i \in 1..Len(box) : i \in 1..Len(a)
  BY <1>1, <1>2
<1>4. Contains(a, event) /\ \A e : Contains(box, e) => Contains(a, e)
  BY <1>1, <1>3 DEF Contains
<1>. QED BY <1>4 DEF a

\* A poll takes the sizes of the batch off the count of the bytes.
LEMMA PollStep ==
  ASSUME TypeOK, BytesAreCounted, Poll
  PROVE  /\ inbox' \in Seq(Events) /\ inboxBytes' \in Nat
         /\ inboxBytes' = Total(Sizes(inbox')) /\ inboxBytes' <= QueueBytes
         /\ Len(inbox') <= QueueMessages /\ told' \in BOOLEAN
         /\ told \/ Contains(inbox, Notice) => told' \/ Contains(inbox', Notice)
<1> DEFINE n == Batch
<1>0. /\ inbox \in Seq(Events) /\ Len(inbox) \in Nat /\ inboxBytes \in Nat
      /\ n \in 1..Len(inbox) /\ told \in BOOLEAN
  BY BatchExists, LenProperties DEF TypeOK, Poll
<1> DEFINE first == SubSeq(inbox, 1, n)
<1> DEFINE rest == SubSeq(inbox, n + 1, Len(inbox))
<1>1. /\ told' = (told \/ Contains(first, Notice))
      /\ inbox' = SubSeq(inbox, Len(first) + 1, Len(inbox))
      /\ inboxBytes' = inboxBytes - Total(Sizes(first))
  BY DEF Poll
<1>. HIDE DEF n
<1>2. n \in 0..Len(inbox) /\ n \in Nat
  BY <1>0
<1>3. /\ first \in Seq(Events) /\ Len(first) = n
      /\ \A i \in 1..n : first[i] = inbox[i] /\ i \in 1..Len(inbox)
      /\ rest \in Seq(Events) /\ Len(rest) = Len(inbox) - n
      /\ \A i \in 1..Len(inbox) - n : rest[i] = inbox[n + i]
  BY <1>0, <1>2, Pieces
<1>4. /\ Sizes(inbox) \in Seq(Nat) /\ Len(Sizes(inbox)) = Len(inbox)
      /\ Sizes(first) = SubSeq(Sizes(inbox), 1, n)
      /\ Sizes(rest) = SubSeq(Sizes(inbox), n + 1, Len(inbox))
  BY <1>0, <1>2, SizesOfAppend, SizesOfPart
<1>5. inbox' = rest
  BY <1>1, <1>3
<1> DEFINE s == Sizes(inbox)
<1>6. /\ Total(Sizes(first)) = Prefix(s, n) /\ Prefix(s, n) \in Nat
      /\ Total(Sizes(rest)) = Total(s) - Prefix(s, n)
      /\ Prefix(s, n) <= Total(s) /\ Total(s) \in Nat
  <2>1. s \in Seq(Nat) /\ n \in 0..Len(s) /\ Len(s) \in 0..Len(s) /\ n <= Len(s)
    BY <1>0, <1>2, <1>4
  <2>2. Sizes(first) = SubSeq(s, 1, n) /\ Sizes(rest) = SubSeq(s, n + 1, Len(s))
    BY <1>4
  <2>. HIDE DEF s, first, rest
  <2>3. /\ Prefix(s, n) \in Nat /\ Total(s) \in Nat /\ Prefix(s, Len(s)) = Total(s)
    BY <2>1, PrefixCounts
  <2>4. Prefix(s, n) <= Prefix(s, Len(s))
    BY <2>1, PrefixGrows
  <2>5. Total(SubSeq(s, n + 1, Len(s))) = Total(s) - Prefix(s, n)
    BY <2>1, PrefixOfRest
  <2>6. Total(SubSeq(s, 1, n)) = Prefix(s, n)
    BY DEF Prefix
  <2>. QED BY <2>2, <2>3, <2>4, <2>5, <2>6
<1>7. inboxBytes = Total(s) /\ inboxBytes <= QueueBytes /\ Len(inbox) <= QueueMessages
  BY DEF BytesAreCounted
<1>8. QueueMessages \in Nat /\ QueueBytes \in Nat
  BY LimitsAssumption
<1>. HIDE DEF s, first, rest
<1>9. /\ inboxBytes' = inboxBytes - Prefix(s, n)
      /\ inboxBytes' = Total(Sizes(inbox')) /\ inboxBytes' \in Nat
      /\ inboxBytes' <= inboxBytes
  <2>1. inboxBytes' = inboxBytes - Prefix(s, n)
    BY <1>1, <1>6
  <2>2. Total(Sizes(inbox')) = Total(s) - Prefix(s, n)
    BY <1>5, <1>6
  <2>3. Prefix(s, n) \in Nat /\ Total(s) \in Nat /\ Prefix(s, n) <= Total(s)
    BY <1>6
  <2>. QED BY <1>0, <1>7, <2>1, <2>2, <2>3
<1>10. Len(inbox') <= Len(inbox) /\ Len(inbox') \in Nat
  BY <1>0, <1>2, <1>3, <1>5
<1>11. inboxBytes' <= QueueBytes /\ Len(inbox') <= QueueMessages
  BY <1>0, <1>7, <1>8, <1>9, <1>10
<1>12. Contains(inbox, Notice) => Contains(first, Notice) \/ Contains(rest, Notice)
  <2>. SUFFICES ASSUME Contains(inbox, Notice)
                PROVE  Contains(first, Notice) \/ Contains(rest, Notice)
    OBVIOUS
  <2>1. PICK i \in 1..Len(inbox) : inbox[i] = Notice
    BY DEF Contains
  <2>2. CASE i <= n
    <3>1. i \in 1..n
      BY <1>2, <2>2
    <3>. QED BY <1>3, <2>1, <3>1 DEF Contains
  <2>3. CASE ~(i <= n)
    <3>1. i - n \in 1..Len(inbox) - n /\ n + (i - n) = i
      BY <1>0, <1>2, <2>3
    <3>2. rest[i - n] = Notice
      BY <1>3, <2>1, <3>1
    <3>. QED BY <1>3, <3>1, <3>2 DEF Contains
  <2>. QED BY <2>2, <2>3
<1>13. told' \in BOOLEAN /\ (told \/ Contains(inbox, Notice) => told' \/ Contains(inbox', Notice))
  BY <1>0, <1>1, <1>5, <1>12 DEF Contains
<1>. QED BY <1>3, <1>5, <1>9, <1>11, <1>13

\* What is received is not more than there is.
LEMMA LeastIs ==
  ASSUME NEW most \in Int, NEW m \in Nat, NEW n \in 1..Least(most, m)
  PROVE  n \in 0..m /\ n <= most /\ n \in Nat
BY DEF Least

\* The frames of the last second are the latest ones.
LEMMA TickDrops ==
  ASSUME TypeOK, Tick
  PROVE  \E d \in 0..Len(recent) :
           /\ recent' = SubSeq(recent, d + 1, Len(recent))
           /\ recent' \in Seq(Nat \X Nat) /\ Len(recent') = Len(recent) - d
           /\ \A i \in 1..Len(recent) - d : recent'[i] = recent[d + i] /\ d + i \in 1..Len(recent)
           /\ \A i \in d + 1 .. Len(recent) : now' < recent[i][1] + Second
           /\ d # 0 => recent[d][1] + Second <= now'
<1>0. /\ recent \in Seq(Nat \X Nat) /\ Len(recent) \in Nat /\ DOMAIN recent = 1..Len(recent)
      /\ now' \in Nat /\ Second \in Nat
      /\ \A i \in 1..Len(recent) : recent[i] \in Nat \X Nat /\ recent[i][1] \in Nat
  <2>1. \A i \in 1..Len(recent) : recent[i] \in Nat \X Nat
    BY ElementOfSeq DEF TypeOK
  <2>2. recent \in Seq(Nat \X Nat) /\ now' \in Nat
    BY DEF TypeOK, Tick
  <2>3. Second \in Nat
    BY LimitsAssumption
  <2>4. Len(recent) \in Nat /\ DOMAIN recent = 1..Len(recent)
    BY <2>2, LenProperties
  <2>5. \A i \in 1..Len(recent) : recent[i][1] \in Nat
    BY <2>1
  <2>. QED BY <2>1, <2>2, <2>3, <2>4, <2>5
<1> DEFINE past == {i \in DOMAIN recent : now' - recent[i][1] >= Second}
<1> DEFINE T == past \cup {0}
<1> DEFINE d == Max(T)
<1>1. recent' = SubSeq(recent, d + 1, Len(recent))
  BY DEF Tick
<1>2. T \in SUBSET (0..Len(recent)) /\ T # {}
  BY <1>0
<1>3. \A i \in 1..Len(recent) : i \notin T => now' < recent[i][1] + Second
  BY <1>0
<1>8. \A i \in T : i # 0 => recent[i][1] + Second <= now'
  BY <1>0
<1>. HIDE DEF T
<1>4. d \in T /\ \A y \in T : y <= d
  BY <1>0, <1>2, Extremes
<1>. HIDE DEF d
<1>5. d \in 0..Len(recent)
  BY <1>2, <1>4
<1>6. /\ SubSeq(recent, d + 1, Len(recent)) \in Seq(Nat \X Nat)
      /\ Len(SubSeq(recent, d + 1, Len(recent))) = Len(recent) - d
      /\ \A i \in 1..Len(recent) - d :
           SubSeq(recent, d + 1, Len(recent))[i] = recent[d + i] /\ d + i \in 1..Len(recent)
  <2> DEFINE P == Nat \X Nat
  <2>1. recent \in Seq(P)
    BY <1>0
  <2>2. SubSeq(recent, d + 1, Len(recent)) \in Seq(P)
        /\ Len(SubSeq(recent, d + 1, Len(recent))) = Len(recent) - d
        /\ \A i \in 1..Len(recent) - d :
             SubSeq(recent, d + 1, Len(recent))[i] = recent[d + i] /\ d + i \in 1..Len(recent)
    <3>. HIDE DEF P
    <3>. QED BY <1>5, <2>1, Pieces
  <2>. QED BY <2>2
<1>7. \A i \in d + 1 .. Len(recent) : now' < recent[i][1] + Second
  <2>. SUFFICES ASSUME NEW i \in d + 1 .. Len(recent) PROVE now' < recent[i][1] + Second
    OBVIOUS
  <2>1. i \in 1..Len(recent) /\ ~(i <= d)
    BY <1>0, <1>5
  <2>. QED BY <1>3, <1>4, <2>1
<1>. QED BY <1>1, <1>4, <1>5, <1>6, <1>7, <1>8

\* A frame that is taken queues its event, or empties the queue, or leaves it.
LEMMA TakeQueues ==
  ASSUME TypeOK, StreamOK, BytesAreCounted, ReaderTakes
  PROVE  /\ inbox' \in Seq(Events) /\ inboxBytes' \in Nat
         /\ inboxBytes' = Total(Sizes(inbox')) /\ inboxBytes' <= QueueBytes
         /\ Len(inbox') <= QueueMessages
<1>1. CASE UNCHANGED queue
  BY <1>1 DEF queue, TypeOK, BytesAreCounted
<1>2. CASE Clear
  BY <1>2, EmptyQueue DEF Clear
<1>3. CASE Queue(Text(FirstLine))
  <2>1. Text(FirstLine) \in Events
    BY EventTypes DEF ReaderTakes, Reading
  <2>. QED BY <1>3, <2>1, QueueStep
<1>. QED BY <1>1, <1>2, <1>3 DEF ReaderTakes

\* Every step keeps the types.
LEMMA TypeStep ==
  ASSUME IInv, Next
  PROVE  TypeOK'
<1>0. TypeOK /\ StreamOK /\ BytesAreCounted
  BY DEF IInv
<1>1. /\ Notice \in Events
      /\ HandshakeFrames \in Nat /\ Second \in Nat /\ QueueMessages \in Nat
  BY <1>0, EventTypes, LimitsAssumption
<1>2. Reading /\ HasLine => /\ buffer' \in Seq(Nat) \/ ~DropLine
                            /\ FirstLine \in Seq(Nat) /\ Len(FirstLine) \in Nat
  <2>. SUFFICES ASSUME Reading, HasLine
                PROVE  /\ buffer' \in Seq(Nat) \/ ~DropLine
                       /\ FirstLine \in Seq(Nat) /\ Len(FirstLine) \in Nat
    OBVIOUS
  <2>1. buffer \in Seq(Nat) /\ LineEnd \in 0..Len(buffer) /\ FirstLine \in Seq(Nat)
    <3>1. LineEnd \in 1..Len(buffer) /\ FirstLine \in Seq(Nat)
      BY <1>0, LineIs
    <3>. QED BY <1>0, <3>1 DEF TypeOK
  <2>2. SubSeq(buffer, LineEnd + 1, Len(buffer)) \in Seq(Nat)
    BY <2>1, Pieces
  <2>. QED BY <2>1, <2>2, LenProperties DEF DropLine
<1>3. \A most \in Int : Receive(most) => buffer' \in Seq(Nat) /\ wire' \in Seq(Nat)
  <2>. SUFFICES ASSUME NEW most \in Int, Receive(most) PROVE buffer' \in Seq(Nat) /\ wire' \in Seq(Nat)
    OBVIOUS
  <2>0. wire \in Seq(Nat) /\ Len(wire) \in Nat /\ buffer \in Seq(Nat)
    BY <1>0, LenProperties DEF TypeOK
  <2>1. PICK n \in 1..Least(most, Len(wire)) :
          buffer' = buffer \o SubSeq(wire, 1, n) /\ wire' = SubSeq(wire, n + 1, Len(wire))
    BY DEF Receive
  <2>2. n \in 0..Len(wire)
    BY <2>0, <2>1, LeastIs
  <2>3. SubSeq(wire, 1, n) \in Seq(Nat) /\ SubSeq(wire, n + 1, Len(wire)) \in Seq(Nat)
    BY <2>0, <2>2, Pieces
  <2>. QED BY <2>0, <2>1, <2>3, ConcatProperties
<1>4. ASSUME NEW kind \in Kinds, PeerSends(kind) PROVE TypeOK'
  <2>1. sent' \in Seq(Kinds)
    BY <1>0, <1>4, AppendProperties DEF TypeOK, PeerSends
  <2>2. wire' \in Seq(Nat)
    <3>1. wire \in Seq(Nat) /\ Len(sent) \in Nat /\ kind.raw \in Nat /\ Newline \in Nat
      BY <1>0, LenProperties, KindsAssumption DEF TypeOK, Newline
    <3>2. Line(Len(sent) + 1, kind.raw) \in Seq(Nat)
      BY <3>1 DEF Line
    <3>3. Append(Line(Len(sent) + 1, kind.raw), Newline) \in Seq(Nat)
      BY <3>1, <3>2, AppendProperties
    <3>4. wire' = wire \o Append(Line(Len(sent) + 1, kind.raw), Newline)
      BY <1>4 DEF PeerSends
    <3>. QED BY <3>1, <3>3, <3>4, ConcatProperties
  <2>. QED BY <1>0, <1>4, <2>1, <2>2 DEF TypeOK, PeerSends, rate, queue, output, history
<1>5. CASE PeerCloses
  BY <1>0, <1>5 DEF TypeOK, PeerCloses, rate, queue, output, history
<1>6. CASE Tick
  <2>1. recent' \in Seq(Nat \X Nat)
    BY <1>0, <1>6, TickDrops
  <2>. QED BY <1>0, <1>6, <2>1 DEF TypeOK, Tick, input, rate, queue, output
<1>7. CASE HandshakeReceives
  <2>1. buffer' \in Seq(Nat) /\ wire' \in Seq(Nat)
    <3>1. \A m \in Nat : Least(Chunk, MaxHandshake + 1 - m) \in Int
      BY LimitsAssumption DEF Least
    <3>2. Len(buffer) \in Nat
      BY <1>0, LenProperties DEF TypeOK
    <3>. QED BY <1>3, <1>7, <3>1, <3>2 DEF HandshakeReceives
  <2>. QED BY <1>0, <1>7, <2>1 DEF TypeOK, HandshakeReceives, rate, queue, output, history
<1>8. CASE HandshakeTakes
  <2>1. buffer' \in Seq(Nat) /\ done' \in Nat
    BY <1>0, <1>2, <1>8 DEF HandshakeTakes, Reading, DropLine, TypeOK
  <2>2. phase' \in Phases /\ why' \in Causes
    BY <1>0, <1>8 DEF HandshakeTakes, Fail, Phases, Causes, TypeOK
  <2>. QED BY <1>0, <1>8, <2>1, <2>2 DEF TypeOK, HandshakeTakes, input, rate, queue, output
<1>9. CASE HandshakeRefuses
  BY <1>0, <1>9 DEF TypeOK, HandshakeRefuses, Fail, input, rate, queue, output, Phases, Causes
<1>10. CASE ReaderStarts
  BY <1>0, <1>10 DEF TypeOK, ReaderStarts, input, queue, output, history, Phases
<1>11. CASE ReaderReceives
  <2>1. buffer' \in Seq(Nat) /\ wire' \in Seq(Nat)
    BY <1>3, <1>11, LimitsAssumption DEF ReaderReceives
  <2>2. phase' \in Phases /\ why' \in Causes
    BY <1>0, <1>11 DEF ReaderReceives, Fail, Phases, Causes, TypeOK
  <2>. QED BY <1>0, <1>11, <2>1, <2>2 DEF TypeOK, ReaderReceives, rate, queue, output
<1>12. CASE ReaderTakes
  <2>1. /\ Reading /\ HasLine /\ DropLine /\ FirstLine \in Seq(Nat) /\ Len(FirstLine) \in Nat
        /\ buffer' \in Seq(Nat) /\ done' \in Nat
    BY <1>0, <1>2, <1>12 DEF ReaderTakes, Reading, DropLine, TypeOK
  <2>2. phase' \in Phases /\ why' \in Causes
    BY <1>0, <1>12 DEF ReaderTakes, Fail, Phases, Causes, TypeOK
  <2>3. inbox' \in Seq(Events) /\ inboxBytes' \in Nat
    BY <1>0, <1>12, TakeQueues
  <2>4. /\ started' \in Nat /\ started' <= now' /\ frames' \in Nat /\ bytes' \in Nat
        /\ recent' \in Seq(Nat \X Nat)
    <3>1. CASE UNCHANGED <<rate, recent>>
      BY <1>0, <1>12, <3>1 DEF TypeOK, ReaderTakes, rate
    <3>2. CASE /\ started' = Started /\ frames' = Counted(frames, 1)
               /\ bytes' = Counted(bytes, Len(FirstLine))
               /\ recent' = Append(recent, <<now, Len(FirstLine)>>)
      <4>1. /\ started' \in Nat /\ started' <= now' /\ frames' \in Nat /\ bytes' \in Nat
        <5>1. /\ now \in Nat /\ now' = now /\ started \in Nat /\ started <= now
              /\ frames \in Nat /\ bytes \in Nat
          BY <1>0, <1>12 DEF TypeOK, ReaderTakes
        <5>2. started' \in Nat /\ started' <= now'
          BY <3>2, <5>1 DEF Started
        <5>3. frames' \in Nat /\ bytes' \in Nat
          BY <2>1, <3>2, <5>1 DEF Counted
        <5>. QED BY <5>2, <5>3
      <4>2. recent' \in Seq(Nat \X Nat)
        <5>1. recent \in Seq(Nat \X Nat) /\ <<now, Len(FirstLine)>> \in Nat \X Nat
          BY <1>0, <2>1 DEF TypeOK
        <5>. QED BY <3>2, <5>1, AppendProperties
      <4>. QED BY <4>1, <4>2
    <3>. QED BY <1>12, <3>1, <3>2 DEF ReaderTakes
  <2>. QED BY <1>0, <1>12, <2>1, <2>2, <2>3, <2>4 DEF TypeOK, ReaderTakes, input, output
<1>13. CASE EndOfStream
  BY <1>0, <1>13 DEF TypeOK, EndOfStream, Fail, input, rate, queue, output, Phases, Causes
<1>14. CASE TellFailure
  <2>1. inbox' \in Seq(Events) /\ inboxBytes' \in Nat
    BY <1>0, <1>1, <1>14, QueueStep DEF TellFailure
  <2>. QED BY <1>0, <1>14, <2>1 DEF TypeOK, TellFailure, input, rate, output, history, Phases
<1>15. CASE TellEnd
  <2>1. inbox' \in Seq(Events) /\ inboxBytes' \in Nat
    BY <1>0, <1>1, <1>15, QueueStep DEF TellEnd
  <2>. QED BY <1>0, <1>15, <2>1 DEF TypeOK, TellEnd, input, rate, output, history, Phases
<1>16. CASE ConnectionBreaks
  <2>1. <<>> \in Seq(Nat)
    OBVIOUS
  <2>. QED BY <1>0, <1>16, <2>1
           DEF TypeOK, ConnectionBreaks, Fail, rate, queue, output, Phases, Causes
<1>17. CASE CloseRoom
  <2>1. <<>> \in Seq(Events)
    OBVIOUS
  <2>. QED BY <1>0, <1>17, <2>1
           DEF TypeOK, CloseRoom, Clear, input, rate, output, Phases, Causes
<1>18. CASE Poll
  <2>1. inbox' \in Seq(Events) /\ inboxBytes' \in Nat /\ told' \in BOOLEAN
    BY <1>0, <1>18, PollStep
  <2>. QED BY <1>0, <1>18, <2>1 DEF TypeOK, Poll, input, rate, history
<1>. QED BY <1>4, <1>5, <1>6, <1>7, <1>8, <1>9, <1>10, <1>11, <1>12, <1>13, <1>14,
            <1>15, <1>16, <1>17, <1>18 DEF Next, Handshake, Reader, End

-----------------------------------------------------------------------------
(* Phases. *)
\* Every step keeps what has been taken in a phase.
LEMMA PhaseStep ==
  ASSUME IInv, Next
  PROVE  PhaseOK'
<1>0. /\ TypeOK /\ PhaseOK
      /\ HandshakeFrames \in Nat \ {0} /\ done \in Nat
  BY LimitsAssumption DEF IInv, TypeOK
<1>1. ASSUME NEW kind \in Kinds, PeerSends(kind) PROVE PhaseOK'
  BY <1>0, <1>1 DEF PhaseOK, Reading, PeerSends, rate, queue, output, history
<1>2. CASE PeerCloses
  BY <1>0, <1>2 DEF PhaseOK, Reading, PeerCloses, rate, queue, output, history
<1>3. CASE Tick
  <2>1. recent = <<>> => recent' = <<>>
    <3>. SUFFICES ASSUME recent = <<>> PROVE recent' = <<>>
      OBVIOUS
    <3>1. PICK d \in 0..Len(recent) :
            recent' \in Seq(Nat \X Nat) /\ Len(recent') = Len(recent) - d
      BY <1>0, <1>3, TickDrops
    <3>2. Len(recent) = 0
      OBVIOUS
    <3>3. Len(recent') = 0
      BY <3>1, <3>2
    <3>. QED BY <3>1, <3>3, EmptySeq
  <2>. QED BY <1>0, <1>3, <2>1 DEF PhaseOK, Reading, Tick, input, rate, queue, output
<1>4. CASE HandshakeReceives
  BY <1>0, <1>4 DEF PhaseOK, Reading, HandshakeReceives, rate, queue, output, history
<1>5. CASE HandshakeTakes
  BY <1>0, <1>5 DEF PhaseOK, Reading, HandshakeTakes, DropLine, Fail, rate, queue, output
<1>6. CASE HandshakeRefuses
  BY <1>0, <1>6 DEF PhaseOK, Reading, HandshakeRefuses, Fail
<1>7. CASE ReaderStarts
  BY <1>0, <1>7 DEF PhaseOK, Reading, ReaderStarts, history
<1>8. CASE ReaderReceives
  BY <1>0, <1>8 DEF PhaseOK, Reading, ReaderReceives, Fail
<1>9. CASE ReaderTakes
  <2>1. phase = "reader" /\ done' = done + 1
    BY <1>9 DEF ReaderTakes, DropLine
  <2>2. \/ phase' = phase /\ why' = why
        \/ phase' = "failed"
    BY <1>9 DEF ReaderTakes, Fail
  <2>. QED BY <1>0, <2>1, <2>2 DEF PhaseOK, Reading
<1>10. CASE EndOfStream
  BY <1>0, <1>10 DEF PhaseOK, Reading, EndOfStream, Fail
<1>11. CASE TellFailure
  BY <1>0, <1>11 DEF PhaseOK, Reading, TellFailure
<1>12. CASE TellEnd
  BY <1>0, <1>12 DEF PhaseOK, Reading, TellEnd
<1>13. CASE ConnectionBreaks
  BY <1>0, <1>13 DEF PhaseOK, Reading, ConnectionBreaks, Fail
<1>14. CASE CloseRoom
  BY <1>0, <1>14 DEF PhaseOK, Reading, CloseRoom
<1>15. CASE Poll
  BY <1>0, <1>15 DEF PhaseOK, Reading, Poll, rate, history
<1>. QED BY <1>1, <1>2, <1>3, <1>4, <1>5, <1>6, <1>7, <1>8, <1>9, <1>10, <1>11, <1>12,
            <1>13, <1>14, <1>15 DEF Next, Handshake, Reader, End

-----------------------------------------------------------------------------
(* The stream. *)
\* The frames that have not been taken are on their way.
OnTheWay == done <= Len(sent) /\ \E pos : Carries(buffer \o wire, sent, done, pos)

\* What is received moves from the wire to the buffer.
LEMMA ReceiveStep ==
  ASSUME TypeOK, OnTheWay, NEW most \in Int, Receive(most), sent' = sent, done' = done
  PROVE  /\ OnTheWay' /\ Len(buffer') <= Len(buffer) + most
         /\ Len(buffer') \in Nat /\ Len(buffer) < Len(buffer')
<1>0. wire \in Seq(Nat) /\ Len(wire) \in Nat /\ buffer \in Seq(Nat) /\ Len(buffer) \in Nat
  BY LenProperties DEF TypeOK
<1>1. PICK n \in 1..Least(most, Len(wire)) :
        buffer' = buffer \o SubSeq(wire, 1, n) /\ wire' = SubSeq(wire, n + 1, Len(wire))
  BY DEF Receive
<1>2. n \in 0..Len(wire) /\ n <= most /\ n \in Nat
  BY <1>0, <1>1, LeastIs
<1>3. buffer' \o wire' = buffer \o wire
  <2>1. (buffer \o SubSeq(wire, 1, n)) \o SubSeq(wire, n + 1, Len(wire)) = buffer \o wire
    BY <1>0, <1>2, StreamPieces
  <2>. QED BY <1>1, <2>1
<1>4. SubSeq(wire, 1, n) \in Seq(Nat) /\ Len(SubSeq(wire, 1, n)) = n
  BY <1>0, <1>2, Pieces
<1>5. Len(buffer') = Len(buffer) + n
  <2>1. Len(buffer \o SubSeq(wire, 1, n)) = Len(buffer) + Len(SubSeq(wire, 1, n))
    BY <1>0, <1>4, ConcatProperties
  <2>. QED BY <1>1, <1>4, <2>1
<1>6. Len(buffer') <= Len(buffer) + most /\ Len(buffer') \in Nat /\ Len(buffer) < Len(buffer')
  BY <1>0, <1>1, <1>2, <1>5
<1>7. OnTheWay'
  BY <1>3 DEF OnTheWay
<1>. QED BY <1>6, <1>7

\* A frame that is taken is no longer on its way.
LEMMA TakeStep ==
  ASSUME TypeOK, StreamOK, Reading, HasLine, DropLine, UNCHANGED <<sent, wire>>
  PROVE  OnTheWay'
<1>0. /\ wire \in Seq(Nat) /\ buffer \in Seq(Nat) /\ sent \in Seq(Kinds) /\ done \in Nat
      /\ Len(sent) \in Nat /\ done <= Len(sent) /\ buffer \o wire \in Seq(Nat)
  BY LenProperties, ConcatProperties DEF TypeOK, StreamOK
<1>1. PICK pos : Carries(buffer \o wire, sent, done, pos)
  BY DEF StreamOK
<1>2. /\ done + 1 \in 1..Len(sent) /\ LineEnd = sent[done + 1].raw + 1
      /\ LineEnd \in 1..Len(buffer)
  BY LineIs
<1> DEFINE st == buffer \o wire
<1>3. done + 1 \in 1..Len(sent) =>
        LET e == sent[done + 1].raw + 1
        IN  /\ e \in 1..Len(st) /\ st[e] = Newline /\ \A p \in 1..e - 1 : st[p] = done + 1
            /\ sent[done + 1].raw \in Nat /\ sent[done + 1].event \in Nat
            /\ \E pos2 : Carries(SubSeq(st, e + 1, Len(st)), sent, done + 1, pos2)
  <2>1. st \in Seq(Nat) /\ Carries(st, sent, done, pos)
    BY <1>0, <1>1
  <2>. HIDE DEF st
  <2>. QED BY <1>0, <2>1, FirstFrame
<1>4. \E pos2 : Carries(SubSeq(st, LineEnd + 1, Len(st)), sent, done + 1, pos2)
  <2>. HIDE DEF st
  <2>. QED BY <1>2, <1>3
<1>5. SubSeq(buffer, LineEnd + 1, Len(buffer)) \o wire = SubSeq(st, LineEnd + 1, Len(st))
  <2>1. LineEnd \in 0..Len(buffer)
    BY <1>2
  <2>. QED BY <1>0, <2>1, StreamPieces
<1>6. buffer' \o wire' = SubSeq(st, LineEnd + 1, Len(st)) /\ sent' = sent /\ done' = done + 1
  BY <1>5 DEF DropLine
<1>7. done + 1 <= Len(sent)
  BY <1>0, <1>2
<1>. HIDE DEF st
<1>. QED BY <1>4, <1>6, <1>7 DEF OnTheWay

\* A frame that is sent comes behind the others.
LEMMA SendStep ==
  ASSUME TypeOK, OnTheWay, NEW kind \in Kinds, PeerSends(kind)
  PROVE  OnTheWay'
<1>0. /\ wire \in Seq(Nat) /\ buffer \in Seq(Nat) /\ sent \in Seq(Kinds) /\ done \in Nat
      /\ Len(sent) \in Nat /\ done <= Len(sent) /\ buffer \o wire \in Seq(Nat)
  BY LenProperties, ConcatProperties DEF TypeOK, OnTheWay
<1>1. PICK pos : Carries(buffer \o wire, sent, done, pos)
  BY DEF OnTheWay
<1> DEFINE piece == Append(Line(Len(sent) + 1, kind.raw), Newline)
<1>2. /\ sent' = Append(sent, kind) /\ wire' = wire \o piece
      /\ buffer' = buffer /\ done' = done
  BY DEF PeerSends, history
<1>3. piece \in Seq(Nat) /\ \E pos2 : Carries((buffer \o wire) \o piece, Append(sent, kind), done, pos2)
  BY <1>0, <1>1, LastFrame
<1>. HIDE DEF piece
<1>4. buffer' \o wire' = (buffer \o wire) \o piece
  BY <1>0, <1>2, <1>3, ThreePieces
<1>5. Len(sent') = Len(sent) + 1
  BY <1>0, <1>2, AppendProperties
<1>6. done' <= Len(sent')
  BY <1>0, <1>2, <1>5
<1>. QED BY <1>2, <1>3, <1>4, <1>6 DEF OnTheWay

\* Every step keeps the stream.
LEMMA StreamStep ==
  ASSUME IInv, Next
  PROVE  StreamOK'
<1>0. TypeOK /\ StreamOK /\ (Reading => OnTheWay)
  BY DEF IInv, StreamOK, OnTheWay
<1>1. SUFFICES Reading' => OnTheWay'
  BY DEF StreamOK, OnTheWay
<1>2. UNCHANGED <<sent, wire, buffer, done>> /\ OnTheWay => OnTheWay'
  BY DEF OnTheWay
<1>3. ASSUME NEW kind \in Kinds, PeerSends(kind) PROVE OnTheWay'
  BY <1>0, <1>3, SendStep DEF PeerSends
<1>4. CASE PeerCloses
  BY <1>0, <1>2, <1>4 DEF PeerCloses, history
<1>5. CASE Tick
  BY <1>0, <1>2, <1>5 DEF Tick, input
<1>6. CASE HandshakeReceives
  <2>1. Least(Chunk, MaxHandshake + 1 - Len(buffer)) \in Int
    <3>1. \A m \in Nat : Least(Chunk, MaxHandshake + 1 - m) \in Int
      BY LimitsAssumption DEF Least
    <3>2. Len(buffer) \in Nat
      BY <1>0, LenProperties DEF TypeOK
    <3>. QED BY <3>1, <3>2
  <2>2. Reading /\ sent' = sent /\ done' = done
        /\ Receive(Least(Chunk, MaxHandshake + 1 - Len(buffer)))
    BY <1>6 DEF HandshakeReceives, history, Reading
  <2>. QED BY <1>0, <2>1, <2>2, ReceiveStep
<1>7. CASE HandshakeTakes
  BY <1>0, <1>7, TakeStep DEF HandshakeTakes, input, Reading
<1>8. CASE ReaderStarts
  BY <1>0, <1>2, <1>8 DEF ReaderStarts, input, history, Reading
<1>9. CASE ReaderReceives
  <2>1. Chunk \in Int
    BY LimitsAssumption
  <2>2. Reading /\ sent' = sent /\ done' = done /\ Receive(Chunk)
    BY <1>9 DEF ReaderReceives, Reading
  <2>. QED BY <1>0, <2>1, <2>2, ReceiveStep
<1>10. CASE ReaderTakes
  BY <1>0, <1>10, TakeStep DEF ReaderTakes, input, Reading
<1>11. CASE Poll
  BY <1>0, <1>2, <1>11 DEF Poll, input, history, Reading
<1>12. CASE HandshakeRefuses \/ End \/ ConnectionBreaks \/ CloseRoom
  <2>1. phase' \in {"failed", "left", "ended"}
    BY <1>12 DEF HandshakeRefuses, End, EndOfStream, TellFailure, TellEnd,
                 ConnectionBreaks, CloseRoom, Fail
  <2>. QED BY <2>1 DEF Reading
<1>. QED BY <1>3, <1>4, <1>5, <1>6, <1>7, <1>8, <1>9, <1>10, <1>11, <1>12
         DEF Next, Handshake, Reader

-----------------------------------------------------------------------------
(* The rate. *)
\* The lengths of the frames of the last second.
LEMMA LengthsAre ==
  ASSUME NEW r \in Seq(Nat \X Nat)
  PROVE  /\ Len(r) \in Nat /\ Lengths(r) \in Seq(Nat) /\ Len(Lengths(r)) = Len(r)
         /\ \A i \in 1..Len(r) : Lengths(r)[i] = r[i][2] /\ r[i][1] \in Nat /\ r[i][2] \in Nat
<1>1. Len(r) \in Nat /\ DOMAIN r = 1..Len(r)
  BY LenProperties
<1>2. \A i \in 1..Len(r) : r[i] \in Nat \X Nat
  BY ElementOfSeq
<1>3. \A i \in 1..Len(r) : r[i][1] \in Nat /\ r[i][2] \in Nat
  BY <1>2
<1>4. Lengths(r) = [i \in 1..Len(r) |-> r[i][2]]
  BY <1>1 DEF Lengths
<1>5. Lengths(r) \in [1..Len(r) -> Nat]
  BY <1>3, <1>4
<1>. QED BY <1>1, <1>3, <1>4, <1>5

\* Those of the frames behind the first d.
LEMMA LengthsOfRest ==
  ASSUME NEW r \in Seq(Nat \X Nat), NEW d \in 0..Len(r),
         NEW t \in Seq(Nat \X Nat), Len(t) = Len(r) - d,
         \A i \in 1..Len(r) - d : t[i] = r[d + i] /\ d + i \in 1..Len(r)
  PROVE  Lengths(t) = SubSeq(Lengths(r), d + 1, Len(Lengths(r)))
<1> DEFINE s == Lengths(r)
<1> DEFINE u == SubSeq(s, d + 1, Len(s))
<1>1. /\ Len(r) \in Nat /\ s \in Seq(Nat) /\ Len(s) = Len(r)
      /\ \A i \in 1..Len(r) : s[i] = r[i][2]
  BY LengthsAre
<1>2. /\ Lengths(t) \in Seq(Nat) /\ Len(Lengths(t)) = Len(r) - d
      /\ \A i \in 1..Len(r) - d : Lengths(t)[i] = t[i][2]
  BY LengthsAre
<1>. HIDE DEF s
<1>3. d \in 0..Len(s)
  BY <1>1
<1>4. u \in Seq(Nat) /\ Len(u) = Len(s) - d /\ \A i \in 1..Len(s) - d : u[i] = s[d + i]
  <2>1. s \in Seq(Nat)
    BY <1>1
  <2>. QED BY SMTT(30), <1>3, <2>1, Pieces
<1>. HIDE DEF u
<1>5. \A i \in 1..Len(r) - d : Lengths(t)[i] = u[i]
  BY <1>1, <1>2, <1>4
<1>6. Lengths(t) = u
  <2>1. Len(Lengths(t)) = Len(u) /\ \A i \in 1..Len(Lengths(t)) : Lengths(t)[i] = u[i]
    BY <1>1, <1>2, <1>4, <1>5
  <2>. QED BY <1>2, <1>4, <2>1, SeqEqual
<1>. QED BY <1>6 DEF u, s

\* Those with one more.
LEMMA LengthsOfAppend ==
  ASSUME NEW r \in Seq(Nat \X Nat), NEW t \in Nat, NEW n \in Nat
  PROVE  /\ Append(r, <<t, n>>) \in Seq(Nat \X Nat) /\ Len(Append(r, <<t, n>>)) = Len(r) + 1
         /\ \A i \in 1..Len(r) : Append(r, <<t, n>>)[i] = r[i]
         /\ Append(r, <<t, n>>)[Len(r) + 1] = <<t, n>>
         /\ Lengths(Append(r, <<t, n>>)) = Append(Lengths(r), n)
<1> DEFINE a == Append(r, <<t, n>>)
<1> DEFINE s == Append(Lengths(r), n)
<1>1. /\ Len(r) \in Nat /\ Lengths(r) \in Seq(Nat) /\ Len(Lengths(r)) = Len(r)
      /\ \A i \in 1..Len(r) : Lengths(r)[i] = r[i][2]
  BY LengthsAre
<1>2. /\ a \in Seq(Nat \X Nat) /\ Len(a) = Len(r) + 1 /\ (\A i \in 1..Len(r) : a[i] = r[i])
      /\ a[Len(r) + 1] = <<t, n>>
  <2>1. <<t, n>> \in Nat \X Nat
    OBVIOUS
  <2>. QED BY <2>1, AppendProperties
<1>3. /\ s \in Seq(Nat) /\ Len(s) = Len(r) + 1 /\ s[Len(r) + 1] = n
      /\ \A i \in 1..Len(r) : s[i] = Lengths(r)[i]
  BY <1>1, AppendProperties
<1>. HIDE DEF a, s
<1>4. /\ Lengths(a) \in Seq(Nat) /\ Len(Lengths(a)) = Len(r) + 1
      /\ \A i \in 1..Len(r) + 1 : Lengths(a)[i] = a[i][2]
  BY <1>2, LengthsAre
<1>5. ASSUME NEW i \in 1..Len(r) + 1 PROVE Lengths(a)[i] = s[i]
  <2>1. CASE i = Len(r) + 1
    <3>1. Lengths(a)[i] = <<t, n>>[2]
      BY <1>2, <1>4, <2>1
    <3>. QED BY <1>3, <2>1, <3>1
  <2>2. CASE i # Len(r) + 1
    <3>1. i \in 1..Len(r)
      BY <1>1, <2>2
    <3>. QED BY <1>1, <1>2, <1>3, <1>4, <3>1
  <2>. QED BY <2>1, <2>2
<1>6. Lengths(a) = s
  BY <1>3, <1>4, <1>5, SeqEqual
<1>. QED BY <1>2, <1>6 DEF a, s

\* What the sums over the frames of the last second are.
LEMMA SumIs ==
  ASSUME recent \in Seq(Nat \X Nat)
  PROVE  /\ \A k \in 0..Len(recent) : Sum(k) = Prefix(Lengths(recent), k) /\ Sum(k) \in Nat
         /\ Sum(0) = 0 /\ Sum(Len(recent)) = Total(Lengths(recent))
         /\ Total(Lengths(recent)) \in Nat
         /\ \A k, m \in 0..Len(recent) : k <= m => Sum(k) <= Sum(m)
<1>1. Lengths(recent) \in Seq(Nat) /\ Len(Lengths(recent)) = Len(recent) /\ Len(recent) \in Nat
  BY LengthsAre
<1>2. \A k : Sum(k) = Prefix(Lengths(recent), k)
  BY DEF Sum, Prefix
<1> DEFINE s == Lengths(recent)
<1>3. s \in Seq(Nat)
  BY <1>1
<1>4. /\ \A n \in 0..Len(s) : Prefix(s, n) \in Nat
      /\ Prefix(s, 0) = 0 /\ Prefix(s, Len(s)) = Total(s) /\ Total(s) \in Nat
  <2>. HIDE DEF s
  <2>. QED BY <1>3, PrefixCounts
<1>5. \A k, m \in 0..Len(s) : k <= m => Prefix(s, k) <= Prefix(s, m)
  <2>. HIDE DEF s
  <2>. QED BY <1>3, PrefixGrows
<1>. QED BY <1>1, <1>2, <1>4, <1>5

\* The frames that stay, by their places before and after.
LEMMA Offset ==
  ASSUME NEW n \in Nat, NEW d \in 0..n, NEW i \in 1..n - d
  PROVE  i \in Int /\ d + i \in d + 1 .. n /\ d + i \in 1..n
  OBVIOUS

\* As time passes, frames leave the last second: those of the window before it first.
LEMMA TickRate ==
  ASSUME TypeOK, RateOK, Tick
  PROVE  RateOK'
<1>0. /\ recent \in Seq(Nat \X Nat) /\ now \in Nat /\ now' = now + 1 /\ started \in Nat
      /\ frames \in Nat /\ bytes \in Nat /\ Second \in Nat /\ Len(recent) \in Nat
      /\ UNCHANGED <<started, frames, bytes, why>> /\ RateFrames \in Nat /\ RateBytes \in Nat
  BY LengthsAre, LimitsAssumption DEF TypeOK, Tick, rate
<1>1. PICK d \in 0..Len(recent) :
        /\ recent' \in Seq(Nat \X Nat) /\ Len(recent') = Len(recent) - d
        /\ \A i \in 1..Len(recent) - d : recent'[i] = recent[d + i] /\ d + i \in 1..Len(recent)
        /\ \A i \in d + 1 .. Len(recent) : now' < recent[i][1] + Second
        /\ d # 0 => recent[d][1] + Second <= now'
  BY TickDrops
<1>2. PICK k \in 0..Len(recent) : SplitAt(k)
  BY DEF RateOK
<1>3. \A i \in 1..Len(recent) : recent[i][1] \in Nat
  BY <1>0, LengthsAre
<1> DEFINE L == Lengths(recent)
<1>4. /\ L \in Seq(Nat) /\ Len(L) = Len(recent) /\ Len(recent) \in Nat
      /\ d \in Nat /\ k \in Nat /\ d <= Len(recent) /\ k <= Len(recent)
  BY <1>0, <1>1, <1>2, LengthsAre
<1>5. /\ \A n \in 0..Len(recent) - d : Prefix(Lengths(recent'), n) = Prefix(L, n + d) - Prefix(L, d)
      /\ Total(Lengths(recent')) = Total(L) - Prefix(L, d)
  <2>1. Lengths(recent') = SubSeq(L, d + 1, Len(L))
    BY <1>0, <1>1, LengthsOfRest
  <2>2. d \in 0..Len(L)
    BY <1>4
  <2>3. /\ \A n \in 0..Len(L) - d :
              Prefix(SubSeq(L, d + 1, Len(L)), n) = Prefix(L, n + d) - Prefix(L, d)
        /\ Total(SubSeq(L, d + 1, Len(L))) = Total(L) - Prefix(L, d)
    <3>1. L \in Seq(Nat)
      BY <1>4
    <3>. HIDE DEF L
    <3>. QED BY <2>2, <3>1, PrefixOfRest
  <2>. HIDE DEF L
  <2>. QED BY <1>4, <2>1, <2>3
<1>6. /\ Prefix(L, k) \in Nat /\ Prefix(L, d) \in Nat /\ Total(L) \in Nat
      /\ Prefix(L, k) <= Total(L) /\ Prefix(L, d) <= Total(L)
      /\ k <= d => Prefix(L, k) <= Prefix(L, d)
      /\ d <= k => Prefix(L, d) <= Prefix(L, k)
      /\ Sum(k) = Prefix(L, k) /\ Prefix(L, 0) = 0
  <2>1. /\ \A i \in 0..Len(recent) : Sum(i) = Prefix(L, i) /\ Sum(i) \in Nat
        /\ Sum(0) = 0 /\ Sum(Len(recent)) = Total(L) /\ Total(L) \in Nat
        /\ \A i, j \in 0..Len(recent) : i <= j => Sum(i) <= Sum(j)
    BY <1>0, SumIs
  <2>2. {0, d, k, Len(recent)} \subseteq 0..Len(recent)
    BY <1>4
  <2>. HIDE DEF L
  <2>. QED BY <1>4, <2>1, <2>2
<1>. HIDE DEF L
<1>7. /\ \A i \in 1..k : recent[i][1] < started
      /\ \A i \in k + 1 .. Len(recent) : started <= recent[i][1]
      /\ k <= RateFrames /\ Prefix(L, k) <= RateBytes
      /\ Len(recent) <= k + frames /\ Total(L) <= Prefix(L, k) + bytes
      /\ now < started + Second =>
            Len(recent) = k + frames /\ Total(L) = Prefix(L, k) + bytes
  BY <1>2, <1>6 DEF SplitAt, L
<1>places. \A i \in 1..Len(recent') :
        /\ i \in 1..Len(recent) - d /\ i \in Int
        /\ d + i \in d + 1 .. Len(recent) /\ d + i \in 1..Len(recent)
  <2>1. 1..Len(recent') = 1..Len(recent) - d
    BY <1>1
  <2>. QED BY <1>4, <2>1, Offset
<1>8. TimesOK'
  <2>1. \A i \in 1..Len(recent') :
          recent'[i][1] <= now' /\ now' < recent'[i][1] + Second
          /\ recent'[i][1] < started + Second
    <3>. SUFFICES ASSUME NEW i \in 1..Len(recent')
                  PROVE  recent'[i][1] <= now' /\ now' < recent'[i][1] + Second
                         /\ recent'[i][1] < started + Second
      OBVIOUS
    <3>1. /\ i \in 1..Len(recent) - d /\ d + i \in d + 1 .. Len(recent)
          /\ d + i \in 1..Len(recent)
      BY <1>places
    <3>2. /\ recent'[i] = recent[d + i] /\ now' < recent[d + i][1] + Second
          /\ recent[d + i][1] <= now /\ recent[d + i][1] < started + Second
          /\ recent[d + i][1] \in Nat
      BY <1>1, <1>3, <3>1 DEF RateOK, TimesOK
    <3>3. /\ recent'[i][1] = recent[d + i][1] /\ recent[d + i][1] <= now'
          /\ now' < recent[d + i][1] + Second /\ recent[d + i][1] < started + Second
      BY SMTT(30), <1>0, <3>2
    <3>. QED BY <3>3
  <2>2. \A i, j \in 1..Len(recent') : i <= j => recent'[i][1] <= recent'[j][1]
    <3>. SUFFICES ASSUME NEW i \in 1..Len(recent'), NEW j \in 1..Len(recent'), i <= j
                  PROVE  recent'[i][1] <= recent'[j][1]
      OBVIOUS
    <3>1. /\ i \in 1..Len(recent) - d /\ d + i \in 1..Len(recent) /\ i \in Int
          /\ j \in 1..Len(recent) - d /\ d + j \in 1..Len(recent) /\ j \in Int
      BY <1>places
    <3>between. d + i <= d + j
      BY <1>4, <3>1
    <3>2. recent[d + i][1] <= recent[d + j][1]
      BY <3>1, <3>between DEF RateOK, TimesOK
    <3>. QED BY <1>1, <3>1, <3>2
  <2>. QED BY <1>0, <2>1, <2>2 DEF TimesOK
<1>9. \A n : Sum(n)' = Prefix(Lengths(recent'), n)
  BY DEF Sum, Prefix
<1>10. CASE d <= k
  <2>1. k - d \in 0..Len(recent) - d /\ (k - d) + d = k
    BY <1>4, <1>10
  <2>2. Sum(k - d)' = Prefix(L, k) - Prefix(L, d)
    BY <1>5, <1>9, <2>1
  <2>3. \A i \in 1..k - d : recent'[i][1] < started
    <3>. SUFFICES ASSUME NEW i \in 1..k - d PROVE recent'[i][1] < started
      OBVIOUS
    <3>1. i \in 1..Len(recent) - d /\ d + i \in 1..k
      BY <1>4
    <3>. QED BY <1>1, <1>7, <3>1
  <2>4. \A i \in (k - d) + 1 .. Len(recent') : started <= recent'[i][1]
    <3>. SUFFICES ASSUME NEW i \in (k - d) + 1 .. Len(recent') PROVE started <= recent'[i][1]
      OBVIOUS
    <3>1. i \in 1..Len(recent) - d /\ d + i \in k + 1 .. Len(recent)
      BY SMTT(30), <1>1, <1>4, <1>10
    <3>. QED BY <1>1, <1>7, <3>1
  <2>5. k - d <= RateFrames /\ Len(recent') <= (k - d) + frames
    BY <1>0, <1>1, <1>4, <1>7
  <2>6. /\ Prefix(L, k) - Prefix(L, d) <= RateBytes
        /\ Total(Lengths(recent')) <= (Prefix(L, k) - Prefix(L, d)) + bytes
    BY SMTT(30), <1>0, <1>5, <1>6, <1>7
  <2>7. now' < started + Second => Len(recent') = (k - d) + frames
    <3>. SUFFICES ASSUME now' < started + Second PROVE Len(recent') = (k - d) + frames
      OBVIOUS
    <3>1. now < started + Second
      BY <1>0
    <3>2. Len(recent) = k + frames
      BY <1>7, <3>1
    <3>. QED BY <1>0, <1>1, <1>4, <3>2
  <2>8. now' < started + Second =>
          Total(Lengths(recent')) = (Prefix(L, k) - Prefix(L, d)) + bytes
    BY <1>0, <1>5, <1>6, <1>7
  <2>9. SplitAt(k - d)'
    BY <1>0, <2>2, <2>3, <2>4, <2>5, <2>6, <2>7, <2>8 DEF SplitAt
  <2>10. k - d \in 0..Len(recent')
    BY <1>1, <2>1
  <2>. QED BY <1>0, <1>8, <2>9, <2>10 DEF RateOK
<1>11. CASE ~(d <= k)
  <2>1. 0 \in 0..Len(recent) - d /\ 0 + d = d /\ d \in k + 1 .. Len(recent) /\ d # 0
        /\ d \in 1..Len(recent)
    BY <1>4, <1>11
  <2>2. Sum(0)' = 0
    <3>1. Sum(0)' = Prefix(L, d) - Prefix(L, d)
      BY <1>5, <1>9, <2>1
    <3>. QED BY <1>6, <3>1
  <2>3. ~(now' < started + Second)
    <3>1. started <= recent[d][1] /\ recent[d][1] + Second <= now' /\ recent[d][1] \in Nat
      BY <1>1, <1>3, <1>7, <2>1
    <3>. QED BY <1>0, <3>1
  <2>4. \A i \in 0 + 1 .. Len(recent') : started <= recent'[i][1]
    <3>. SUFFICES ASSUME NEW i \in 0 + 1 .. Len(recent') PROVE started <= recent'[i][1]
      OBVIOUS
    <3>1. i \in 1..Len(recent) - d /\ d + i \in k + 1 .. Len(recent)
      BY <1>1, <1>4, <1>11
    <3>. QED BY <1>1, <1>7, <3>1
  <2>5. Len(recent') <= 0 + frames
    BY <1>0, <1>1, <1>4, <1>7, <1>11
  <2>6. Total(Lengths(recent')) <= 0 + bytes
    BY <1>0, <1>4, <1>5, <1>6, <1>7, <1>11
  <2>7. SplitAt(0)'
    BY <1>0, <2>2, <2>3, <2>4, <2>5, <2>6 DEF SplitAt
  <2>8. 0 \in 0..Len(recent')
    BY <1>1, <2>1
  <2>. QED BY <1>0, <1>8, <2>7, <2>8 DEF RateOK
<1>. QED BY <1>10, <1>11

\* A frame that is counted is one more of the window: an old window counts no more, as
\* a second has gone by since the frames before it.
LEMMA CountStep ==
  ASSUME TypeOK, RateOK, why = "none", NEW n \in Nat, now' = now,
         started' = Started, frames' = Counted(frames, 1), bytes' = Counted(bytes, n),
         recent' = Append(recent, <<now, n>>)
  PROVE  /\ TimesOK' /\ now' < started' + Second
         /\ \E k \in 0..Len(recent') : SplitAt(k)'
<1>0. /\ recent \in Seq(Nat \X Nat) /\ now \in Nat /\ started \in Nat /\ started <= now
      /\ frames \in Nat /\ bytes \in Nat /\ Second \in Nat \ {0} /\ Len(recent) \in Nat
      /\ RateFrames \in Nat /\ RateBytes \in Nat
      /\ frames <= RateFrames /\ bytes <= RateBytes
  BY LengthsAre, LimitsAssumption DEF TypeOK, RateOK
<1>1. PICK k \in 0..Len(recent) : SplitAt(k)
  BY DEF RateOK
<1> DEFINE L == Lengths(recent)
<1>2. L \in Seq(Nat) /\ Len(L) = Len(recent) /\ \A i \in 1..Len(recent) : recent[i][1] \in Nat
  BY <1>0, LengthsAre
<1>3. /\ recent' \in Seq(Nat \X Nat) /\ Len(recent') = Len(recent) + 1
      /\ \A i \in 1..Len(recent) : recent'[i] = recent[i]
      /\ recent'[Len(recent) + 1] = <<now, n>> /\ Lengths(recent') = Append(L, n)
  BY <1>0, LengthsOfAppend
<1>4. /\ \A i \in 0..Len(recent) : Prefix(Append(L, n), i) = Prefix(L, i)
      /\ Total(Append(L, n)) = Total(L) + n
  <2>. HIDE DEF L
  <2>. QED BY <1>2, PrefixOfAppend
<1>5. /\ \A i \in 0..Len(recent) : Sum(i) = Prefix(L, i) /\ Sum(i) \in Nat
      /\ Sum(0) = 0 /\ Sum(Len(recent)) = Total(L) /\ Total(L) \in Nat
  BY <1>0, SumIs
<1>. HIDE DEF L
<1>6. /\ \A i \in 0..Len(recent) : Sum(i)' = Sum(i)
      /\ Total(Lengths(recent')) = Total(L) + n
  <2>1. \A i : Sum(i)' = Prefix(Lengths(recent'), i)
    BY DEF Sum, Prefix
  <2>. QED BY <1>3, <1>4, <1>5, <2>1
<1>7. /\ \A i \in 1..k : recent[i][1] < started
      /\ \A i \in k + 1 .. Len(recent) : started <= recent[i][1]
      /\ k <= RateFrames /\ Sum(k) <= RateBytes
      /\ Len(recent) <= k + frames /\ Total(L) <= Sum(k) + bytes
      /\ now < started + Second => Len(recent) = k + frames /\ Total(L) = Sum(k) + bytes
  BY <1>1 DEF SplitAt, L
<1>8. \A i \in 1..Len(recent) : /\ recent[i][1] <= now /\ now < recent[i][1] + Second
                               /\ recent[i][1] < started + Second /\ recent[i][1] \in Nat
  BY <1>2 DEF RateOK, TimesOK
<1>9. started' \in Nat /\ started' <= now /\ now < started' + Second /\ started <= started'
  BY <1>0 DEF Started, WindowOver
<1>10. \A i \in 1..Len(recent) + 1 : i \in 1..Len(recent) \/ i = Len(recent) + 1
  <2>1. Len(recent) \in Nat
    BY <1>0
  <2>. QED BY <2>1
<1>11. recent'[Len(recent) + 1][1] = now
  BY <1>3
<1>12. TimesOK'
  <2>1. ASSUME NEW i \in 1..Len(recent')
        PROVE  recent'[i][1] <= now' /\ now' < recent'[i][1] + Second
               /\ recent'[i][1] < started' + Second
    <3>1. CASE i \in 1..Len(recent)
      <4>1. /\ recent'[i][1] = recent[i][1] /\ recent[i][1] <= now
            /\ now < recent[i][1] + Second /\ recent[i][1] \in Nat
        BY <1>3, <1>8, <3>1
      <4>2. recent[i][1] < started' + Second
        <5>1. recent[i][1] < started + Second
          BY <1>8, <3>1
        <5>2. started \in Nat /\ Second \in Nat
          BY <1>0
        <5>. QED BY <1>9, <4>1, <5>1, <5>2
      <4>. QED BY <4>1, <4>2
    <3>2. CASE i = Len(recent) + 1
      <4>1. recent'[i][1] = now
        BY <1>11, <3>2
      <4>2. now < now + Second /\ now <= now
        BY <1>0
      <4>. QED BY <1>9, <4>1, <4>2
    <3>. QED BY <1>3, <1>10, <3>1, <3>2
  <2>2. ASSUME NEW i \in 1..Len(recent'), NEW j \in 1..Len(recent'), i <= j
        PROVE  recent'[i][1] <= recent'[j][1]
    <3>1. CASE j \in 1..Len(recent)
      <4>1. i \in 1..Len(recent)
        BY <1>0, <1>3, <2>2, <3>1
      <4>2. recent[i][1] <= recent[j][1]
        BY <2>2, <3>1, <4>1 DEF RateOK, TimesOK
      <4>. QED BY <1>3, <3>1, <4>1, <4>2
    <3>2. CASE j = Len(recent) + 1
      BY <1>11, <2>1, <3>2
    <3>. QED BY <1>3, <1>10, <3>1, <3>2
  <2>. QED BY <2>1, <2>2 DEF TimesOK
<1>13. CASE ~WindowOver
  <2>1. /\ started' = started /\ frames' = frames + 1 /\ bytes' = bytes + n
        /\ now < started + Second
    BY <1>0, <1>13 DEF Started, Counted, WindowOver
  <2>2. \A i \in 1..k : recent'[i][1] < started'
    <3>. SUFFICES ASSUME NEW i \in 1..k PROVE recent'[i][1] < started'
      OBVIOUS
    <3>1. i \in 1..Len(recent)
      BY <1>0
    <3>. QED BY <1>3, <1>7, <2>1, <3>1
  <2>3. \A i \in k + 1 .. Len(recent') : started' <= recent'[i][1]
    <3>. SUFFICES ASSUME NEW i \in k + 1 .. Len(recent') PROVE started' <= recent'[i][1]
      OBVIOUS
    <3>1. i = Len(recent) + 1 \/ (i \in 1..Len(recent) /\ i \in k + 1 .. Len(recent))
      <4>1. Len(recent) \in Nat /\ Len(recent') = Len(recent) + 1
        BY <1>0, <1>3
      <4>. QED BY <4>1
    <3>2. CASE i = Len(recent) + 1
      BY <1>0, <1>11, <2>1, <3>2
    <3>3. CASE i \in 1..Len(recent) /\ i \in k + 1 .. Len(recent)
      BY <1>3, <1>7, <2>1, <3>3
    <3>. QED BY <3>1, <3>2, <3>3
  <2>4. Sum(k)' = Sum(k) /\ Sum(k) \in Nat /\ k \in Nat
    BY <1>0, <1>5, <1>6
  <2>5. Len(recent') = k + frames'
    <3>1. Len(recent) = k + frames
      BY <1>7, <2>1
    <3>2. Len(recent') = Len(recent) + 1 /\ frames' = frames + 1 /\ frames \in Nat
      BY <1>0, <1>3, <2>1
    <3>3. \A f \in Nat : k + (f + 1) = (k + f) + 1
      BY <2>4
    <3>4. k + (frames + 1) = (k + frames) + 1
      BY <3>2, <3>3
    <3>. QED BY <3>1, <3>2, <3>4
  <2>6. Total(Lengths(recent')) = Sum(k)' + bytes'
    BY <1>0, <1>5, <1>6, <1>7, <2>1, <2>4
  <2>7. frames' \in Nat /\ bytes' \in Nat /\ Len(recent') \in Nat /\ Sum(k)' + bytes' \in Nat
        /\ k \in 0..Len(recent')
    BY <1>0, <1>3, <2>1, <2>4
  <2>8. SplitAt(k)'
    BY SMTT(30), <1>7, <2>2, <2>3, <2>4, <2>5, <2>6, <2>7 DEF SplitAt
  <2>. QED BY <1>9, <1>12, <2>7, <2>8
<1>14. CASE WindowOver
  <2>1. started' = now /\ frames' = 1 /\ bytes' = n /\ started + Second <= now
    <3>1. Counted(frames, 1) = 0 + 1 /\ Counted(bytes, n) = 0 + n
      BY <1>14 DEF Counted
    <3>. QED BY <1>0, <1>14, <3>1 DEF Started, WindowOver
  <2>2. k = 0
    <3>. SUFFICES ASSUME k # 0 PROVE FALSE
      OBVIOUS
    <3>1. 1 \in 1..k /\ 1 \in 1..Len(recent)
      BY <1>0
    <3>2. recent[1][1] < started /\ now < recent[1][1] + Second /\ recent[1][1] \in Nat
      BY <1>7, <1>8, <3>1
    <3>. QED BY <1>0, <2>1, <3>2
  <2>3. Len(recent) <= RateFrames /\ Total(L) <= RateBytes
    BY <1>0, <1>5, <1>7, <2>2
  <2>11. PICK m \in Nat : m = Len(recent)
    BY <1>0
  <2>4. \A i \in 1..m : recent'[i][1] < started'
    <3>. SUFFICES ASSUME NEW i \in 1..m PROVE recent'[i][1] < started'
      OBVIOUS
    <3>1. recent'[i] = recent[i] /\ recent[i][1] < started + Second /\ recent[i][1] \in Nat
      BY <1>3, <1>8, <2>11
    <3>2. recent[i][1] < now
      BY SMTT(30), <1>0, <2>1, <3>1
    <3>. QED BY <2>1, <3>1, <3>2
  <2>5. \A i \in m + 1 .. Len(recent') : started' <= recent'[i][1]
    <3>. SUFFICES ASSUME NEW i \in m + 1 .. Len(recent') PROVE started' <= recent'[i][1]
      OBVIOUS
    <3>1. i = Len(recent) + 1
      BY <1>0, <1>3, <2>11
    <3>. QED BY <1>0, <1>11, <2>1, <3>1
  <2>6. Sum(m)' = Total(L) /\ m \in Nat
    <3>1. m \in 0..Len(recent)
      BY <2>11
    <3>. QED BY <1>5, <1>6, <2>11, <3>1
  <2>7. Len(recent') = m + frames' /\ Total(Lengths(recent')) = Sum(m)' + bytes'
    BY <1>3, <1>6, <2>1, <2>6, <2>11
  <2>8. /\ Len(recent') \in Nat /\ Sum(m)' + bytes' \in Nat /\ m \in 0..Len(recent')
    BY <1>0, <1>3, <1>5, <2>1, <2>6, <2>11
  <2>9. m <= RateFrames /\ Sum(m)' <= RateBytes
    BY <2>3, <2>6, <2>11
  <2>10. SplitAt(m)'
    BY <2>4, <2>5, <2>7, <2>8, <2>9 DEF SplitAt
  <2>. QED BY <1>9, <1>12, <2>8, <2>10
<1>. QED BY <1>13, <1>14

\* What a frame that is taken does to the rate and to the session.
LEMMA TakeCases ==
  ASSUME IInv, ReaderTakes
  PROVE  /\ why = "none" /\ now' = now /\ phase = "reader" /\ Len(FirstLine) \in Nat
         /\ \/ /\ UNCHANGED <<started, frames, bytes, recent>>
               /\ \/ why' = "none"
                  \/ why' = "large" /\ Len(FirstLine) > MaxApplication
            \/ /\ started' = Started /\ frames' = Counted(frames, 1)
               /\ bytes' = Counted(bytes, Len(FirstLine))
               /\ recent' = Append(recent, <<now, Len(FirstLine)>>)
               /\ why' \in {"none", "rate", "capacity"}
               /\ why' = "rate" <=> OverRate(frames', bytes')
         /\ why' = "capacity" => phase' = "failed" /\ Clear
<1>1. Reading /\ HasLine /\ TypeOK /\ StreamOK
  BY DEF IInv, ReaderTakes, Reading
<1>2. FirstLine \in Seq(Nat)
  BY <1>1, LineIs
<1>3. Len(FirstLine) \in Nat
  BY <1>2, LenProperties
<1>4. why = "none" /\ now' = now /\ phase = "reader"
  BY <1>1 DEF IInv, PhaseOK, ReaderTakes
<1>. HIDE DEF IInv
<1>5. CASE FirstLine = <<>> /\ UNCHANGED <<phase, why, rate, queue, recent>>
  BY <1>3, <1>4, <1>5 DEF rate
<1>6. CASE Len(FirstLine) > MaxApplication /\ Fail("large") /\ UNCHANGED <<rate, queue, recent>>
  BY <1>3, <1>4, <1>6 DEF rate, Fail
<1>7. CASE /\ started' = Started /\ frames' = Counted(frames, 1)
           /\ bytes' = Counted(bytes, Len(FirstLine))
           /\ recent' = Append(recent, <<now, Len(FirstLine)>>)
           /\ \/ OverRate(frames', bytes') /\ Fail("rate")
              \/ ~OverRate(frames', bytes') /\ Fail("capacity") /\ Clear
              \/ ~OverRate(frames', bytes') /\ UNCHANGED <<phase, why>>
  <2>1. /\ why' \in {"none", "rate", "capacity"}
        /\ why' = "rate" <=> OverRate(frames', bytes')
        /\ why' = "capacity" => phase' = "failed" /\ Clear
    BY <1>4, <1>7 DEF Fail
  <2>. QED BY <1>3, <1>4, <1>7, <2>1
<1>. QED BY <1>5, <1>6, <1>7 DEF ReaderTakes

\* Every step keeps the rate.
LEMMA RateStep ==
  ASSUME IInv, Next
  PROVE  RateOK'
<1>0. TypeOK /\ PhaseOK /\ RateOK /\ (Reading => why = "none")
  BY DEF IInv, PhaseOK
<1>1. ASSUME UNCHANGED <<now, started, frames, bytes, recent>>,
             why \in {"rate", "closed"} => why' \in {"rate", "closed"}
      PROVE  RateOK'
  <2>1. TimesOK'
    BY <1>0, <1>1 DEF RateOK, TimesOK
  <2>2. \A k : SplitAt(k) => SplitAt(k)'
    BY <1>1 DEF SplitAt, Sum
  <2>3. why' \notin {"rate", "closed"} => frames' <= RateFrames /\ bytes' <= RateBytes
    BY <1>0, <1>1 DEF RateOK
  <2>4. \E k \in 0..Len(recent') : SplitAt(k)'
    <3>1. PICK k \in 0..Len(recent) : SplitAt(k)
      BY <1>0 DEF RateOK
    <3>. QED BY <1>1, <2>2, <3>1
  <2>. QED BY <2>1, <2>3, <2>4 DEF RateOK
<1>2. CASE Tick
  BY <1>0, <1>2, TickRate
<1>3. CASE ReaderStarts
  <2>1. /\ recent = <<>> /\ recent' = <<>> /\ started' = now /\ frames' = 0 /\ bytes' = 0
        /\ now' = now
    BY <1>0, <1>3 DEF ReaderStarts, PhaseOK, history
  <2>2. RateFrames \in Nat /\ RateBytes \in Nat /\ Second \in Nat
    BY LimitsAssumption
  <2>3. recent' \in Seq(Nat \X Nat) /\ Len(recent') = 0
    BY <2>1
  <2>4. Lengths(recent') \in Seq(Nat) /\ Len(Lengths(recent')) = 0
    BY <2>3, LengthsAre
  <2>5. Total(Lengths(recent')) = 0 /\ Prefix(Lengths(recent'), 0) = 0
    BY <2>4, PrefixCounts
  <2>6. Sum(0)' = 0
    BY <2>5 DEF Sum, Prefix
  <2>7. SplitAt(0)'
    BY <2>1, <2>2, <2>3, <2>5, <2>6 DEF SplitAt
  <2>8. TimesOK'
    BY <2>3 DEF TimesOK
  <2>9. 0 \in 0..Len(recent')
    BY <2>3
  <2>. QED BY <2>1, <2>2, <2>7, <2>8, <2>9 DEF RateOK
<1>4. CASE ReaderTakes
  <2>1. CASE UNCHANGED <<started, frames, bytes, recent>>
    <3>1. why = "none" /\ now' = now
      BY <1>4, TakeCases
    <3>. QED BY <1>1, <2>1, <3>1
  <2>2. CASE /\ started' = Started /\ frames' = Counted(frames, 1)
             /\ bytes' = Counted(bytes, Len(FirstLine))
             /\ recent' = Append(recent, <<now, Len(FirstLine)>>)
             /\ why' = "rate" <=> OverRate(frames', bytes')
    <3>1. why = "none" /\ now' = now /\ Len(FirstLine) \in Nat
      BY <1>4, TakeCases
    <3>2. TimesOK' /\ \E k \in 0..Len(recent') : SplitAt(k)'
      BY <1>0, <2>2, <3>1, CountStep
    <3>3. frames' \in Nat /\ bytes' \in Nat /\ RateFrames \in Nat /\ RateBytes \in Nat
      BY TypeStep, LimitsAssumption DEF TypeOK
    <3>4. why' \notin {"rate", "closed"} => frames' <= RateFrames /\ bytes' <= RateBytes
      BY <2>2, <3>3 DEF OverRate
    <3>. QED BY <3>2, <3>4 DEF RateOK
  <2>. QED BY <1>4, <2>1, <2>2, TakeCases
<1>5. ASSUME NEW kind \in Kinds, PeerSends(kind) PROVE RateOK'
  BY <1>1, <1>5 DEF PeerSends, rate, history
<1>6. CASE PeerCloses \/ HandshakeReceives \/ HandshakeTakes \/ HandshakeRefuses \/ ReaderReceives
  BY <1>0, <1>1, <1>6 DEF PeerCloses, HandshakeReceives, HandshakeTakes, HandshakeRefuses,
     ReaderReceives, rate, history, Reading
<1>7. CASE End \/ ConnectionBreaks \/ CloseRoom \/ Poll
  BY <1>0, <1>1, <1>7 DEF End, EndOfStream, TellFailure, TellEnd, ConnectionBreaks,
     CloseRoom, Poll, rate, history, Reading
<1>. QED BY <1>2, <1>3, <1>4, <1>5, <1>6, <1>7 DEF Next, Handshake, Reader

-----------------------------------------------------------------------------
(* The queue. *)
\* Every step keeps the count of the bytes.
LEMMA BytesStep ==
  ASSUME IInv, Next
  PROVE  BytesAreCounted'
<1>0. TypeOK /\ StreamOK /\ BytesAreCounted /\ Notice \in Events
  BY EventTypes DEF IInv
<1>1. ASSUME UNCHANGED queue PROVE BytesAreCounted'
  BY <1>0, <1>1 DEF queue, BytesAreCounted
<1>2. CASE ReaderTakes
  BY <1>0, <1>2, TakeQueues DEF BytesAreCounted
<1>3. CASE TellFailure
  BY <1>0, <1>3, QueueStep DEF TellFailure, BytesAreCounted
<1>4. CASE TellEnd
  BY <1>0, <1>4, QueueStep DEF TellEnd, BytesAreCounted
<1>5. CASE CloseRoom
  BY <1>5, EmptyQueue DEF CloseRoom, Clear, BytesAreCounted
<1>6. CASE Poll
  BY <1>0, <1>6, PollStep DEF BytesAreCounted
<1>7. ASSUME NEW kind \in Kinds, PeerSends(kind) PROVE BytesAreCounted'
  BY <1>1, <1>7 DEF PeerSends
<1>8. CASE \/ PeerCloses \/ Tick \/ Handshake \/ ReaderStarts \/ ReaderReceives
           \/ EndOfStream \/ ConnectionBreaks
  BY <1>1, <1>8 DEF PeerCloses, Tick, Handshake, HandshakeReceives, HandshakeTakes,
     HandshakeRefuses, ReaderStarts, ReaderReceives, EndOfStream, ConnectionBreaks
<1>. QED BY <1>2, <1>3, <1>4, <1>5, <1>6, <1>7, <1>8 DEF Next, Reader, End

\* Every step keeps what an overflow leaves: room for the news of it.
LEMMA OverflowStep ==
  ASSUME IInv, Next
  PROVE  OverflowOK'
<1>0. /\ TypeOK /\ PhaseOK /\ OverflowOK /\ BytesAreCounted /\ StreamOK
      /\ (Reading => why = "none") /\ Notice \in Events
  BY EventTypes DEF IInv, PhaseOK
<1>1. CASE ReaderTakes
  <2>1. why' = "capacity" => phase' = "failed" /\ inbox' = <<>> /\ inboxBytes' = 0
    BY <1>1, TakeCases DEF Clear
  <2>. QED BY <2>1 DEF OverflowOK
<1>2. CASE TellFailure
  <2>0. phase = "failed" /\ phase' = "left" /\ why' = why /\ told' = told /\ Queue(Notice)
    BY <1>2 DEF TellFailure, output, history
  <2>1. ASSUME why = "capacity" PROVE Contains(inbox', Notice)
    <3>1. inbox = <<>> /\ inboxBytes = 0
      BY <1>0, <2>0, <2>1 DEF OverflowOK
    <3>2. Notice.size = NoticeBytes
      BY DEF Notice
    <3>3. Fits(Notice)
      BY <3>1, <3>2, LimitsAssumption DEF Fits
    <3>4. inbox' = Append(inbox, Notice)
      BY <1>0, <2>0, <3>3, QueueStep
    <3>5. inbox \in Seq(Events)
      BY <1>0 DEF TypeOK
    <3>. QED BY <1>0, <3>4, <3>5, AppendContains
  <2>. QED BY <2>0, <2>1 DEF OverflowOK
<1>3. CASE TellEnd
  <2>0. phase = "left" /\ phase' = "ended" /\ why' = why /\ told' = told /\ Queue(Notice)
    BY <1>3 DEF TellEnd, output, history
  <2>1. inbox' = inbox \/ inbox' = Append(inbox, Notice)
    BY <2>0 DEF Queue, queue
  <2>2. Contains(inbox, Notice) => Contains(inbox', Notice)
    BY <1>0, <2>1, AppendContains DEF TypeOK
  <2>. QED BY <1>0, <2>0, <2>2 DEF OverflowOK
<1>4. CASE Poll
  <2>1. told \/ Contains(inbox, Notice) => told' \/ Contains(inbox', Notice)
    BY <1>0, <1>4, PollStep
  <2>2. phase' = phase /\ why' = why /\ inbox # <<>>
    BY <1>4 DEF Poll, history
  <2>. QED BY <1>0, <2>1, <2>2 DEF OverflowOK
<1>5. ASSUME why' # "capacity" PROVE OverflowOK'
  BY <1>5 DEF OverflowOK
<1>6. ASSUME NEW kind \in Kinds, PeerSends(kind) PROVE OverflowOK'
  BY <1>0, <1>5, <1>6 DEF PeerSends, history
<1>7. CASE PeerCloses \/ Tick \/ Handshake \/ ReaderStarts \/ ReaderReceives
  BY <1>0, <1>5, <1>7 DEF PeerCloses, Tick, Handshake, HandshakeReceives, HandshakeTakes,
     HandshakeRefuses, ReaderStarts, ReaderReceives, Reading, history, Fail
<1>8. CASE EndOfStream \/ ConnectionBreaks \/ CloseRoom
  BY <1>0, <1>5, <1>8 DEF EndOfStream, ConnectionBreaks, CloseRoom, Reading, history, Fail
<1>. QED BY <1>1, <1>2, <1>3, <1>4, <1>6, <1>7, <1>8 DEF Next, Reader, End

-----------------------------------------------------------------------------
(* The causes of an end. *)
\* A session fails for its rate when the frames of the last second exceed it.
LEMMA RateTrueStep ==
  ASSUME IInv, Next
  PROVE  RateIsTrue'
<1>0. TypeOK /\ PhaseOK /\ RateOK /\ RateIsTrue /\ (Reading => why = "none")
  BY DEF IInv, PhaseOK
<1>1. CASE ReaderTakes
  <2>. SUFFICES ASSUME why' = "rate"
                PROVE  Len(recent') > RateFrames \/ Total(Lengths(recent')) > RateBytes
    BY DEF RateIsTrue
  <2>1. /\ why = "none" /\ now' = now /\ Len(FirstLine) \in Nat
        /\ started' = Started /\ frames' = Counted(frames, 1)
        /\ bytes' = Counted(bytes, Len(FirstLine))
        /\ recent' = Append(recent, <<now, Len(FirstLine)>>)
        /\ OverRate(frames', bytes')
    BY <1>1, TakeCases
  <2>2. now' < started' + Second /\ \E k \in 0..Len(recent') : SplitAt(k)'
    BY <1>0, <2>1, CountStep
  <2>3. PICK k \in 0..Len(recent') : SplitAt(k)'
    BY <2>2
  <2>4. Len(recent') = k + frames' /\ Total(Lengths(recent')) = Sum(k)' + bytes'
    BY <2>2, <2>3 DEF SplitAt
  <2>5. /\ recent' \in Seq(Nat \X Nat) /\ frames' \in Nat /\ bytes' \in Nat
        /\ RateFrames \in Nat /\ RateBytes \in Nat
    BY TypeStep, LimitsAssumption DEF TypeOK
  <2>6. Len(recent') \in Nat /\ Lengths(recent') \in Seq(Nat) /\ Len(Lengths(recent')) = Len(recent')
    BY <2>5, LengthsAre
  <2>7. Sum(k)' \in Nat
    <3>1. k \in 0..Len(Lengths(recent'))
      BY <2>6
    <3>2. Prefix(Lengths(recent'), k) \in Nat
      BY <2>6, <3>1, PrefixCounts
    <3>. QED BY <3>2 DEF Sum, Prefix
  <2>8. frames' > RateFrames => Len(recent') > RateFrames
    <3>1. k \in Nat
      BY <2>6
    <3>2. Len(recent') = k + frames'
      BY <2>4
    <3>3. \A f \in Nat : f > RateFrames => k + f > RateFrames
      BY <2>5, <3>1
    <3>. QED BY <2>5, <3>2, <3>3
  <2>9. bytes' > RateBytes => Total(Lengths(recent')) > RateBytes
    BY <2>4, <2>5, <2>7
  <2>. QED BY <2>1, <2>8, <2>9 DEF OverRate
<1>2. ASSUME why' # "rate" PROVE RateIsTrue'
  BY <1>2 DEF RateIsTrue
<1>3. ASSUME UNCHANGED <<recent, why>> PROVE RateIsTrue'
  BY <1>0, <1>3 DEF RateIsTrue
<1>4. ASSUME NEW kind \in Kinds, PeerSends(kind) PROVE RateIsTrue'
  BY <1>3, <1>4 DEF PeerSends, history
<1>5. CASE Tick \/ PeerCloses \/ Handshake \/ ReaderStarts \/ ReaderReceives
  BY <1>0, <1>2, <1>5 DEF Tick, PeerCloses, Handshake, HandshakeReceives, HandshakeTakes,
     HandshakeRefuses, ReaderStarts, ReaderReceives, Reading, history, Fail
<1>6. CASE EndOfStream \/ ConnectionBreaks \/ CloseRoom
  BY <1>0, <1>2, <1>6 DEF EndOfStream, ConnectionBreaks, CloseRoom, Reading, Fail
<1>7. CASE TellFailure \/ TellEnd \/ Poll
  BY <1>3, <1>7 DEF TellFailure, TellEnd, Poll, history
<1>. QED BY <1>1, <1>4, <1>5, <1>6, <1>7 DEF Next, Reader, End

\* A session fails for the size of a frame when the frame is too large.
LEMMA SizeTrueStep ==
  ASSUME IInv, Next
  PROVE  SizeIsTrue'
<1>0. /\ TypeOK /\ PhaseOK /\ StreamOK /\ SizeIsTrue /\ (Reading => why = "none")
      /\ sent \in Seq(Kinds) /\ Len(sent) \in Nat /\ DOMAIN sent = 1..Len(sent)
      /\ done \in Nat /\ buffer \in Seq(Nat) /\ Len(buffer) \in Nat
      /\ HandshakeFrames \in Nat /\ MaxHandshake \in Nat /\ MaxApplication \in Nat
      /\ MaxFrame \in Nat /\ MaxApplication <= MaxFrame /\ Chunk \in Int
  BY LenProperties, LimitsAssumption DEF IInv, PhaseOK, TypeOK
<1>1. \A i \in 1..Len(sent) : sent[i].raw \in Nat
  <2>1. \A i \in 1..Len(sent) : sent[i] \in Kinds
    BY <1>0, ElementOfSeq
  <2>. QED BY <2>1, KindsAssumption
<1>2. CASE HandshakeRefuses
  <2>0. /\ phase = "handshake" /\ HandshakeTooLarge /\ Reading /\ done < HandshakeFrames
        /\ sent' = sent /\ done' = done
    BY <1>0, <1>2 DEF HandshakeRefuses, Reading, PhaseOK, input
  <2>1. done + 1 \in 1..Len(sent) /\ sent[done + 1].raw > MaxHandshake
    <3>1. CASE HasLine
      <4>1. /\ done + 1 \in 1..Len(sent) /\ LineEnd = sent[done + 1].raw + 1
            /\ sent[done + 1].raw \in Nat
        BY <1>0, <2>0, <3>1, LineIs
      <4>2. LineEnd - 1 > MaxHandshake
        BY <2>0, <3>1 DEF HandshakeTooLarge
      <4>. QED BY <1>0, <4>1, <4>2
    <3>2. CASE ~HasLine
      <4>1. Len(buffer) > MaxHandshake
        BY <2>0, <3>2 DEF HandshakeTooLarge
      <4>2. /\ done + 1 \in 1..Len(sent) => Len(buffer) <= sent[done + 1].raw
            /\ Len(buffer) # 0 => done + 1 \in 1..Len(sent)
        BY <1>0, <2>0, <3>2, LineIs
      <4>3. done + 1 \in 1..Len(sent)
        BY <1>0, <4>1, <4>2
      <4>. QED BY <1>0, <1>1, <4>1, <4>2, <4>3
    <3>. QED BY <3>1, <3>2
  <2>2. done + 1 <= HandshakeFrames
    BY <1>0, <2>0
  <2>. QED BY <1>0, <2>0, <2>1, <2>2 DEF SizeIsTrue
<1>3. CASE ReaderReceives
  <2>0. /\ phase = "reader" /\ Reading /\ done >= HandshakeFrames /\ why = "none"
        /\ sent' = sent /\ done' = done /\ Receive(Chunk)
        /\ why' = "large" => Len(buffer') > MaxFrame /\ ~Contains(buffer', Newline)
    BY <1>0, <1>3 DEF ReaderReceives, Reading, PhaseOK, Fail
  <2>. SUFFICES ASSUME why' = "large" PROVE SizeIsTrue'
    BY DEF SizeIsTrue
  <2>1. OnTheWay'
    BY <1>0, <2>0, ReceiveStep DEF StreamOK, OnTheWay
  <2>2. PICK pos : Carries(buffer' \o wire', sent, done, pos)
    BY <2>0, <2>1 DEF OnTheWay
  <2>3. buffer' \in Seq(Nat) /\ wire' \in Seq(Nat) /\ Len(buffer') \in Nat /\ done <= Len(sent)
    BY <2>0, <2>1, TypeStep, LenProperties DEF TypeOK, OnTheWay
  <2>4. /\ done + 1 \in 1..Len(sent) => Len(buffer') <= sent[done + 1].raw
        /\ Len(buffer') # 0 => done + 1 \in 1..Len(sent)
    BY <1>0, <2>0, <2>2, <2>3, LineOfBuffer
  <2>5. done + 1 \in 1..Len(sent)
    BY <1>0, <2>0, <2>3, <2>4
  <2>6. sent[done + 1].raw > MaxApplication /\ ~(done + 1 <= HandshakeFrames)
    BY <1>0, <1>1, <2>0, <2>3, <2>4, <2>5
  <2>. QED BY <1>0, <2>0, <2>5, <2>6 DEF SizeIsTrue
<1>4. CASE ReaderTakes
  <2>. SUFFICES ASSUME why' = "large" PROVE SizeIsTrue'
    BY DEF SizeIsTrue
  <2>1. Len(FirstLine) > MaxApplication /\ phase = "reader" /\ Reading /\ HasLine
    BY <1>4, TakeCases DEF ReaderTakes, Reading
  <2>2. done >= HandshakeFrames /\ sent' = sent /\ done' = done + 1
    BY <1>0, <1>4, <2>1 DEF PhaseOK, ReaderTakes, DropLine, input
  <2>3. done + 1 \in 1..Len(sent) /\ Len(FirstLine) = sent[done + 1].raw
    BY <1>0, <2>1, LineIs
  <2>4. sent[done + 1].raw > MaxApplication /\ ~(done + 1 <= HandshakeFrames)
    BY <1>0, <2>1, <2>2, <2>3
  <2>. QED BY <1>0, <2>2, <2>3, <2>4 DEF SizeIsTrue
<1>5. ASSUME why' # "large" PROVE SizeIsTrue'
  BY <1>5 DEF SizeIsTrue
<1>6. ASSUME UNCHANGED <<sent, done, why>> PROVE SizeIsTrue'
  BY <1>0, <1>6 DEF SizeIsTrue
<1>7. ASSUME NEW kind \in Kinds, PeerSends(kind) PROVE SizeIsTrue'
  BY <1>0, <1>5, <1>7 DEF PeerSends, history
<1>8. CASE Tick \/ PeerCloses \/ HandshakeReceives \/ HandshakeTakes \/ ReaderStarts
  BY <1>0, <1>5, <1>8 DEF Tick, PeerCloses, HandshakeReceives, HandshakeTakes,
     ReaderStarts, Reading, history, Fail
<1>9. CASE EndOfStream \/ ConnectionBreaks \/ CloseRoom
  BY <1>0, <1>5, <1>9 DEF EndOfStream, ConnectionBreaks, CloseRoom, Reading, Fail
<1>10. CASE TellFailure \/ TellEnd \/ Poll
  BY <1>6, <1>10 DEF TellFailure, TellEnd, Poll, input, history
<1>. QED BY <1>2, <1>3, <1>4, <1>7, <1>8, <1>9, <1>10 DEF Next, Handshake, Reader, End

\* A session ends with the stream when all of it has been taken.
LEMMA CompleteStep ==
  ASSUME IInv, Next
  PROVE  EndIsComplete'
<1>0. TypeOK /\ StreamOK /\ EndIsComplete /\ (Reading => why = "none")
  BY DEF IInv, PhaseOK
<1>1. CASE EndOfStream
  <2>1. Reading /\ ~HasLine /\ wire = <<>> /\ sent' = sent /\ done' = done
    BY <1>1 DEF EndOfStream, Reading, input
  <2>2. done = Len(sent)
    BY <1>0, <2>1, LineIs
  <2>. QED BY <2>1, <2>2 DEF EndIsComplete
<1>2. ASSUME why' # "eof" PROVE EndIsComplete'
  BY <1>2 DEF EndIsComplete
<1>3. ASSUME UNCHANGED <<sent, done, why>> PROVE EndIsComplete'
  BY <1>0, <1>3 DEF EndIsComplete
<1>4. ASSUME NEW kind \in Kinds, PeerSends(kind) PROVE EndIsComplete'
  BY <1>0, <1>2, <1>4 DEF PeerSends, history
<1>5. CASE ReaderTakes
  <2>1. why' \in {"none", "large", "rate", "capacity"}
    BY <1>5, TakeCases
  <2>. QED BY <1>2, <2>1
<1>6. CASE Tick \/ PeerCloses \/ Handshake \/ ReaderStarts \/ ReaderReceives
  BY <1>0, <1>2, <1>6 DEF Tick, PeerCloses, Handshake, HandshakeReceives, HandshakeTakes,
     HandshakeRefuses, ReaderStarts, ReaderReceives, Reading, history, Fail
<1>7. CASE ConnectionBreaks \/ CloseRoom
  BY <1>2, <1>7 DEF ConnectionBreaks, CloseRoom, Fail
<1>8. CASE TellFailure \/ TellEnd \/ Poll
  BY <1>3, <1>8 DEF TellFailure, TellEnd, Poll, input, history
<1>. QED BY <1>1, <1>4, <1>5, <1>6, <1>7, <1>8 DEF Next, Reader, End

-----------------------------------------------------------------------------
(* The theorems. *)
\* The session starts with nothing sent, taken or queued.
LEMMA InitIInv == Init => IInv
<1>. SUFFICES ASSUME Init PROVE IInv
  OBVIOUS
<1>0. /\ <<>> \in Seq(Nat) /\ <<>> \in Seq(Kinds) /\ <<>> \in Seq(Nat \X Nat)
      /\ <<>> \in Seq(Events) /\ Len(<<>>) = 0
  OBVIOUS
<1>1. HandshakeFrames \in Nat \ {0} /\ RateFrames \in Nat /\ RateBytes \in Nat /\ Second \in Nat \ {0}
  BY LimitsAssumption
<1>2. TypeOK
  <2>1. /\ now \in Nat /\ started \in Nat /\ started <= now /\ frames \in Nat
        /\ bytes \in Nat /\ inboxBytes \in Nat /\ done \in Nat
    BY DEF Init
  <2>2. eof \in BOOLEAN /\ told \in BOOLEAN /\ phase \in Phases /\ why \in Causes
    BY DEF Init, Phases, Causes
  <2>3. sent \in Seq(Kinds) /\ wire \in Seq(Nat) /\ buffer \in Seq(Nat)
        /\ inbox \in Seq(Events) /\ recent \in Seq(Nat \X Nat)
    BY <1>0 DEF Init
  <2>. QED BY <2>1, <2>2, <2>3 DEF TypeOK
<1>3. PhaseOK
  BY <1>1 DEF Init, PhaseOK, Reading
<1>4. StreamOK
  <2> DEFINE pos == [i \in 0..0 |-> 0]
  <2>1. <<>> \o <<>> = <<>>
    OBVIOUS
  <2>2. pos \in [0..0 -> Nat] /\ pos[0] = 0 /\ \A i \in 0..0 : i = 0
    OBVIOUS
  <2>3. Carries(<<>> \o <<>>, <<>>, 0, pos)
    <3>. HIDE DEF pos
    <3>. QED BY <1>0, <2>1, <2>2 DEF Carries
  <2>. QED BY <1>0, <2>3 DEF Init, StreamOK
<1>5. RateOK
  <2>1. recent = <<>> /\ started = 0 /\ now = 0 /\ frames = 0 /\ bytes = 0 /\ Len(recent) = 0
    BY DEF Init
  <2>2. /\ Sum(0) = 0 /\ Sum(Len(recent)) = Total(Lengths(recent))
    BY <1>0, <2>1, SumIs
  <2>3. SplitAt(0)
    BY <1>1, <2>1, <2>2 DEF SplitAt
  <2>4. TimesOK
    BY <2>1 DEF TimesOK
  <2>. QED BY <1>1, <2>1, <2>3, <2>4 DEF RateOK
<1>6. BytesAreCounted
  BY EmptyQueue DEF Init, BytesAreCounted
<1>. QED BY <1>2, <1>3, <1>4, <1>5, <1>6
         DEF Init, IInv, OverflowOK, RateIsTrue, SizeIsTrue, EndIsComplete

\* Nothing else changes it.
LEMMA IInvStep == IInv /\ [Next]_vars => IInv'
<1>. SUFFICES ASSUME IInv, [Next]_vars PROVE IInv'
  OBVIOUS
<1>1. CASE Next
  <2>1. TypeOK' /\ PhaseOK' /\ StreamOK' /\ RateOK' /\ OverflowOK'
    BY <1>1, TypeStep, PhaseStep, StreamStep, RateStep, OverflowStep
  <2>2. BytesAreCounted' /\ RateIsTrue' /\ SizeIsTrue' /\ EndIsComplete'
    BY <1>1, BytesStep, RateTrueStep, SizeTrueStep, CompleteStep
  <2>. QED BY <2>1, <2>2 DEF IInv
<1>2. CASE UNCHANGED vars
  <2>1. UNCHANGED <<now, sent, wire, eof, phase, buffer, started, frames, bytes, inbox,
                    inboxBytes, polled, told, done, recent, why>>
    BY <1>2 DEF vars, input, rate, queue, output, history
  <2>2. TypeOK' /\ PhaseOK' /\ StreamOK' /\ OverflowOK'
    BY <2>1 DEF IInv, TypeOK, PhaseOK, StreamOK, OverflowOK, Reading
  <2>3. RateOK'
    <3>1. PICK k \in 0..Len(recent) : SplitAt(k)
      BY DEF IInv, RateOK
    <3>2. SplitAt(k)'
      BY <2>1, <3>1 DEF SplitAt, Sum
    <3>3. k \in 0..Len(recent')
      BY <2>1
    <3>. QED BY <2>1, <3>2, <3>3 DEF IInv, RateOK, TimesOK
  <2>4. BytesAreCounted' /\ RateIsTrue' /\ SizeIsTrue' /\ EndIsComplete'
    BY <2>1 DEF IInv, BytesAreCounted, RateIsTrue, SizeIsTrue, EndIsComplete
  <2>. QED BY <2>2, <2>3, <2>4 DEF IInv
<1>. QED BY <1>1, <1>2

\* Whatever arrives in whatever pieces, the inductive invariant holds.
THEOREM InboundInvariant == FairSpec => []IInv
<1>. QED BY InitIInv, IInvStep, PTL DEF FairSpec

\* The byte count of the queue is that of its events, and both limits hold.
THEOREM BytesCounted == FairSpec => []BytesAreCounted
<1>1. IInv => BytesAreCounted
  BY DEF IInv
<1>. QED BY <1>1, InboundInvariant, PTL

\* Within no second more is taken than two windows allow.
THEOREM RateBounded == FairSpec => []RateIsBounded
<1>1. IInv => RateIsBounded
  <2>. SUFFICES ASSUME IInv, why \notin {"rate", "closed"}
                PROVE  Len(recent) <= 2 * RateFrames /\ Total(Lengths(recent)) <= 2 * RateBytes
    BY DEF RateIsBounded
  <2>1. /\ recent \in Seq(Nat \X Nat) /\ frames \in Nat /\ bytes \in Nat
        /\ RateFrames \in Nat /\ RateBytes \in Nat
        /\ frames <= RateFrames /\ bytes <= RateBytes
    BY LimitsAssumption DEF IInv, TypeOK, RateOK
  <2>2. PICK k \in 0..Len(recent) : SplitAt(k)
    BY DEF IInv, RateOK
  <2>3. Len(recent) \in Nat /\ k \in Nat /\ Sum(k) \in Nat /\ Total(Lengths(recent)) \in Nat
    <3>1. Len(recent) \in Nat
      BY <2>1, LengthsAre
    <3>. QED BY <2>1, <3>1, SumIs
  <2>4. /\ k <= RateFrames /\ Sum(k) <= RateBytes
        /\ Len(recent) <= k + frames /\ Total(Lengths(recent)) <= Sum(k) + bytes
    BY <2>2 DEF SplitAt
  <2>5. Len(recent) <= 2 * RateFrames
    BY <2>1, <2>3, <2>4
  <2>6. Total(Lengths(recent)) <= 2 * RateBytes
    BY <2>1, <2>3, <2>4
  <2>. QED BY <2>5, <2>6
<1>. QED BY <1>1, InboundInvariant, PTL

\* A session ends for what has happened: for a limit that is exceeded, for a stream that
\* is complete, and after an overflow with news that have room.
THEOREM EndTrue == FairSpec => []EndIsTrue
<1>1. IInv => EndIsTrue
  BY DEF IInv, EndIsTrue, OverflowOK, OverflowIsTold
<1>. QED BY <1>1, InboundInvariant, PTL
=====
