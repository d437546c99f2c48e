------------------------- MODULE AppFrontend_proofs -------------------------
(***************************************************************************)
(* What the interface shows, for any number of calls in flight, commands,  *)
(* sessions, texts and drafts, and replies that come in any order:         *)
(*   - VerifiedShownIsTrue: a reply that tells of a verified participant   *)
(*     is only given when both have confirmed a session;                   *)
(*   - BubbleWasSent: a bubble of the user's own waits for the reply to    *)
(*     the send of that very text;                                         *)
(*   - PeerTextsInOrder: the texts that are shown come before those of the *)
(*     one poll in flight, and these before those of the queue.            *)
(*                                                                         *)
(* A poll shows its events in a loop.  What the loop keeps is proved by    *)
(* induction over its rounds, with the sets that each round stays in.      *)
(***************************************************************************)
EXTENDS AppFrontend, TLAPS, Integers, SequenceTheorems, FiniteSetTheorems

(* Types. *)
Channels == {"disconnected", "pending", "confirmed", "failed"}
Names    == {"chat", "peer_joined", "peer_verified", "peer_left", "channel_failed", "room_deleted"}
Event    == Names \X Nat
Backs    == [room : {"none", "host", "guest"}, session : Nat, channel : Channels,
             local : BOOLEAN, peer : BOOLEAN]
States   == [channel : Channels, code : Nat, verified : BOOLEAN, local : BOOLEAN, peer : BOOLEAN]
Words    == {"none", "busy", "error", "sent", "verified", "waiting", "ready", "closed"}
Reply    == [status : Words]
            \cup [status : {"connected"}, security : States]
            \cup [status : {"ok"}, events : Seq(Event), security : States, peers : Nat]
Commands == {"none", "poll", "send", "confirm", "create", "join", "close"}
Stages   == {"free", "issued", "running", "replied"}
Calls    == [cmd : Commands, text : Nat, stage : Stages, reply : Reply]
Bubbles  == [mine : BOOLEAN, text : Nat]
Views    == {"lobby", "room-ready", "chat"}

BackType ==
    /\ back \in Backs /\ inbox \in Seq(Event) /\ sent \subseteq Nat /\ everVerified \in BOOLEAN
    /\ used \in [{"commands", "sessions", "texts", "drafts", "faults"} -> Nat]
CallType == holder \in Slots \cup {Idle} /\ call \in [Slots -> Calls]
ViewType ==
    /\ shown \in States /\ peerCount \in Nat /\ available \in BOOLEAN /\ view \in Views
    /\ messages \in Seq(Bubbles) /\ draft \in Nat /\ isPolling \in BOOLEAN
TypeOK == BackType /\ CallType /\ ViewType

(* VerifiedShownIsTrue and BubbleWasSent. *)
\* A reply says that a session is verified, or that the text of its call is sent,
\* only when that is so; only a poll brings events.
ReplyIsTrue(c) ==
    /\ c.reply.status \in {"ok", "connected"} /\ c.reply.security.verified => everVerified
    /\ c.reply.status = "verified" => everVerified
    /\ c.reply.status = "sent" => c.text \in sent
    /\ c.reply.status = "ok" => c.stage = "replied" /\ c.cmd = "poll"
RepliesAreTrue == \A s \in Slots : ReplyIsTrue(call[s])
ConfirmedIsTrue == BothConfirmed(back) => everVerified

(* PeerTextsInOrder. *)
IsText(e)  == e[1] = "chat" /\ e[2] # 0
OfPeer(b)  == ~b.mine /\ b.text # 0
\* The events that a poll is about to show.
Coming(s) == IF call[s].reply.status = "ok" THEN call[s].reply.events ELSE <<>>

BubblesInOrder(list) ==
    \A i, j \in 1..Len(list) : i < j /\ OfPeer(list[i]) /\ OfPeer(list[j]) =>
        list[i].text < list[j].text
EventsInOrder(q) ==
    \A i, j \in 1..Len(q) : i < j /\ IsText(q[i]) /\ IsText(q[j]) => q[i][2] < q[j][2]
\* Every text of the list, and every one of the events p, comes before those of q.
ListBefore(list, q) ==
    \A i \in 1..Len(list), j \in 1..Len(q) : OfPeer(list[i]) /\ IsText(q[j]) =>
        list[i].text < q[j][2]
EventsBefore(p, q) ==
    \A i \in 1..Len(p), j \in 1..Len(q) : IsText(p[i]) /\ IsText(q[j]) => p[i][2] < q[j][2]
ListUpTo(list, n) == \A i \in 1..Len(list) : OfPeer(list[i]) => list[i].text <= n
EventsUpTo(q, n) == \A i \in 1..Len(q) : IsText(q[i]) => q[i][2] <= n

\* isPolling admits one poll at a time, ...
OnePoll ==
    /\ \A s \in Slots : call[s].cmd = "poll" => isPolling
    /\ \A s, r \in Slots : call[s].cmd = "poll" /\ call[r].cmd = "poll" => s = r

\* ... so that what is shown, what comes and what waits are in order, and no text
\* of the peer is newer than the last that was queued.
TextsInOrder ==
    /\ BubblesInOrder(messages) /\ EventsInOrder(inbox) /\ ListBefore(messages, inbox)
    /\ ListUpTo(messages, used.texts) /\ EventsUpTo(inbox, used.texts)
    /\ \A s \in Slots :
        /\ EventsInOrder(Coming(s)) /\ ListBefore(messages, Coming(s))
        /\ EventsBefore(Coming(s), inbox) /\ EventsUpTo(Coming(s), used.texts)

IInv ==
    /\ TypeOK /\ RepliesAreTrue /\ ConfirmedIsTrue /\ VerifiedShownIsTrue /\ BubbleWasSent
    /\ OnePoll /\ TextsInOrder

-----------------------------------------------------------------------------
(* Induction. *)
\* Induction over the numbers, with the set of those for which it holds: counting
\* up would map the members up to n injectively to members without 0.
LEMMA SetInduction ==
  ASSUME NEW S, 0 \in S, \A n \in Nat : n \in S => n + 1 \in S
  PROVE  \A n \in Nat : n \in S
<1>. SUFFICES ASSUME NEW n \in Nat, n \notin S PROVE FALSE
  OBVIOUS
<1> DEFINE A == S \cap (0..n)
<1> DEFINE B == A \ {0}
<1> DEFINE f == [x \in A |-> x + 1]
<1>1. IsFiniteSet(0..n)
  BY FS_Interval
<1>2. IsFiniteSet(A)
  <2>1. A \in SUBSET (0..n)
    OBVIOUS
  <2>. QED BY <1>1, <2>1, FS_Subset
<1>3. 0 \in A /\ f \in [A -> B]
  OBVIOUS
<1>4. \A x, y \in A : f[x] = f[y] => x = y
  OBVIOUS
<1>. HIDE DEF A, f
<1>5. IsFiniteSet(B) /\ Cardinality(B) = Cardinality(A) - 1 /\ Cardinality(A) \in Nat
  BY <1>2, <1>3, FS_RemoveElement, FS_CardinalityType
<1>6. Cardinality(B) < Cardinality(A)
  BY <1>5
<1>. HIDE DEF B
<1>. QED BY <1>2, <1>3, <1>4, <1>5, <1>6, FS_PigeonHole

\* The rounds of the loop over a reply's events exist, and are what the definition
\* says of them.
LEMMA RoundsExist ==
  ASSUME NEW acc, NEW reply, NEW k \in Nat
  PROVE  \E g : g = [n \in 0..k |-> IF n = 0 THEN acc
                                    ELSE ShowEvent(g[n - 1], reply.events[n], reply)]
<1> DEFINE Round(g, n) == IF n = 0 THEN acc ELSE ShowEvent(g[n - 1], reply.events[n], reply)
<1> DEFINE S == {m \in Nat : \E g : g = [n \in 0..m |-> Round(g, n)]}
<1>1. 0 \in S
  <2>1. [n \in 0..0 |-> acc] = [n \in 0..0 |-> Round([i \in 0..0 |-> acc], n)]
    OBVIOUS
  <2>. QED BY <2>1
<1>2. ASSUME NEW m \in Nat, m \in S PROVE m + 1 \in S
  <2>1. PICK g : g = [n \in 0..m |-> Round(g, n)]
    BY <1>2
  <2> DEFINE h == [n \in 0..(m + 1) |-> IF n = m + 1 THEN Round(g, m + 1) ELSE g[n]]
  <2>2. ASSUME NEW n \in 0..(m + 1) PROVE h[n] = Round(h, n)
    <3>1. CASE n = m + 1
      <4>1. n # 0 /\ n - 1 \in 0..m /\ n - 1 # m + 1
        BY <3>1
      <4>2. h[n] = ShowEvent(g[n - 1], reply.events[n], reply) /\ h[n - 1] = g[n - 1]
        BY <3>1, <4>1
      <4>. QED BY <4>1, <4>2
    <3>2. CASE n # m + 1
      <4>1. n \in 0..m /\ h[n] = g[n] /\ g[n] = Round(g, n)
        BY <2>1, <3>2
      <4>2. CASE n = 0
        BY <4>1, <4>2
      <4>3. CASE n # 0
        <5>1. n - 1 \in 0..m /\ h[n - 1] = g[n - 1]
          BY <4>1, <4>3
        <5>. QED BY <4>1, <4>3, <5>1
      <4>. QED BY <4>2, <4>3
    <3>. QED BY <3>1, <3>2
  <2>3. h = [n \in 0..(m + 1) |-> Round(h, n)]
    <3>. HIDE DEF Round
    <3>. QED BY <2>2
  <2>4. \E x : x = [n \in 0..(m + 1) |-> Round(x, n)]
    <3>. HIDE DEF h, Round
    <3>. QED BY <2>3
  <2>. QED BY <2>4
<1>3. \A m \in Nat : m \in S
  <2>. HIDE DEF S
  <2>. QED BY <1>1, <1>2, SetInduction
<1>. QED BY <1>3

\* The loop stays, round by round, within the sets that each round stays in.
LEMMA ShowEventsStay ==
  ASSUME NEW acc, NEW reply, NEW G, Len(reply.events) \in Nat, acc \in G[0],
         \A n \in 1..Len(reply.events) : \A a \in G[n - 1] :
            ShowEvent(a, reply.events[n], reply) \in G[n]
  PROVE  ShowEvents(acc, reply) \in G[Len(reply.events)]
<1> DEFINE k == Len(reply.events)
<1> DEFINE Round(g, n) == IF n = 0 THEN acc ELSE ShowEvent(g[n - 1], reply.events[n], reply)
<1> DEFINE after == CHOOSE g : g = [n \in 0..k |-> Round(g, n)]
<1>1. after = [n \in 0..k |-> Round(after, n)]
  BY RoundsExist
<1>2. ShowEvents(acc, reply) = after[k]
  BY DEF ShowEvents
<1>3. ASSUME NEW n \in 0..k PROVE after[n] = Round(after, n)
  <2>. HIDE DEF Round, after
  <2>. QED BY <1>1
<1>. HIDE DEF after
<1> DEFINE S == {n \in Nat : n <= k => after[n] \in G[n]}
<1>4. 0 \in S
  BY <1>3
<1>5. ASSUME NEW n \in Nat, n \in S PROVE n + 1 \in S
  <2>. SUFFICES ASSUME n + 1 <= k PROVE after[n + 1] \in G[n + 1]
    OBVIOUS
  <2>1. n + 1 \in 1..k /\ n + 1 \in 0..k /\ (n + 1) - 1 = n /\ n + 1 # 0 /\ after[n] \in G[n]
    BY <1>5
  <2>2. after[n + 1] = ShowEvent(after[n], reply.events[n + 1], reply)
    BY <1>3, <2>1
  <2>. QED BY <2>1, <2>2
<1>6. \A n \in Nat : n \in S
  <2>. HIDE DEF S
  <2>. QED BY <1>4, <1>5, SetInduction
<1>. QED BY <1>2, <1>6

-----------------------------------------------------------------------------
(* What one bubble and one event change. *)
SentOnly(list) == \A i \in 1..Len(list) : list[i].mine => list[i].text \in sent
Accs == [messages : Seq(Bubbles), view : Views, again : BOOLEAN]

\* A bubble comes last, and the others are those of the list, the first of which
\* may be gone.
LEMMA BubbleComesLast ==
  ASSUME NEW list \in Seq(Bubbles), NEW mine \in BOOLEAN, NEW text \in Nat
  PROVE  /\ Bubble(list, mine, text) \in Seq(Bubbles)
         /\ \E k \in {0, 1} : \A i \in 1..Len(Bubble(list, mine, text)) :
              \/ /\ i + k \in 1..Len(list)
                 /\ Bubble(list, mine, text)[i] = list[i + k]
              \/ /\ i = Len(Bubble(list, mine, text))
                 /\ Bubble(list, mine, text)[i] = [mine |-> mine, text |-> text]
<1> DEFINE b == [mine |-> mine, text |-> text]
<1> DEFINE all == Append(list, b)
<1>1. /\ b \in Bubbles /\ all \in Seq(Bubbles) /\ all # <<>> /\ Len(all) = Len(list) + 1
      /\ Len(list) \in Nat /\ all[Len(all)] = b /\ \A i \in 1..Len(list) : all[i] = list[i]
  <2>1. b \in Bubbles /\ Len(list) \in Nat
    BY LenProperties DEF Bubbles
  <2>. QED BY <2>1, AppendProperties
<1>2. /\ Tail(all) \in Seq(Bubbles) /\ Len(Tail(all)) = Len(all) - 1
      /\ \A i \in 1..Len(Tail(all)) : Tail(all)[i] = all[i + 1]
  <2>. HIDE DEF all
  <2>. QED BY <1>1, HeadTailProperties
<1>3. Bubble(list, mine, text) = all \/ Bubble(list, mine, text) = Tail(all)
  BY DEF Bubble
<1>. HIDE DEF all, b
<1>4. CASE Bubble(list, mine, text) = all
  <2>1. \A i \in 1..Len(all) : (i + 0 \in 1..Len(list) /\ all[i] = list[i + 0])
                                  \/ (i = Len(all) /\ all[i] = b)
    BY <1>1
  <2>. QED BY <1>1, <1>4, <2>1 DEF b
<1>5. CASE Bubble(list, mine, text) = Tail(all)
  <2> DEFINE t == Tail(all)
  <2>1. \A i \in 1..Len(t) : (i + 1 \in 1..Len(list) /\ t[i] = list[i + 1])
                                \/ (i = Len(t) /\ t[i] = b)
    <3>. SUFFICES ASSUME NEW i \in 1..Len(t)
                  PROVE  (i + 1 \in 1..Len(list) /\ t[i] = list[i + 1])
                            \/ (i = Len(t) /\ t[i] = b)
      OBVIOUS
    <3>1. t[i] = all[i + 1] /\ i + 1 \in 1..Len(all)
      BY <1>1, <1>2
    <3>. QED BY <1>1, <1>2, <3>1
  <2>. QED BY <1>2, <1>5, <2>1 DEF b
<1>. QED BY <1>3, <1>4, <1>5

\* A reply's events leave what is shown in order, before what waits, and the
\* bubbles of the user's own what they were.
LEMMA ShownInOrder ==
  ASSUME NEW list \in Seq(Bubbles), NEW v \in Views, NEW reply, reply.events \in Seq(Event),
         NEW q \in Seq(Event), NEW top \in Nat,
         SentOnly(list), BubblesInOrder(list), ListBefore(list, reply.events),
         ListBefore(list, q), ListUpTo(list, top), EventsInOrder(reply.events),
         EventsBefore(reply.events, q), EventsUpTo(reply.events, top)
  PROVE  LET after == ShowEvents([messages |-> list, view |-> v, again |-> FALSE], reply)
         IN  /\ after \in Accs /\ SentOnly(after.messages) /\ BubblesInOrder(after.messages)
             /\ ListBefore(after.messages, q) /\ ListUpTo(after.messages, top)
<1> DEFINE events == reply.events
<1> DEFINE k == Len(events)
<1> DEFINE Rest(l, n) == \A i \in 1..Len(l), j \in n + 1 .. k :
                            OfPeer(l[i]) /\ IsText(events[j]) => l[i].text < events[j][2]
<1> DEFINE Good(a, n) == /\ SentOnly(a.messages) /\ BubblesInOrder(a.messages)
                         /\ ListBefore(a.messages, q) /\ ListUpTo(a.messages, top)
                         /\ Rest(a.messages, n)
<1> DEFINE G == [n \in 0..k |-> {a \in Accs : Good(a, n)}]
<1> DEFINE acc == [messages |-> list, view |-> v, again |-> FALSE]
<1>1. k \in Nat /\ \A n \in 1..k : events[n] \in Event
  BY ElementOfSeq, LenProperties
<1>2. acc \in G[0]
  <2>1. acc \in Accs /\ acc.messages = list /\ 0 \in 0..k
    BY <1>1 DEF Accs
  <2>2. Rest(list, 0)
    BY <1>1 DEF ListBefore
  <2>. HIDE DEF acc, Rest
  <2>. QED BY <2>1, <2>2
<1>3. ASSUME NEW n \in 1..k, NEW a \in G[n - 1]
      PROVE  ShowEvent(a, events[n], reply) \in G[n]
  <2> DEFINE e == events[n]
  <2>1. /\ n \in 0..k /\ n - 1 \in 0..k /\ a \in Accs /\ Good(a, n - 1)
        /\ e \in Event /\ a.messages \in Seq(Bubbles) /\ e[2] \in Nat /\ Len(a.messages) \in Nat
    <3>1. n \in 0..k /\ n - 1 \in 0..k /\ e \in Event
      BY <1>1
    <3>2. a \in Accs /\ Good(a, n - 1)
      <4>. HIDE DEF Good
      <4>. QED BY <3>1
    <3>. QED BY <3>1, <3>2, LenProperties DEF Accs, Event
  <2>2. Rest(a.messages, n)
    <3>1. n + 1 .. k \subseteq (n - 1) + 1 .. k
      BY <1>1
    <3>. QED BY <2>1, <3>1
  <2>. SUFFICES /\ ShowEvent(a, e, reply) \in Accs
                /\ Good(ShowEvent(a, e, reply), n)
    <3>. HIDE DEF Good
    <3>. QED BY <2>1
  <2>3. CASE e[1] = "chat"
    <3> DEFINE b == [mine |-> FALSE, text |-> e[2]]
    <3> DEFINE l == Bubble(a.messages, FALSE, e[2])
    <3>1. ShowEvent(a, e, reply) = [a EXCEPT !.messages = l]
      BY <2>3 DEF ShowEvent
    <3>2. l \in Seq(Bubbles) /\ Len(l) \in Nat
      BY <2>1, BubbleComesLast, LenProperties
    <3>3. PICK d \in {0, 1} : \A i \in 1..Len(l) :
                \/ i + d \in 1..Len(a.messages) /\ l[i] = a.messages[i + d]
                \/ i = Len(l) /\ l[i] = b
      BY <2>1, BubbleComesLast
    <3>. HIDE DEF l
    <3>4. b.mine = FALSE /\ b.text = e[2] /\ IsText(e) = (e[2] # 0)
      BY <2>3 DEF IsText
    <3>. HIDE DEF b
    <3>9. SentOnly(l)
      <4>. SUFFICES ASSUME NEW i \in 1..Len(l), l[i].mine PROVE l[i].text \in sent
        BY DEF SentOnly
      <4>1. i + d \in 1..Len(a.messages) /\ l[i] = a.messages[i + d]
        BY <3>3, <3>4
      <4>. QED BY <2>1, <4>1 DEF SentOnly
    <3>5. BubblesInOrder(l)
      <4>. SUFFICES ASSUME NEW i \in 1..Len(l), NEW j \in 1..Len(l), i < j,
                           OfPeer(l[i]), OfPeer(l[j])
                    PROVE  l[i].text < l[j].text
        BY DEF BubblesInOrder
      <4>1. i # Len(l) /\ i + d < j + d
        BY <3>2
      <4>2. i + d \in 1..Len(a.messages) /\ l[i] = a.messages[i + d]
        BY <3>3, <4>1
      <4>3. CASE j + d \in 1..Len(a.messages) /\ l[j] = a.messages[j + d]
        BY <2>1, <4>1, <4>2, <4>3 DEF BubblesInOrder
      <4>4. CASE l[j] = b
        <5>1. IsText(events[n])
          BY <2>3, <3>4, <4>4 DEF OfPeer, IsText
        <5>3. n \in (n - 1) + 1 .. k
          BY <1>1
        <5>2. a.messages[i + d].text < events[n][2]
          BY <2>1, <4>2, <5>1, <5>3
        <5>. QED BY <3>4, <4>2, <4>4, <5>2
      <4>. QED BY <3>3, <4>3, <4>4
    <3>6. ListBefore(l, q) /\ ListUpTo(l, top)
      <4>. SUFFICES ASSUME NEW i \in 1..Len(l), OfPeer(l[i])
                    PROVE  /\ \A j \in 1..Len(q) : IsText(q[j]) => l[i].text < q[j][2]
                           /\ l[i].text <= top
        BY DEF ListBefore, ListUpTo
      <4>1. CASE i + d \in 1..Len(a.messages) /\ l[i] = a.messages[i + d]
        <5>1. ListBefore(a.messages, q) /\ ListUpTo(a.messages, top) /\ OfPeer(a.messages[i + d])
          BY <2>1, <4>1
        <5>. QED BY <4>1, <5>1 DEF ListBefore, ListUpTo
      <4>2. CASE l[i] = b
        <5>1. IsText(events[n])
          BY <3>4, <4>2 DEF OfPeer
        <5>. QED BY <3>4, <4>2, <5>1 DEF EventsBefore, EventsUpTo
      <4>. QED BY <3>3, <4>1, <4>2
    <3>7. Rest(l, n)
      <4>. SUFFICES ASSUME NEW i \in 1..Len(l), NEW j \in n + 1 .. k,
                           OfPeer(l[i]), IsText(events[j])
                    PROVE  l[i].text < events[j][2]
        OBVIOUS
      <4>1. CASE i + d \in 1..Len(a.messages) /\ l[i] = a.messages[i + d]
        BY <2>2, <4>1
      <4>2. CASE l[i] = b
        <5>1. n < j /\ j \in 1..k /\ n \in 1..k
          BY <1>1
        <5>2. IsText(events[n])
          BY <2>3, <3>4, <4>2 DEF OfPeer, IsText
        <5>. QED BY <3>4, <4>2, <5>1, <5>2 DEF EventsInOrder
      <4>. QED BY <3>3, <4>1, <4>2
    <3>8. ShowEvent(a, e, reply) \in Accs /\ ShowEvent(a, e, reply).messages = l
      BY <2>1, <3>1, <3>2 DEF Accs
    <3>. HIDE DEF Rest
    <3>. QED BY <3>5, <3>6, <3>7, <3>8, <3>9
  <2>4. CASE e[1] # "chat"
    <3>1. /\ ShowEvent(a, e, reply) \in Accs
          /\ ShowEvent(a, e, reply).messages = a.messages \/ ShowEvent(a, e, reply).messages = <<>>
      <4>1. ShowEvent(a, e, reply) \in {a, [a EXCEPT !.again = TRUE],
                                         [a EXCEPT !.messages = <<>>, !.view = "lobby"]}
        BY <2>4 DEF ShowEvent
      <4>2. <<>> \in Seq(Bubbles) /\ "lobby" \in Views
        BY DEF Views
      <4>3. /\ [a EXCEPT !.again = TRUE] \in Accs
            /\ [a EXCEPT !.again = TRUE].messages = a.messages
        BY <2>1 DEF Accs
      <4>4. /\ [a EXCEPT !.messages = <<>>, !.view = "lobby"] \in Accs
            /\ [a EXCEPT !.messages = <<>>, !.view = "lobby"].messages = <<>>
        BY <2>1, <4>2 DEF Accs
      <4>. QED BY <2>1, <4>1, <4>3, <4>4
    <3>. HIDE DEF Rest
    <3>2. CASE ShowEvent(a, e, reply).messages = a.messages
      BY <2>1, <2>2, <3>1, <3>2
    <3>3. CASE ShowEvent(a, e, reply).messages = <<>>
      <4>1. /\ SentOnly(<<>>) /\ BubblesInOrder(<<>>) /\ ListBefore(<<>>, q)
            /\ ListUpTo(<<>>, top) /\ Rest(<<>>, n)
        BY DEF SentOnly, BubblesInOrder, ListBefore, ListUpTo, Rest
      <4>. QED BY <3>1, <3>3, <4>1
    <3>. QED BY <3>1, <3>2, <3>3
  <2>. QED BY <2>3, <2>4
<1>4. ShowEvents(acc, reply) \in G[k]
  <2>. HIDE DEF G, acc
  <2>. QED BY <1>1, <1>2, <1>3, ShowEventsStay
<1>. QED BY <1>1, <1>4

-----------------------------------------------------------------------------
(* Types. *)
\* A queue takes an event at its end or not at all.
LEMMA QueuedAtEnd ==
  ASSUME NEW q \in Seq(Event), NEW e \in Event
  PROVE  /\ Queued(q, e) \in Seq(Event)
         /\ \A i \in 1..Len(Queued(q, e)) :
              \/ i \in 1..Len(q) /\ Queued(q, e)[i] = q[i]
              \/ i = Len(q) + 1 /\ Queued(q, e)[i] = e
<1>1. CASE Queued(q, e) = q
  BY <1>1
<1>2. CASE Queued(q, e) = Append(q, e)
  BY <1>2, AppendProperties, LenProperties
<1>. QED BY <1>1, <1>2 DEF Queued

\* What the backend's answers are made of.
LEMMA ReplyTypes ==
  /\ \A w \in Words : Status(w) \in Reply
  /\ \A b \in Backs : Security(b) \in States /\ PeerCount(b) \in Nat
  /\ \A c \in Channels : Unconfirmed(c) \in States
  /\ \A x \in States : [status |-> "connected", security |-> x] \in Reply
  /\ \A q \in Seq(Event), b \in Backs : PollReply(q, b) \in Reply
  /\ \A c \in Channels : NoRoom(c) \in Backs /\ OpenRoom(c) \in Backs
  /\ \A k \in Nat : InSession("host", k) \in Backs /\ InSession("guest", k) \in Backs
  /\ \A b \in Backs, c \in Channels : Ended(b, c) \in Backs
<1>1. \A w \in Words : Status(w) \in Reply
  BY DEF Status, Reply
<1>2. \A c \in Channels : Unconfirmed(c) \in States
  BY DEF Unconfirmed, States
<1>3. \A b \in Backs : Security(b) \in States /\ PeerCount(b) \in Nat
  <2>. SUFFICES ASSUME NEW b \in Backs PROVE Security(b) \in States /\ PeerCount(b) \in Nat
    OBVIOUS
  <2>1. PeerCount(b) \in Nat
    BY DEF PeerCount, Backs
  <2>2. BothConfirmed(b) \in BOOLEAN
    BY DEF BothConfirmed, Backs
  <2>3. Security(b) \in States
    BY <1>2, <2>2 DEF Security, States, Backs, Channels
  <2>. QED BY <2>1, <2>3
<1>4. \A x \in States : [status |-> "connected", security |-> x] \in Reply
  BY DEF Reply
<1>5. \A q \in Seq(Event), b \in Backs : PollReply(q, b) \in Reply
  BY <1>3 DEF PollReply, Reply
<1>6. \A c \in Channels : NoRoom(c) \in Backs /\ OpenRoom(c) \in Backs
  BY DEF NoRoom, OpenRoom, Backs
<1>7. \A k \in Nat : InSession("host", k) \in Backs /\ InSession("guest", k) \in Backs
  BY DEF InSession, Backs, Channels
<1>8. \A b \in Backs, c \in Channels : Ended(b, c) \in Backs
  BY <1>6 DEF Ended
<1>. QED BY <1>1, <1>2, <1>3, <1>4, <1>5, <1>6, <1>7, <1>8

\* What a call becomes.
LEMMA CallSteps ==
  ASSUME CallType, NEW s \in Slots
  PROVE  /\ s \in Nat /\ s # Idle
         /\ \A reply \in Reply : Replies(s, reply) =>
              /\ call' \in [Slots -> Calls]
              /\ \A r \in Slots : r # s => call'[r] = call[r]
              /\ call'[s] = [cmd |-> call[s].cmd, text |-> call[s].text, stage |-> "replied",
                             reply |-> reply]
         /\ \A cmd \in Commands, text \in Nat : Issued(cmd, text) \in Calls /\ Free \in Calls
         /\ [call EXCEPT ![s].stage = "running"] \in [Slots -> Calls]
         /\ call[s].text \in Nat
         /\ call[s].reply.status = "connected" => call[s].reply.security \in States
<1>1. s \in Nat /\ s # Idle
  BY DEF Slots, Idle
<1>2. ASSUME NEW reply \in Reply, Replies(s, reply)
      PROVE  /\ call' \in [Slots -> Calls]
             /\ \A r \in Slots : r # s => call'[r] = call[r]
             /\ call'[s] = [cmd |-> call[s].cmd, text |-> call[s].text, stage |-> "replied",
                            reply |-> reply]
  BY <1>2 DEF Replies, CallType, Calls, Stages
<1>3. \A cmd \in Commands, text \in Nat : Issued(cmd, text) \in Calls /\ Free \in Calls
  BY DEF Issued, Free, Calls, Commands, Stages, Reply, Words
<1>4. [call EXCEPT ![s].stage = "running"] \in [Slots -> Calls] /\ call[s].text \in Nat
  BY DEF CallType, Calls, Stages
<1>5. call[s].reply.status = "connected" => call[s].reply.security \in States
  BY DEF CallType, Calls, Reply, Words
<1>. QED BY <1>1, <1>2, <1>3, <1>4, <1>5

\* What the backend's own steps are made of.
LEMMA BackSteps ==
  /\ \A n \in Names : Control(n) \in Event
  /\ \A n \in Nat : Chat(n) \in Event
  /\ \A q \in Seq(Event), e \in Event : Queued(q, e) \in Seq(Event)
  /\ \A q \in Seq(Event) : AfterFailure(q) \in Seq(Event)
  /\ \A q \in Seq(Event), e \in Event : Append(q, e) \in Seq(Event)
  /\ \A q \in Seq(Event), m, n \in Nat : n <= Len(q) => SubSeq(q, m + 1, n) \in Seq(Event)
  /\ <<>> \in Seq(Event)
  /\ "disconnected" \in Channels /\ "pending" \in Channels /\ "failed" \in Channels
  /\ \A b \in Backs : BothConfirmed(b) \in BOOLEAN /\ [b EXCEPT !.local = TRUE] \in Backs
                        /\ [b EXCEPT !.peer = TRUE] \in Backs
<1>1. (\A n \in Names : Control(n) \in Event) /\ \A n \in Nat : Chat(n) \in Event
  BY DEF Control, Chat, Event, Names
<1>2. \A q \in Seq(Event), e \in Event : Queued(q, e) \in Seq(Event)
  BY QueuedAtEnd
<1>3. \A q \in Seq(Event) : AfterFailure(q) \in Seq(Event)
  BY <1>1, <1>2 DEF AfterFailure, Names
<1>4. "disconnected" \in Channels /\ "pending" \in Channels /\ "failed" \in Channels
  BY DEF Channels
<1>5. ASSUME NEW b \in Backs
      PROVE  /\ BothConfirmed(b) \in BOOLEAN /\ [b EXCEPT !.local = TRUE] \in Backs
             /\ [b EXCEPT !.peer = TRUE] \in Backs
  BY DEF BothConfirmed, Backs
<1>6. \A q \in Seq(Event), e \in Event : Append(q, e) \in Seq(Event)
  BY AppendProperties
<1>7. ASSUME NEW q \in Seq(Event), NEW m \in Nat, NEW n \in Nat, n <= Len(q)
      PROVE  SubSeq(q, m + 1, n) \in Seq(Event)
  BY <1>7, SubSeqProperties, LenProperties
<1>8. <<>> \in Seq(Event)
  OBVIOUS
<1>. QED BY <1>1, <1>2, <1>3, <1>4, <1>5, <1>6, <1>7, <1>8

\* Spending counts one up.
LEMMA Spending ==
  ASSUME BackType
  PROVE  /\ Spend("sessions") => used'.sessions \in Nat
         /\ Spend("texts") => used'.texts = used.texts + 1 /\ used.texts \in Nat
         /\ Spend("drafts") => used'.drafts \in Nat
         /\ Spend("sessions") \/ Spend("faults") \/ Spend("commands") \/ Spend("drafts") =>
              used'.texts = used.texts
         /\ Spend("sessions") \/ Spend("faults") \/ Spend("commands") \/ Spend("drafts")
              \/ Spend("texts") =>
              used' \in [{"commands", "sessions", "texts", "drafts", "faults"} -> Nat]
  BY SMTT(30) DEF BackType, Spend

\* The reply to a poll has as many of the events as are there.
LEMMA BatchOfPoll ==
  ASSUME IInv, NEW s \in Slots, PollMessages(s)
  PROVE  \E n \in 0..Len(inbox) :
            /\ n \in Nat /\ Len(inbox) \in Nat
            /\ SubSeq(inbox, 1, n) \in Seq(Event)
            /\ Replies(s, PollReply(SubSeq(inbox, 1, n), back))
            /\ inbox' = SubSeq(inbox, n + 1, Len(inbox)) /\ inbox' \in Seq(Event)
<1> DEFINE n == IF Len(inbox) < PollBatch THEN Len(inbox) ELSE PollBatch
<1>1. inbox \in Seq(Event) /\ Len(inbox) \in Nat /\ PollBatch \in Nat /\ n \in 0..Len(inbox)
  BY LimitsAssumption, LenProperties DEF IInv, TypeOK, BackType
<1>6. n \in Nat /\ n <= Len(inbox)
  BY <1>1
<1>2. /\ Replies(s, PollReply(SubSeq(inbox, 1, n), back))
      /\ inbox' = SubSeq(inbox, n + 1, Len(inbox))
  BY DEF PollMessages
<1>. HIDE DEF n
<1>3. SubSeq(inbox, 0 + 1, n) \in Seq(Event)
  BY <1>1, <1>6, BackSteps
<1>4. SubSeq(inbox, n + 1, Len(inbox)) \in Seq(Event)
  <2>1. Len(inbox) <= Len(inbox)
    BY <1>1
  <2>. QED BY <1>1, <1>6, <2>1, BackSteps
<1>5. SubSeq(inbox, 0 + 1, n) = SubSeq(inbox, 1, n) /\ n \in Nat
  BY <1>1
<1>. QED BY <1>1, <1>2, <1>3, <1>4, <1>5

\* A poll that is answered shows its events in order.
LEMMA PollShows ==
  ASSUME IInv, NEW s \in Slots, PollShown(s)
  PROVE  /\ call[s].reply.status = "ok" /\ call[s].cmd = "poll"
         /\ call[s].reply.security \in States /\ call[s].reply.peers \in Nat
         /\ shown' = call[s].reply.security /\ peerCount' = call[s].reply.peers
         /\ messages' \in Seq(Bubbles) /\ view' \in Views
         /\ SentOnly(messages') /\ BubblesInOrder(messages')
         /\ ListBefore(messages', inbox) /\ ListUpTo(messages', used.texts)
         /\ \E again \in BOOLEAN : PollEnds(s, again)
<1> DEFINE reply == call[s].reply
<1> DEFINE after == ShowEvents([messages |-> messages, view |-> view, again |-> FALSE], reply)
<1>1. /\ reply.status = "ok" /\ call[s].cmd = "poll" /\ shown' = reply.security
      /\ peerCount' = reply.peers /\ messages' = after.messages /\ view' = after.view
      /\ PollEnds(s, after.again)
  BY DEF PollShown, Answered
<1>2. reply.events \in Seq(Event) /\ reply.security \in States /\ reply.peers \in Nat
  BY <1>1 DEF IInv, TypeOK, CallType, Calls, Reply, Words
<1>3. /\ messages \in Seq(Bubbles) /\ view \in Views /\ inbox \in Seq(Event)
      /\ used.texts \in Nat
  BY DEF IInv, TypeOK, BackType, ViewType
<1>4. /\ SentOnly(messages) /\ BubblesInOrder(messages) /\ ListBefore(messages, reply.events)
      /\ ListBefore(messages, inbox) /\ ListUpTo(messages, used.texts)
      /\ EventsInOrder(reply.events) /\ EventsBefore(reply.events, inbox)
      /\ EventsUpTo(reply.events, used.texts)
  <2>1. Coming(s) = reply.events
    BY <1>1 DEF Coming
  <2>. QED BY <2>1 DEF IInv, BubbleWasSent, SentOnly, TextsInOrder
<1>5. /\ after \in Accs /\ SentOnly(after.messages) /\ BubblesInOrder(after.messages)
      /\ ListBefore(after.messages, inbox) /\ ListUpTo(after.messages, used.texts)
  <2>. HIDE DEF reply
  <2>. QED BY <1>2, <1>3, <1>4, ShownInOrder
<1>6. after.messages \in Seq(Bubbles) /\ after.view \in Views /\ after.again \in BOOLEAN
  <2>. HIDE DEF after
  <2>. QED BY <1>5 DEF Accs
<1>. HIDE DEF after
<1>. QED BY <1>1, <1>2, <1>5, <1>6

-----------------------------------------------------------------------------
\* Every step leaves the backend's state well typed.
LEMMA BackTypeStep ==
  ASSUME IInv, [Next]_vars
  PROVE  BackType'
<1>. USE BackSteps, ReplyTypes, Spending DEF BackType, IInv, TypeOK, Verify, Names,
   backend, display, interface
<1>1. ASSUME PeerArrives \/ PeerConnects \/ PeerConfirms \/ PeerText \/ PeerLeaves \/
   SessionFails \/ HandshakeFails \/ Type \/ StartChatting PROVE BackType'
  <2>1. CASE PeerArrives
    BY <2>1 DEF PeerArrives
  <2>2. CASE PeerConnects
    BY <2>2 DEF PeerConnects
  <2>3. CASE PeerConfirms
    BY <2>3 DEF PeerConfirms
  <2>4. CASE PeerText
    <3>1. used' \in [{"commands", "sessions", "texts", "drafts", "faults"} -> Nat]
      BY <2>4, Spending DEF PeerText
    <3>2. used'.texts \in Nat
      BY <3>1
    <3>3. back' \in Backs /\ inbox' \in Seq(Event)
      <4>1. CASE Len(inbox) < InboxLimit
        BY <2>4, <3>2, <4>1 DEF PeerText
      <4>2. CASE ~(Len(inbox) < InboxLimit)
        BY ZenonT(40), <2>4, <4>2 DEF PeerText
      <4>. QED BY <4>1, <4>2
    <3>. QED BY <2>4, <3>1, <3>3 DEF PeerText
  <2>5. CASE PeerLeaves
    BY <2>5 DEF PeerLeaves
  <2>6. CASE SessionFails
    BY <2>6 DEF SessionFails
  <2>7. CASE HandshakeFails
    BY <2>7 DEF HandshakeFails
  <2>8. CASE Type
    BY <2>8 DEF Type
  <2>9. CASE StartChatting
    BY <2>9 DEF StartChatting
  <2>. QED BY <1>1, <2>1, <2>2, <2>3, <2>4, <2>5, <2>6, <2>7, <2>8, <2>9
<1>2. ASSUME NEW s \in Slots, Poll(s) \/ User(s) \/ Begin(s) PROVE BackType'
  <2>1. CASE SubmitMessage(s)
    BY <2>1 DEF SubmitMessage, Issue
  <2>2. CASE SubmitConfirm(s)
    BY <2>2 DEF SubmitConfirm, Issue
  <2>3. CASE SubmitCreate(s)
    BY <2>3 DEF SubmitCreate, Issue
  <2>4. CASE SubmitJoin(s)
    BY <2>4 DEF SubmitJoin, Issue
  <2>5. CASE SubmitClose(s)
    BY <2>5 DEF SubmitClose, Issue
  <2>6. CASE Poll(s) \/ Begin(s)
    BY <2>6 DEF Poll, Begin
  <2>. QED BY <1>2, <2>1, <2>2, <2>3, <2>4, <2>5, <2>6 DEF User
<1>3. ASSUME NEW s \in Slots, Finish(s) PROVE BackType'
  <2>1. CASE PollMessages(s)
    BY <2>1, BatchOfPoll DEF PollMessages
  <2>2. CASE SendMessage(s)
    <3>1. call[s].text \in Nat
      BY CallSteps
    <3>. QED BY <2>2, <3>1 DEF SendMessage
  <2>3. CASE SendFails(s)
    BY <2>3 DEF SendFails, Finishes
  <2>4. CASE ConfirmVerification(s)
    <3>1. CASE back.session = 0
      BY <2>4, <3>1 DEF ConfirmVerification
    <3>2. CASE back.session # 0
      <4>1. back' \in Backs /\ inbox' \in Seq(Event)
        <5>1. back' = [back EXCEPT !.local = TRUE]
          BY <2>4, <3>2 DEF ConfirmVerification
        <5>2. back' \in Backs
          BY <5>1 DEF BackType
        <5>3. inbox' \in {inbox, Queued(inbox, Control("peer_verified"))}
          BY <2>4, <3>2 DEF ConfirmVerification
        <5>. QED BY <5>2, <5>3 DEF BackType
      <4>. QED BY <2>4, <3>2, <4>1 DEF ConfirmVerification
    <3>. QED BY <3>1, <3>2
  <2>5. CASE CreateRoom(s)
    BY <2>5 DEF CreateRoom, Finishes
  <2>6. CASE JoinRoom(s)
    BY <2>6 DEF JoinRoom, Finishes
  <2>7. CASE CloseRoom(s)
    BY <2>7 DEF CloseRoom, Finishes
  <2>8. CASE RoomFails(s)
    <3>1. back' \in Backs /\ inbox' \in Seq(Event)
      BY <2>8 DEF RoomFails
    <3>. QED BY <2>8, <3>1 DEF RoomFails
  <2>9. CASE BackendLost(s)
    <3>1. back' \in Backs /\ inbox' \in Seq(Event)
      BY <2>9 DEF BackendLost
    <3>. QED BY <2>9, <3>1 DEF BackendLost
  <2>. QED BY <1>3, <2>1, <2>2, <2>3, <2>4, <2>5, <2>6, <2>7, <2>8, <2>9 DEF Finish
<1>4. ASSUME NEW s \in Slots, Answer(s) PROVE BackType'
  <2>1. CASE PollBusy(s) \/ PollShown(s) \/ PollFailed(s) \/ SendAnswered(s) \/
     ConfirmAnswered(s) \/ CreateAnswered(s) \/ JoinAnswered(s) \/ CloseAnswered(s)
    BY <2>1 DEF PollBusy, Answered, PollEnds, PollShown, PollFailed, SendAnswered, Done,
       ConfirmAnswered, CreateAnswered, JoinAnswered, CloseAnswered
  <2>. QED BY <1>4, <2>1 DEF Answer
<1>5. CASE UNCHANGED vars
  BY <1>5 DEF vars
<1>. QED BY <1>1, <1>2, <1>3, <1>4, <1>5 DEF Next

\* Every step leaves the calls well typed.
LEMMA CallTypeStep ==
  ASSUME IInv, [Next]_vars
  PROVE  CallType'
<1>. USE CallSteps, ReplyTypes DEF CallType, IInv, TypeOK, Words, Commands, backend,
   display, interface
<1>1. ASSUME PeerArrives \/ PeerConnects \/ PeerConfirms \/ PeerText \/ PeerLeaves \/
   SessionFails \/ HandshakeFails \/ Type \/ StartChatting PROVE CallType'
  <2>1. CASE PeerArrives \/ PeerConnects \/ PeerConfirms \/ PeerText \/ PeerLeaves \/
     SessionFails \/ HandshakeFails \/ Type \/ StartChatting
    BY <2>1 DEF PeerArrives, PeerConnects, PeerConfirms, Verify, PeerText, PeerLeaves,
       SessionFails, HandshakeFails, Type, StartChatting
  <2>. QED BY <1>1, <2>1
<1>2. ASSUME NEW s \in Slots, Poll(s) \/ User(s) \/ Begin(s) PROVE CallType'
  <2>1. CASE Poll(s)
    BY <2>1 DEF Poll
  <2>2. CASE SubmitMessage(s)
    BY <2>2 DEF SubmitMessage, Issue, ViewType
  <2>3. CASE SubmitConfirm(s)
    BY <2>3 DEF SubmitConfirm, Issue
  <2>4. CASE SubmitCreate(s)
    BY <2>4 DEF SubmitCreate, Issue
  <2>5. CASE SubmitJoin(s)
    BY <2>5 DEF SubmitJoin, Issue
  <2>6. CASE SubmitClose(s)
    BY <2>6 DEF SubmitClose, Issue
  <2>7. CASE Begin(s)
    <3>1. CASE holder = Idle
      BY <2>7, <3>1 DEF Begin
    <3>2. CASE holder # Idle
      BY <2>7, <3>2 DEF Begin
    <3>. QED BY <3>1, <3>2
  <2>. QED BY <1>2, <2>1, <2>2, <2>3, <2>4, <2>5, <2>6, <2>7 DEF User
<1>3. ASSUME NEW s \in Slots, Finish(s) PROVE CallType'
  <2>1. CASE PollMessages(s)
    <3>1. PICK n \in 0..Len(inbox) : /\ SubSeq(inbox, 1, n) \in Seq(Event)
                                     /\ Replies(s, PollReply(SubSeq(inbox, 1, n), back))
      BY <2>1, BatchOfPoll
    <3>2. back \in Backs
      BY DEF BackType
    <3>. QED BY <2>1, <3>1, <3>2 DEF PollMessages, Finishes
  <2>2. CASE SendMessage(s)
    BY <2>2 DEF SendMessage, Finishes
  <2>3. CASE SendFails(s)
    BY <2>3 DEF SendFails, Finishes
  <2>4. CASE ConfirmVerification(s)
    BY <2>4 DEF ConfirmVerification, Finishes, Verify
  <2>5. CASE CreateRoom(s)
    BY <2>5 DEF CreateRoom, Finishes
  <2>6. CASE JoinRoom(s)
    <3>1. back' \in Backs
      BY BackTypeStep DEF BackType
    <3>. QED BY <2>6, <3>1 DEF JoinRoom, Finishes
  <2>7. CASE CloseRoom(s)
    BY <2>7 DEF CloseRoom, Finishes
  <2>8. CASE RoomFails(s)
    BY <2>8 DEF RoomFails, Finishes
  <2>9. CASE BackendLost(s)
    BY <2>9 DEF BackendLost
  <2>. QED BY <1>3, <2>1, <2>2, <2>3, <2>4, <2>5, <2>6, <2>7, <2>8, <2>9 DEF Finish
<1>4. ASSUME NEW s \in Slots, Answer(s) PROVE CallType'
  <2>1. CASE PollBusy(s)
    BY <2>1 DEF PollBusy, Answered, PollEnds
  <2>2. CASE PollShown(s)
    BY <2>2 DEF PollShown, Answered, PollEnds
  <2>3. CASE PollFailed(s)
    BY <2>3 DEF PollFailed, Answered, PollEnds
  <2>4. CASE SendAnswered(s)
    BY <2>4 DEF SendAnswered, Answered, Done
  <2>5. CASE ConfirmAnswered(s)
    BY <2>5 DEF ConfirmAnswered, Answered, Done
  <2>6. CASE CreateAnswered(s)
    BY <2>6 DEF CreateAnswered, Answered, Done
  <2>7. CASE JoinAnswered(s)
    BY <2>7 DEF JoinAnswered, Answered, Done
  <2>8. CASE CloseAnswered(s)
    BY <2>8 DEF CloseAnswered, Answered, Done
  <2>. QED BY <1>4, <2>1, <2>2, <2>3, <2>4, <2>5, <2>6, <2>7, <2>8 DEF Answer
<1>5. CASE UNCHANGED vars
  BY <1>5 DEF vars
<1>. QED BY <1>1, <1>2, <1>3, <1>4, <1>5 DEF Next

\* Every step leaves what the interface shows well typed.
LEMMA ViewTypeStep ==
  ASSUME IInv, [Next]_vars
  PROVE  ViewType'
<1>. USE ReplyTypes, Spending, BackSteps DEF ViewType, IInv, TypeOK, Views, backend,
   display, interface
<1>1. ASSUME PeerArrives \/ PeerConnects \/ PeerConfirms \/ PeerText \/ PeerLeaves \/
   SessionFails \/ HandshakeFails \/ Type \/ StartChatting PROVE ViewType'
  <2>1. CASE Type
    BY <2>1 DEF Type
  <2>2. CASE StartChatting
    BY <2>2 DEF StartChatting
  <2>3. CASE PeerArrives \/ PeerConnects \/ PeerConfirms \/ PeerText \/ PeerLeaves \/
     SessionFails \/ HandshakeFails
    BY <2>3 DEF PeerArrives, PeerConnects, PeerConfirms, Verify, PeerText, PeerLeaves,
       SessionFails, HandshakeFails
  <2>. QED BY <1>1, <2>1, <2>2, <2>3
<1>2. ASSUME NEW s \in Slots, Poll(s) \/ User(s) \/ Begin(s) PROVE ViewType'
  <2>1. CASE Poll(s)
    BY <2>1 DEF Poll
  <2>2. CASE SubmitJoin(s)
    BY <2>2 DEF SubmitJoin, Issue
  <2>3. CASE SubmitMessage(s) \/ SubmitConfirm(s) \/ SubmitCreate(s) \/ SubmitClose(s) \/
     Begin(s)
    BY <2>3 DEF SubmitMessage, Issue, SubmitConfirm, SubmitCreate, SubmitClose, Begin
  <2>. QED BY <1>2, <2>1, <2>2, <2>3 DEF User
<1>3. ASSUME NEW s \in Slots, Finish(s) PROVE ViewType'
  <2>1. CASE PollMessages(s) \/ SendMessage(s) \/ SendFails(s) \/ ConfirmVerification(s) \/
     CreateRoom(s) \/ JoinRoom(s) \/ CloseRoom(s) \/ RoomFails(s) \/ BackendLost(s)
    BY <2>1 DEF PollMessages, Finishes, SendMessage, SendFails, ConfirmVerification,
       Verify, CreateRoom, JoinRoom, CloseRoom, RoomFails, BackendLost
  <2>. QED BY <1>3, <2>1 DEF Finish
<1>4. ASSUME NEW s \in Slots, Answer(s) PROVE ViewType'
  <2>1. CASE PollBusy(s)
    BY <2>1 DEF PollBusy, Answered, PollEnds
  <2>2. CASE PollShown(s)
    BY <2>2, PollShows DEF PollShown, PollEnds
  <2>3. CASE PollFailed(s)
    BY <2>3 DEF PollFailed, Answered, PollEnds
  <2>4. CASE SendAnswered(s)
    BY <2>4, CallSteps, BubbleComesLast DEF SendAnswered, Answered, Done
  <2>5. CASE ConfirmAnswered(s)
    BY <2>5 DEF ConfirmAnswered, Answered, Done, States
  <2>6. CASE CreateAnswered(s)
    BY <2>6 DEF CreateAnswered, Answered, Done
  <2>7. CASE JoinAnswered(s)
    <3>1. CASE call[s].reply.status = "connected"
      <4>1. call[s].reply.security \in States
        BY <3>1, CallSteps
      <4>2. /\ shown' = call[s].reply.security /\ peerCount' = 2 /\ view' = "chat"
            /\ messages' = <<>> /\ draft' = 0 /\ UNCHANGED <<available, isPolling>>
        BY <2>7, <3>1 DEF JoinAnswered
      <4>. QED BY <4>1, <4>2
    <3>2. CASE call[s].reply.status # "connected"
      BY <2>7, <3>2 DEF JoinAnswered
    <3>. QED BY <3>1, <3>2
  <2>8. CASE CloseAnswered(s)
    BY <2>8 DEF CloseAnswered, Answered, Done
  <2>. QED BY <1>4, <2>1, <2>2, <2>3, <2>4, <2>5, <2>6, <2>7, <2>8 DEF Answer
<1>5. CASE UNCHANGED vars
  BY <1>5 DEF vars
<1>. QED BY <1>1, <1>2, <1>3, <1>4, <1>5 DEF Next


-----------------------------------------------------------------------------
(* Replies. *)
\* What has been sent and verified stays so.
LEMMA HistoriesGrow ==
  ASSUME IInv, [Next]_vars
  PROVE  (everVerified => everVerified') /\ sent \subseteq sent'
<1>. USE DEF backend, display, interface
<1>0. everVerified \in BOOLEAN
  BY DEF IInv, TypeOK, BackType
<1>1. ASSUME PeerArrives \/ PeerConnects \/ PeerConfirms \/ PeerText \/ PeerLeaves
               \/ SessionFails \/ HandshakeFails \/ Type \/ StartChatting
      PROVE  (everVerified => everVerified') /\ sent \subseteq sent'
  <2>1. CASE PeerConfirms
    BY <1>0, <2>1 DEF PeerConfirms, Verify
  <2>2. UNCHANGED <<sent, everVerified>> \/ PeerConfirms
    BY <1>1 DEF PeerArrives, PeerConnects, PeerText, PeerLeaves, SessionFails,
       HandshakeFails, Type, StartChatting
  <2>. QED BY <2>1, <2>2
<1>2. ASSUME NEW s \in Slots, Poll(s) \/ User(s) \/ Begin(s) \/ Answer(s)
      PROVE  (everVerified => everVerified') /\ sent \subseteq sent'
  <2>1. UNCHANGED <<sent, everVerified>>
    BY <1>2 DEF Poll, User, SubmitMessage, SubmitConfirm, SubmitCreate, SubmitJoin,
       SubmitClose, Begin, Answer, PollBusy, PollShown, PollFailed, SendAnswered,
       ConfirmAnswered, CreateAnswered, JoinAnswered, CloseAnswered
  <2>. QED BY <2>1
<1>3. ASSUME NEW s \in Slots, Finish(s)
      PROVE  (everVerified => everVerified') /\ sent \subseteq sent'
  <2>1. CASE SendMessage(s)
    BY <2>1 DEF SendMessage
  <2>2. CASE ConfirmVerification(s)
    BY <1>0, <2>2 DEF ConfirmVerification, Verify
  <2>3. UNCHANGED <<sent, everVerified>> \/ SendMessage(s) \/ ConfirmVerification(s)
    BY <1>3 DEF Finish, PollMessages, SendFails, CreateRoom, JoinRoom, CloseRoom, RoomFails,
       BackendLost
  <2>. QED BY <2>1, <2>2, <2>3
<1>4. CASE UNCHANGED vars
  BY <1>4 DEF vars
<1>. QED BY <1>1, <1>2, <1>3, <1>4 DEF Next

\* The environment's steps touch no call, and every other step that of one slot.
LEMMA OneCallChanges ==
  ASSUME CallType
  PROVE  /\ PeerArrives \/ PeerConnects \/ PeerConfirms \/ PeerText \/ PeerLeaves
              \/ SessionFails \/ HandshakeFails \/ Type \/ StartChatting => UNCHANGED call
         /\ \A s \in Slots : Poll(s) \/ User(s) \/ Begin(s) \/ Finish(s) \/ Answer(s) =>
              \A r \in Slots : r # s => call'[r] = call[r]
<1>. USE DEF backend, display, interface
<1>1. PeerArrives \/ PeerConnects \/ PeerConfirms \/ PeerText \/ PeerLeaves
        \/ SessionFails \/ HandshakeFails \/ Type \/ StartChatting => UNCHANGED call
  BY DEF PeerArrives, PeerConnects, PeerConfirms, PeerText, PeerLeaves, SessionFails,
     HandshakeFails, Type, StartChatting
<1>. SUFFICES ASSUME NEW s \in Slots, NEW r \in Slots, r # s,
                     Poll(s) \/ User(s) \/ Begin(s) \/ Finish(s) \/ Answer(s)
              PROVE  call'[r] = call[r]
  BY <1>1
<1>. USE DEF CallType
<1>2. CASE Poll(s) \/ User(s) \/ Begin(s)
  BY <1>2 DEF Poll, User, SubmitMessage, SubmitConfirm, SubmitCreate, SubmitJoin, SubmitClose,
     Issue, Begin, Replies
<1>3. CASE Finish(s)
  BY <1>3 DEF Finish, PollMessages, SendMessage, SendFails, ConfirmVerification, CreateRoom,
     JoinRoom, CloseRoom, RoomFails, BackendLost, Replies
<1>4. CASE Answer(s)
  BY <1>4 DEF Answer, PollBusy, PollShown, PollFailed, SendAnswered, ConfirmAnswered,
     CreateAnswered, JoinAnswered, CloseAnswered, Done, PollEnds
<1>. QED BY <1>2, <1>3, <1>4

\* A handler that begins puts a call without a reply in a free slot, and one that
\* continues frees its slot, or polls again.
LEMMA CallsAreBare ==
  ASSUME IInv, NEW s \in Slots
  PROVE  /\ Poll(s) => call[s] = Free /\ call'[s] = Issued("poll", 0)
         /\ User(s) => \E cmd \in Commands \ {"poll"}, text \in Nat :
                          call[s] = Free /\ call'[s] = Issued(cmd, text)
         /\ Answer(s) => call[s].stage = "replied" /\ call'[s] \in {Free, Issued("poll", 0)}
         /\ Begin(s) => call[s].stage = "issued" /\ call'[s].cmd = call[s].cmd
         /\ Free.reply.status = "none" /\ Free.cmd = "none"
         /\ \A cmd \in Commands, text \in Nat :
              /\ Issued(cmd, text).cmd = cmd /\ Issued(cmd, text).text = text
              /\ Issued(cmd, text).reply.status = "none"
<1>. USE DEF IInv, TypeOK, CallType, Calls, FirstFree
<1>1. Poll(s) => call[s] = Free /\ call'[s] = Issued("poll", 0)
  BY DEF Poll
<1>2. User(s) => \E cmd \in Commands \ {"poll"}, text \in Nat :
                    call[s] = Free /\ call'[s] = Issued(cmd, text)
  BY DEF User, SubmitMessage, SubmitConfirm, SubmitCreate, SubmitJoin, SubmitClose, Issue,
     Commands, ViewType
<1>3. Answer(s) => call[s].stage = "replied" /\ call'[s] \in {Free, Issued("poll", 0)}
  BY DEF Answer, PollBusy, PollShown, PollFailed, SendAnswered, ConfirmAnswered,
     CreateAnswered, JoinAnswered, CloseAnswered, Done, PollEnds, Answered
<1>4. Begin(s) => call[s].stage = "issued" /\ call'[s].cmd = call[s].cmd
  BY DEF Begin, Replies
<1>5. Free.reply.status = "none" /\ Free.cmd = "none"
  BY DEF Free
<1>6. \A cmd \in Commands, text \in Nat :
        /\ Issued(cmd, text).cmd = cmd /\ Issued(cmd, text).text = text
        /\ Issued(cmd, text).reply.status = "none"
  BY DEF Issued, Free
<1>. QED BY <1>1, <1>2, <1>3, <1>4, <1>5, <1>6

\* What a reply makes of its call.
LEMMA Replied ==
  ASSUME CallType, NEW s \in Slots, NEW reply \in Reply, Replies(s, reply)
  PROVE  /\ call'[s].reply = reply /\ call'[s].stage = "replied"
         /\ call'[s].cmd = call[s].cmd /\ call'[s].text = call[s].text
  BY DEF CallType, Calls, Replies

\* A security state tells of a verified participant only when both have confirmed.
LEMMA SecurityIsTrue ==
  /\ \A b \in Backs : Security(b).verified => BothConfirmed(b)
  /\ \A c \in Channels : ~Unconfirmed(c).verified
  /\ \A c \in Channels : ~BothConfirmed(NoRoom(c)) /\ ~BothConfirmed(OpenRoom(c))
  /\ \A m \in {"host", "guest"}, k \in Nat : ~BothConfirmed(InSession(m, k))
  /\ \A b \in Backs, c \in Channels : ~BothConfirmed(Ended(b, c))
<1>1. \A c \in Channels : ~Unconfirmed(c).verified
  BY DEF Unconfirmed
<1>2. \A b \in Backs : Security(b).verified => BothConfirmed(b)
  BY <1>1 DEF Security, Backs, Channels, Unconfirmed
<1>3. \A c \in Channels : ~BothConfirmed(NoRoom(c)) /\ ~BothConfirmed(OpenRoom(c))
  BY DEF BothConfirmed, NoRoom, OpenRoom
<1>4. \A m \in {"host", "guest"}, k \in Nat : ~BothConfirmed(InSession(m, k))
  BY DEF BothConfirmed, InSession
<1>5. \A b \in Backs, c \in Channels : ~BothConfirmed(Ended(b, c))
  BY <1>3 DEF Ended
<1>. QED BY <1>1, <1>2, <1>3, <1>4, <1>5

\* Only a session that the histories call verified has both confirmations.
LEMMA ConfirmedStep ==
  ASSUME IInv, [Next]_vars
  PROVE  ConfirmedIsTrue'
<1>. USE SecurityIsTrue, BackSteps DEF ConfirmedIsTrue, backend
<1>0. back \in Backs /\ used.sessions \in Nat /\ (BothConfirmed(back) => everVerified)
  BY DEF IInv, TypeOK, BackType
<1>1. ASSUME PeerArrives \/ PeerConnects \/ PeerConfirms \/ PeerText \/ PeerLeaves
               \/ SessionFails \/ HandshakeFails \/ Type \/ StartChatting
      PROVE  ConfirmedIsTrue'
  <2>1. CASE PeerConnects
    <3>1. used'.sessions \in Nat
      BY <2>1, Spending DEF PeerConnects, IInv, TypeOK
    <3>. QED BY <2>1, <3>1 DEF PeerConnects
  <2>2. CASE PeerText
    BY <1>0, <2>2 DEF PeerText
  <2>3. CASE PeerConfirms
    BY <2>3 DEF PeerConfirms, Verify
  <2>4. CASE PeerArrives \/ PeerLeaves \/ SessionFails \/ HandshakeFails
    BY <1>0, <2>4 DEF PeerArrives, PeerLeaves, SessionFails, HandshakeFails
  <2>5. CASE Type \/ StartChatting
    BY <1>0, <2>5 DEF Type, StartChatting
  <2>. QED BY <1>1, <2>1, <2>2, <2>3, <2>4, <2>5
<1>2. ASSUME NEW s \in Slots, Poll(s) \/ User(s) \/ Begin(s) \/ Answer(s)
      PROVE  ConfirmedIsTrue'
  BY <1>0, <1>2 DEF Poll, User, SubmitMessage, SubmitConfirm, SubmitCreate, SubmitJoin,
     SubmitClose, Begin, Answer, PollBusy, PollShown, PollFailed, SendAnswered,
     ConfirmAnswered, CreateAnswered, JoinAnswered, CloseAnswered
<1>3. ASSUME NEW s \in Slots, Finish(s) PROVE ConfirmedIsTrue'
  <2>1. CASE JoinRoom(s)
    <3>1. used'.sessions \in Nat
      BY <2>1, Spending DEF JoinRoom, IInv, TypeOK
    <3>. QED BY <2>1, <3>1 DEF JoinRoom
  <2>2. CASE ConfirmVerification(s)
    BY <1>0, <2>2 DEF ConfirmVerification, Verify
  <2>3. CASE PollMessages(s) \/ SendMessage(s)
    BY <1>0, <2>3 DEF PollMessages, SendMessage
  <2>4. CASE SendFails(s) \/ CreateRoom(s) \/ CloseRoom(s) \/ BackendLost(s)
    BY <1>0, <2>4 DEF SendFails, CreateRoom, CloseRoom, BackendLost
  <2>5. CASE RoomFails(s)
    BY <1>0, <2>5 DEF RoomFails
  <2>. QED BY <1>3, <2>1, <2>2, <2>3, <2>4, <2>5 DEF Finish
<1>4. CASE UNCHANGED vars
  BY <1>0, <1>4 DEF vars
<1>. QED BY <1>1, <1>2, <1>3, <1>4 DEF Next

\* A command that ends, or is refused, says what is so.
LEMMA ReplyOfCommand ==
  ASSUME IInv, TypeOK', NEW s \in Slots, Begin(s) \/ Finish(s), ConfirmedIsTrue'
  PROVE  ReplyIsTrue(call[s])'
<1>. USE DEF ReplyIsTrue
<1>0. CallType /\ BackType /\ back' \in Backs
  BY DEF IInv, TypeOK, BackType
<1>1. ASSUME NEW w \in {"busy", "error", "waiting", "ready", "closed"}, Replies(s, Status(w))
      PROVE  ReplyIsTrue(call[s])'
  <2>1. Status(w) \in Reply /\ Status(w).status = w
    BY ReplyTypes DEF Status, Words
  <2>2. call'[s].reply.status = w
    BY <1>0, <1>1, <2>1, Replied
  <2>. QED BY <2>2
<1>2. CASE Begin(s)
  <2>1. CASE holder = Idle
    <3>1. call[s].reply.status # "ok" /\ ReplyIsTrue(call[s])
      BY <1>2 DEF IInv, RepliesAreTrue, Begin
    <3>2. /\ call'[s].reply = call[s].reply /\ call'[s].text = call[s].text
          /\ UNCHANGED <<sent, everVerified>>
      BY <1>0, <1>2, <2>1 DEF Begin, CallType, Calls, backend, Idle
    <3>. QED BY <3>1, <3>2
  <2>2. CASE holder # Idle
    BY <1>1, <1>2, <2>2 DEF Begin
  <2>. QED BY <2>1, <2>2
<1>3. CASE PollMessages(s)
  <2>1. PICK n \in 0..Len(inbox) : /\ SubSeq(inbox, 1, n) \in Seq(Event)
                                   /\ Replies(s, PollReply(SubSeq(inbox, 1, n), back))
    BY <1>3, BatchOfPoll
  <2> DEFINE reply == PollReply(SubSeq(inbox, 1, n), back)
  <2>2. reply \in Reply /\ reply.status = "ok" /\ reply.security = Security(back)
    BY <1>0, <2>1, ReplyTypes DEF PollReply, BackType
  <2>. HIDE DEF reply
  <2>3. /\ call'[s].reply = reply /\ call'[s].stage = "replied"
        /\ call'[s].cmd = call[s].cmd /\ call[s].cmd = "poll" /\ everVerified' = everVerified
    <3>1. Replies(s, reply) /\ call[s].cmd = "poll" /\ everVerified' = everVerified
      BY <1>3, <2>1 DEF PollMessages, Finishes, reply
    <3>. QED BY <1>0, <2>2, <3>1, Replied
  <2>4. Security(back).verified => everVerified
    BY <1>0, SecurityIsTrue DEF BackType, IInv, ConfirmedIsTrue
  <2>. QED BY <2>2, <2>3, <2>4
<1>4. CASE SendMessage(s)
  <2>1. CASE BothConfirmed(back)
    <3>1. Status("sent") \in Reply /\ Status("sent").status = "sent"
      BY ReplyTypes DEF Status, Words
    <3>2. Replies(s, Status("sent")) /\ call[s].text \in sent'
      BY <1>4, <2>1 DEF SendMessage
    <3>3. call'[s].reply = Status("sent") /\ call'[s].text = call[s].text
      BY <1>0, <3>1, <3>2, Replied
    <3>. QED BY <3>1, <3>2, <3>3
  <2>2. CASE ~BothConfirmed(back)
    BY <1>1, <1>4, <2>2 DEF SendMessage
  <2>. QED BY <2>1, <2>2
<1>5. CASE ConfirmVerification(s)
  <2>1. CASE back.session = 0
    BY <1>1, <1>5, <2>1 DEF ConfirmVerification
  <2>2. CASE back.session # 0 /\ ~BothConfirmed(back')
    BY <1>1, <1>5, <2>2 DEF ConfirmVerification
  <2>3. CASE back.session # 0 /\ BothConfirmed(back')
    <3>1. Status("verified") \in Reply /\ Status("verified").status = "verified"
      BY ReplyTypes DEF Status, Words
    <3>2. Replies(s, Status("verified")) /\ everVerified'
      BY <1>5, <2>3 DEF ConfirmVerification, Verify
    <3>3. call'[s].reply = Status("verified")
      BY <1>0, <3>1, <3>2, Replied
    <3>. QED BY <3>1, <3>2, <3>3
  <2>. QED BY <2>1, <2>2, <2>3
<1>6. CASE JoinRoom(s)
  <2> DEFINE reply == [status |-> "connected", security |-> Security(back')]
  <2>1. reply \in Reply /\ reply.status = "connected" /\ reply.security = Security(back')
    BY <1>0, ReplyTypes
  <2>. HIDE DEF reply
  <2>2. call'[s].reply = reply
    <3>1. Replies(s, reply)
      BY <1>6 DEF JoinRoom, reply
    <3>. QED BY <1>0, <2>1, <3>1, Replied
  <2>3. Security(back').verified => everVerified'
    BY <1>0, SecurityIsTrue DEF ConfirmedIsTrue
  <2>. QED BY <2>1, <2>2, <2>3
<1>7. CASE SendFails(s) \/ CreateRoom(s) \/ CloseRoom(s) \/ RoomFails(s) \/ BackendLost(s)
  <2>1. \E w \in {"busy", "error", "waiting", "ready", "closed"} : Replies(s, Status(w))
    BY <1>7 DEF SendFails, CreateRoom, CloseRoom, RoomFails, BackendLost
  <2>. QED BY <1>1, <2>1
<1>. QED BY <1>2, <1>3, <1>4, <1>5, <1>6, <1>7 DEF Finish

\* Every reply that has not been handled says what is so.
LEMMA RepliesStep ==
  ASSUME IInv, TypeOK', [Next]_vars, ConfirmedIsTrue'
  PROVE  RepliesAreTrue'
<1>. SUFFICES ASSUME NEW r \in Slots PROVE ReplyIsTrue(call[r])'
  BY DEF RepliesAreTrue
<1>1. ASSUME call'[r] = call[r] PROVE ReplyIsTrue(call[r])'
  <2>1. ReplyIsTrue(call[r])
    BY DEF IInv, RepliesAreTrue
  <2>. QED BY <1>1, <2>1, HistoriesGrow DEF ReplyIsTrue
<1>2. CASE UNCHANGED call
  BY <1>1, <1>2
<1>3. ASSUME NEW s \in Slots, Poll(s) \/ User(s) \/ Begin(s) \/ Finish(s) \/ Answer(s)
      PROVE  ReplyIsTrue(call[r])'
  <2>1. CASE r # s
    BY <1>1, <1>3, <2>1, OneCallChanges DEF IInv, TypeOK
  <2>2. CASE r = s /\ (Poll(s) \/ User(s) \/ Answer(s))
    <3>1. call'[s].reply.status = "none"
      BY <2>2, CallsAreBare DEF Commands
    <3>. QED BY <2>2, <3>1 DEF ReplyIsTrue
  <2>3. CASE r = s /\ (Begin(s) \/ Finish(s))
    BY <2>3, ReplyOfCommand
  <2>. QED BY <1>3, <2>1, <2>2, <2>3
<1>. QED BY <1>2, <1>3, OneCallChanges DEF Next, IInv, TypeOK, vars

-----------------------------------------------------------------------------
(* What the interface shows. *)
\* The interface shows a verified participant only on a reply that tells of one.
LEMMA VerifiedShownStep ==
  ASSUME IInv, TypeOK', [Next]_vars
  PROVE  VerifiedShownIsTrue'
<1>. USE DEF VerifiedShownIsTrue
<1>0. (shown.verified => everVerified) /\ (everVerified => everVerified')
  BY HistoriesGrow DEF IInv
<1>1. ASSUME UNCHANGED shown \/ ~shown'.verified PROVE VerifiedShownIsTrue'
  BY <1>0, <1>1
<1>2. ASSUME PeerArrives \/ PeerConnects \/ PeerConfirms \/ PeerText \/ PeerLeaves
               \/ SessionFails \/ HandshakeFails \/ Type \/ StartChatting
      PROVE  VerifiedShownIsTrue'
  <2>1. UNCHANGED shown
    BY <1>2 DEF PeerArrives, PeerConnects, PeerConfirms, PeerText, PeerLeaves, SessionFails,
       HandshakeFails, Type, StartChatting, interface, display
  <2>. QED BY <1>1, <2>1
<1>3. ASSUME NEW s \in Slots, Poll(s) \/ User(s) \/ Begin(s) PROVE VerifiedShownIsTrue'
  <2>1. UNCHANGED shown \/ shown' = Unconfirmed("pending")
    BY <1>3 DEF Poll, User, SubmitMessage, SubmitConfirm, SubmitCreate, SubmitJoin,
       SubmitClose, Begin, interface, display
  <2>. QED BY <1>1, <2>1, SecurityIsTrue DEF Channels
<1>4. ASSUME NEW s \in Slots, Finish(s) PROVE VerifiedShownIsTrue'
  <2>1. UNCHANGED shown
    BY <1>4 DEF Finish, PollMessages, SendMessage, SendFails, ConfirmVerification, CreateRoom,
       JoinRoom, CloseRoom, RoomFails, BackendLost, interface, display
  <2>. QED BY <1>1, <2>1
<1>5. ASSUME NEW s \in Slots, Answer(s) PROVE VerifiedShownIsTrue'
  <2>0. ReplyIsTrue(call[s])
    BY DEF IInv, RepliesAreTrue
  <2>1. CASE PollShown(s)
    <3>1. shown' = call[s].reply.security /\ call[s].reply.status = "ok"
      BY <2>1, PollShows
    <3>. QED BY <1>0, <2>0, <3>1 DEF ReplyIsTrue
  <2>2. CASE ConfirmAnswered(s)
    <3>1. CASE call[s].reply.status = "error"
      BY <1>1, <2>2, <3>1 DEF ConfirmAnswered
    <3>2. CASE call[s].reply.status # "error"
      <4>1. shown'.verified => call[s].reply.status = "verified"
        BY <2>2, <3>2 DEF ConfirmAnswered, IInv, TypeOK, ViewType, States
      <4>. QED BY <1>0, <2>0, <4>1 DEF ReplyIsTrue
    <3>. QED BY <3>1, <3>2
  <2>3. CASE JoinAnswered(s)
    <3>1. CASE call[s].reply.status = "connected"
      <4>1. shown' = call[s].reply.security
        BY <2>3, <3>1 DEF JoinAnswered
      <4>. QED BY <1>0, <2>0, <3>1, <4>1 DEF ReplyIsTrue
    <3>2. CASE call[s].reply.status # "connected"
      <4>1. shown' = Unconfirmed("failed")
        BY <2>3, <3>2 DEF JoinAnswered
      <4>. QED BY <1>1, <4>1, SecurityIsTrue DEF Channels
    <3>. QED BY <3>1, <3>2
  <2>4. CASE PollBusy(s) \/ PollFailed(s) \/ SendAnswered(s) \/ CreateAnswered(s)
               \/ CloseAnswered(s)
    <3>1. UNCHANGED shown \/ shown' = Unconfirmed("failed") \/ shown' = Unconfirmed("disconnected")
      BY <2>4 DEF PollBusy, PollFailed, SendAnswered, CreateAnswered, CloseAnswered, display
    <3>. QED BY <1>1, <3>1, SecurityIsTrue DEF Channels
  <2>. QED BY <1>5, <2>1, <2>2, <2>3, <2>4 DEF Answer
<1>6. CASE UNCHANGED vars
  BY <1>1, <1>6 DEF vars
<1>. QED BY <1>2, <1>3, <1>4, <1>5, <1>6 DEF Next

\* Every step leaves the chat alone, empties it, shows a poll or adds a bubble of the
\* user's own.
LEMMA ChatSteps ==
  ASSUME IInv, [Next]_vars
  PROVE  \/ UNCHANGED messages
         \/ messages' = <<>>
         \/ \E s \in Slots : PollShown(s)
         \/ \E s \in Slots : /\ SendAnswered(s) /\ call[s].reply.status = "sent"
                             /\ messages' = Bubble(messages, TRUE, call[s].text)
<1>1. ASSUME PeerArrives \/ PeerConnects \/ PeerConfirms \/ PeerText \/ PeerLeaves
               \/ SessionFails \/ HandshakeFails \/ Type \/ StartChatting
      PROVE  UNCHANGED messages \/ messages' = <<>>
  BY <1>1 DEF PeerArrives, PeerConnects, PeerConfirms, PeerText, PeerLeaves, SessionFails,
     HandshakeFails, Type, StartChatting, interface
<1>2. ASSUME NEW s \in Slots, Poll(s) \/ User(s) \/ Begin(s) \/ Finish(s)
      PROVE  UNCHANGED messages
  BY <1>2 DEF Poll, User, SubmitMessage, SubmitConfirm, SubmitCreate, SubmitJoin, SubmitClose,
     Begin, Finish, PollMessages, SendMessage, SendFails, ConfirmVerification, CreateRoom,
     JoinRoom, CloseRoom, RoomFails, BackendLost, interface
<1>3. ASSUME NEW s \in Slots, Answer(s)
      PROVE  \/ UNCHANGED messages \/ messages' = <<>> \/ PollShown(s)
             \/ /\ SendAnswered(s) /\ call[s].reply.status = "sent"
                /\ messages' = Bubble(messages, TRUE, call[s].text)
  BY <1>3 DEF Answer, PollBusy, PollFailed, SendAnswered, ConfirmAnswered, CreateAnswered,
     JoinAnswered, CloseAnswered
<1>. QED BY <1>1, <1>2, <1>3 DEF Next, vars

\* A bubble of the user's own is only added for a text that was sent.
LEMMA BubbleStep ==
  ASSUME IInv, [Next]_vars
  PROVE  BubbleWasSent'
<1>. USE DEF BubbleWasSent
<1>0. BubbleWasSent /\ sent \subseteq sent' /\ messages \in Seq(Bubbles)
  BY HistoriesGrow DEF IInv, TypeOK, ViewType
<1>1. CASE UNCHANGED messages
  BY <1>0, <1>1
<1>2. CASE messages' = <<>>
  BY <1>2
<1>3. ASSUME NEW s \in Slots, PollShown(s) PROVE BubbleWasSent'
  BY <1>0, <1>3, PollShows DEF SentOnly
<1>4. ASSUME NEW s \in Slots, call[s].reply.status = "sent",
             messages' = Bubble(messages, TRUE, call[s].text)
      PROVE  BubbleWasSent'
  <2>1. call[s].text \in Nat /\ call[s].text \in sent
    BY <1>4, CallSteps DEF IInv, TypeOK, RepliesAreTrue, ReplyIsTrue
  <2>2. PICK k \in {0, 1} : \A i \in 1..Len(messages') :
           \/ i + k \in 1..Len(messages) /\ messages'[i] = messages[i + k]
           \/ i = Len(messages') /\ messages'[i] = [mine |-> TRUE, text |-> call[s].text]
    <3>1. \E k \in {0, 1} : \A i \in 1..Len(Bubble(messages, TRUE, call[s].text)) :
             \/ /\ i + k \in 1..Len(messages)
                /\ Bubble(messages, TRUE, call[s].text)[i] = messages[i + k]
             \/ /\ i = Len(Bubble(messages, TRUE, call[s].text))
                /\ Bubble(messages, TRUE, call[s].text)[i] = [mine |-> TRUE, text |-> call[s].text]
      BY <1>0, <2>1, BubbleComesLast
    <3>. QED BY <1>4, <3>1
  <2>. SUFFICES ASSUME NEW i \in 1..Len(messages'), messages'[i].mine
                PROVE  messages'[i].text \in sent'
    OBVIOUS
  <2>3. CASE messages'[i] = [mine |-> TRUE, text |-> call[s].text]
    BY <1>0, <2>1, <2>3
  <2>4. CASE i + k \in 1..Len(messages) /\ messages'[i] = messages[i + k]
    BY <1>0, <2>4
  <2>. QED BY <2>2, <2>3, <2>4
<1>. QED BY <1>1, <1>2, <1>3, <1>4, ChatSteps

\* A poll begins only when there is none, and is over when the flag is cleared.
LEMMA OnePollStep ==
  ASSUME IInv, TypeOK', [Next]_vars
  PROVE  OnePoll'
<1>. USE DEF OnePoll
<1>0. OnePoll /\ CallType /\ Free.cmd = "none" /\ Issued("poll", 0).cmd = "poll"
  BY DEF IInv, TypeOK, Free, Issued
<1>1. ASSUME UNCHANGED isPolling,
             \A r \in Slots : call'[r].cmd \in {call[r].cmd} \cup (Commands \ {"poll"})
      PROVE  OnePoll'
  BY <1>0, <1>1
<1>2. ASSUME PeerArrives \/ PeerConnects \/ PeerConfirms \/ PeerText \/ PeerLeaves
               \/ SessionFails \/ HandshakeFails \/ Type \/ StartChatting
      PROVE  OnePoll'
  <2>1. UNCHANGED isPolling
    BY <1>2 DEF PeerArrives, PeerConnects, PeerConfirms, PeerText, PeerLeaves, SessionFails,
       HandshakeFails, Type, StartChatting, interface
  <2>2. UNCHANGED call
    BY <1>0, <1>2, OneCallChanges
  <2>. QED BY <1>1, <2>1, <2>2
<1>3. ASSUME NEW s \in Slots, Poll(s) PROVE OnePoll'
  <2>1. ~isPolling /\ isPolling' /\ \A r \in Slots : r # s => call'[r] = call[r]
    BY <1>0, <1>3, OneCallChanges DEF Poll, MayPoll
  <2>. QED BY <1>0, <2>1
<1>4. ASSUME NEW s \in Slots, User(s) \/ Begin(s) \/ Finish(s) PROVE OnePoll'
  <2>1. UNCHANGED isPolling
    BY <1>4 DEF User, SubmitMessage, SubmitConfirm, SubmitCreate, SubmitJoin, SubmitClose,
     Begin, Finish, PollMessages, SendMessage, SendFails, ConfirmVerification, CreateRoom,
     JoinRoom, CloseRoom, RoomFails, BackendLost, interface
  <2>2. call'[s].cmd \in {call[s].cmd} \cup (Commands \ {"poll"})
    <3>1. CASE User(s)
      BY <3>1, CallsAreBare
    <3>2. CASE Begin(s)
      BY <3>2, CallsAreBare
    <3>3. CASE Finish(s)
      BY <1>0, <3>3 DEF Finish, PollMessages, SendMessage, SendFails, ConfirmVerification,
         CreateRoom, JoinRoom, CloseRoom, RoomFails, BackendLost, Replies, CallType, Calls
    <3>. QED BY <1>4, <3>1, <3>2, <3>3
  <2>. QED BY <1>0, <1>1, <1>4, <2>1, <2>2, OneCallChanges
<1>5. ASSUME NEW s \in Slots, Answer(s) PROVE OnePoll'
  <2>0. \A r \in Slots : r # s => call'[r] = call[r]
    BY <1>0, <1>5, OneCallChanges
  <2>1. ASSUME call[s].cmd = "poll", NEW again \in BOOLEAN, PollEnds(s, again)
        PROVE  OnePoll'
    <3>1. call'[s].cmd = (IF again THEN "poll" ELSE "none") /\ isPolling' = again
      BY <1>0, <2>1 DEF PollEnds, CallType
    <3>. QED BY <1>0, <2>0, <2>1, <3>1
  <2>2. CASE PollBusy(s) \/ PollFailed(s)
    BY <2>1, <2>2 DEF PollBusy, PollFailed, Answered
  <2>3. CASE PollShown(s)
    BY <2>1, <2>3, PollShows
  <2>4. CASE SendAnswered(s) \/ ConfirmAnswered(s) \/ CreateAnswered(s) \/ JoinAnswered(s)
               \/ CloseAnswered(s)
    <3>1. UNCHANGED isPolling /\ call'[s] = Free
      BY <1>0, <2>4 DEF SendAnswered, ConfirmAnswered, CreateAnswered, JoinAnswered,
         CloseAnswered, Done, CallType
    <3>. QED BY <1>0, <1>1, <2>0, <3>1 DEF Commands
  <2>. QED BY <1>5, <2>2, <2>3, <2>4 DEF Answer
<1>6. CASE UNCHANGED vars
  BY <1>0, <1>6 DEF vars
<1>. QED BY <1>2, <1>3, <1>4, <1>5, <1>6 DEF Next

-----------------------------------------------------------------------------
(* The order of the peer's texts. *)
\* The queue q2 has no text that is not in its place in q, and the list l2 none that
\* is not in l, the first of which may be gone.
NoNewEvent(q, q2) ==
    \A i \in 1..Len(q2) : (i \in 1..Len(q) /\ q2[i] = q[i]) \/ ~IsText(q2[i])
NoNewBubble(l, l2) ==
    \E k \in Nat : \A i \in 1..Len(l2) :
        (i + k \in 1..Len(l) /\ l2[i] = l[i + k]) \/ ~OfPeer(l2[i])

\* Control events and the backend's own text are no texts of the peer.
LEMMA QuietEvents ==
  ASSUME NEW q \in Seq(Event)
  PROVE  /\ NoNewEvent(q, q) /\ NoNewEvent(q, <<>>)
         /\ \A n \in Names \ {"chat"} : NoNewEvent(q, Queued(q, Control(n)))
         /\ NoNewEvent(q, Queued(q, Chat(0)))
         /\ NoNewEvent(q, AfterFailure(q)) /\ NoNewEvent(q, AfterFailure(<<>>))
<1>1. ASSUME NEW p \in Seq(Event), NoNewEvent(q, p), NEW e \in Event, ~IsText(e)
      PROVE  NoNewEvent(q, Queued(p, e)) /\ Queued(p, e) \in Seq(Event)
  BY <1>1, QueuedAtEnd DEF NoNewEvent
<1>2. ASSUME NEW n \in Names \ {"chat"} PROVE Control(n) \in Event /\ ~IsText(Control(n))
  BY DEF Control, IsText, Event
<1>3. Chat(0) \in Event /\ ~IsText(Chat(0))
  BY DEF Chat, IsText, Event, Names
<1>4. NoNewEvent(q, q) /\ NoNewEvent(q, <<>>) /\ <<>> \in Seq(Event)
  BY DEF NoNewEvent
<1>5. ASSUME NEW p \in Seq(Event), NoNewEvent(q, p) PROVE NoNewEvent(q, AfterFailure(p))
  <2>1. "channel_failed" \in Names \ {"chat"}
    BY DEF Names
  <2>. QED BY <1>1, <1>2, <1>3, <1>5, <2>1 DEF AfterFailure
<1>. QED BY <1>1, <1>2, <1>3, <1>4, <1>5

\* Every step leaves the queue without a new text, adds one or cuts a batch off.
LEMMA QueueSteps ==
  ASSUME IInv, [Next]_vars
  PROVE  \/ NoNewEvent(inbox, inbox') /\ used'.texts \in Nat /\ used.texts <= used'.texts
         \/ /\ PeerText /\ used'.texts = used.texts + 1 /\ used.texts \in Nat
            /\ inbox' = Append(inbox, Chat(used'.texts))
         \/ \E s \in Slots : PollMessages(s)
<1> DEFINE Quiet == NoNewEvent(inbox, inbox') /\ used'.texts \in Nat /\ used.texts <= used'.texts
<1>0. /\ inbox \in Seq(Event) /\ used.texts \in Nat /\ BackType
      /\ {"peer_joined", "peer_verified", "peer_left", "room_deleted", "channel_failed"}
            \subseteq Names \ {"chat"}
  BY DEF IInv, TypeOK, BackType, Names
<1>1. ASSUME \/ UNCHANGED inbox \/ inbox' = <<>>
             \/ \E n \in Names \ {"chat"} : inbox' = Queued(inbox, Control(n))
             \/ inbox' = Queued(inbox, Chat(0))
             \/ inbox' = AfterFailure(inbox) \/ inbox' = AfterFailure(<<>>),
             \/ UNCHANGED used \/ Spend("sessions") \/ Spend("faults") \/ Spend("commands")
             \/ Spend("drafts") \/ Spend("texts")
      PROVE  Quiet
  <2>1. NoNewEvent(inbox, inbox')
    BY <1>0, <1>1, QuietEvents
  <2>2. used'.texts = used.texts \/ used'.texts = used.texts + 1
    BY <1>0, <1>1, Spending
  <2>. QED BY <1>0, <2>1, <2>2
<1>. HIDE DEF Quiet
<1>2. ASSUME PeerText
      PROVE  Quiet \/ (used'.texts = used.texts + 1 /\ inbox' = Append(inbox, Chat(used'.texts)))
  <2>1. CASE Len(inbox) < InboxLimit
    BY <1>0, <1>2, <2>1, Spending DEF PeerText
  <2>2. CASE ~(Len(inbox) < InboxLimit)
    BY <1>1, <1>2, <2>2 DEF PeerText
  <2>. QED BY <2>1, <2>2
<1>3. ASSUME PeerArrives \/ PeerConnects \/ PeerConfirms \/ PeerLeaves
               \/ SessionFails \/ HandshakeFails \/ Type \/ StartChatting
      PROVE  Quiet
  <2>1. CASE PeerArrives \/ Type \/ StartChatting
    BY <1>1, <2>1 DEF PeerArrives, Type, StartChatting, backend
  <2>2. CASE PeerConnects
    BY <1>0, <1>1, <2>2 DEF PeerConnects
  <2>3. CASE PeerConfirms
    BY <1>0, <1>1, <2>3 DEF PeerConfirms
  <2>4. CASE PeerLeaves
    BY <1>0, <1>1, <2>4 DEF PeerLeaves
  <2>5. CASE SessionFails \/ HandshakeFails
    BY <1>1, <2>5 DEF SessionFails, HandshakeFails
  <2>. QED BY <1>3, <2>1, <2>2, <2>3, <2>4, <2>5
<1>4. ASSUME NEW s \in Slots, Poll(s) \/ User(s) \/ Begin(s) \/ Answer(s) PROVE Quiet
  <2>1. UNCHANGED inbox
    BY <1>4 DEF Poll, User, SubmitMessage, SubmitConfirm, SubmitCreate, SubmitJoin, SubmitClose,
       Begin, Answer, PollBusy, PollShown, PollFailed, SendAnswered, ConfirmAnswered,
       CreateAnswered, JoinAnswered, CloseAnswered, backend
  <2>2. UNCHANGED used \/ Spend("commands")
    BY <1>4 DEF Poll, User, SubmitMessage, SubmitConfirm, SubmitCreate, SubmitJoin, SubmitClose,
       Issue, Begin, Answer, PollBusy, PollShown, PollFailed, SendAnswered, ConfirmAnswered,
       CreateAnswered, JoinAnswered, CloseAnswered
  <2>. QED BY <1>1, <2>1, <2>2
<1>5. ASSUME NEW s \in Slots, Finish(s) PROVE Quiet \/ PollMessages(s)
  <2>1. CASE SendMessage(s) \/ CreateRoom(s) \/ CloseRoom(s) \/ RoomFails(s)
    BY <1>1, <2>1 DEF SendMessage, CreateRoom, CloseRoom, RoomFails
  <2>2. CASE SendFails(s)
    BY <1>0, <1>1, <2>2 DEF SendFails
  <2>3. CASE ConfirmVerification(s)
    BY <1>0, <1>1, <2>3 DEF ConfirmVerification
  <2>4. CASE JoinRoom(s) \/ BackendLost(s)
    BY <1>1, <2>4 DEF JoinRoom, BackendLost
  <2>. QED BY <1>5, <2>1, <2>2, <2>3, <2>4 DEF Finish
<1>6. CASE UNCHANGED vars
  <2>1. UNCHANGED <<inbox, used>>
    BY <1>6 DEF vars
  <2>2. Quiet
    BY <1>1, <2>1
  <2>. QED BY <2>2 DEF Quiet
<1>. QED BY <1>0, <1>2, <1>3, <1>4, <1>5, <1>6 DEF Next, Quiet

\* Events come to a call with the reply to its poll and are gone when it is handled.
LEMMA ComingSteps ==
  ASSUME IInv, TypeOK', [Next]_vars, RepliesAreTrue', NEW r \in Slots
  PROVE  Coming(r)' = Coming(r) \/ Coming(r)' = <<>> \/ PollMessages(r)
<1>0. CallType /\ ReplyIsTrue(call[r]) /\ ReplyIsTrue(call[r])'
  BY DEF IInv, TypeOK, RepliesAreTrue
<1>1. CASE call'[r] = call[r]
  BY <1>1 DEF Coming
<1>2. CASE call'[r].reply.status # "ok"
  BY <1>2 DEF Coming
<1>3. CASE UNCHANGED call
  BY <1>1, <1>3
<1>4. ASSUME NEW s \in Slots, Poll(s) \/ User(s) \/ Begin(s) \/ Finish(s) \/ Answer(s)
      PROVE  Coming(r)' = Coming(r) \/ Coming(r)' = <<>> \/ PollMessages(r)
  <2>1. CASE r # s
    BY <1>0, <1>1, <1>4, <2>1, OneCallChanges
  <2>2. CASE r = s /\ (Poll(s) \/ User(s) \/ Answer(s))
    <3>1. call'[s].reply.status = "none"
      BY <2>2, CallsAreBare DEF Commands
    <3>. QED BY <1>2, <2>2, <3>1
  <2>3. CASE r = s /\ Begin(s)
    <3>1. CASE holder = Idle
      <4>1. call'[s].stage = "running"
        BY <1>0, <2>3, <3>1 DEF Begin, CallType, Calls, Idle
      <4>. QED BY <1>0, <1>2, <2>3, <4>1 DEF ReplyIsTrue
    <3>2. CASE holder # Idle
      <4>1. \E w \in {"busy", "error"} : Replies(s, Status(w))
        BY <2>3, <3>2 DEF Begin
      <4>2. \A w \in {"busy", "error"} : Status(w) \in Reply /\ Status(w).status = w
        BY ReplyTypes DEF Status, Words
      <4>. QED BY <1>0, <1>2, <2>3, <4>1, <4>2, Replied
    <3>. QED BY <3>1, <3>2
  <2>4. CASE r = s /\ BackendLost(s)
    <3>1. Status("error") \in Reply /\ Status("error").status = "error"
      BY ReplyTypes DEF Status, Words
    <3>2. Replies(s, Status("error"))
      BY <2>4 DEF BackendLost
    <3>. QED BY <1>0, <1>2, <2>4, <3>1, <3>2, Replied
  <2>5. CASE r = s /\ (SendMessage(s) \/ SendFails(s) \/ ConfirmVerification(s) \/ CreateRoom(s)
                          \/ JoinRoom(s) \/ CloseRoom(s) \/ RoomFails(s))
    <3>1. call[s].cmd # "poll" /\ call'[s].cmd = call[s].cmd
      BY <1>0, <2>5 DEF SendMessage, SendFails, ConfirmVerification, CreateRoom, JoinRoom,
         CloseRoom, RoomFails, Finishes, Replies, CallType, Calls
    <3>. QED BY <1>0, <1>2, <2>5, <3>1 DEF ReplyIsTrue
  <2>. QED BY <1>4, <2>1, <2>2, <2>3, <2>4, <2>5 DEF Finish
<1>. QED BY <1>0, <1>3, <1>4, OneCallChanges DEF Next, vars

\* No text overtakes another one.
LEMMA TextsStep ==
  ASSUME IInv, TypeOK', [Next]_vars, RepliesAreTrue'
  PROVE  TextsInOrder'
<1>0. /\ TextsInOrder /\ inbox \in Seq(Event) /\ messages \in Seq(Bubbles) /\ used.texts \in Nat
      /\ Len(inbox) \in Nat /\ Len(messages) \in Nat
      /\ inbox' \in Seq(Event) /\ messages' \in Seq(Bubbles) /\ used'.texts \in Nat
      /\ Len(inbox') \in Nat /\ Len(messages') \in Nat
  <2>1. /\ TextsInOrder /\ inbox \in Seq(Event) /\ messages \in Seq(Bubbles)
        /\ used.texts \in Nat
        /\ inbox' \in Seq(Event) /\ messages' \in Seq(Bubbles) /\ used'.texts \in Nat
    BY DEF IInv, TypeOK, BackType, ViewType
  <2>. QED BY <2>1, LenProperties
<1>00. /\ \A i \in 1..Len(inbox) : inbox[i] \in Event /\ inbox[i][2] \in Nat
       /\ \A i \in 1..Len(messages) : messages[i] \in Bubbles /\ messages[i].text \in Nat
  <2>1. ASSUME NEW i \in 1..Len(inbox) PROVE inbox[i] \in Event /\ inbox[i][2] \in Nat
    <3>1. inbox[i] \in Event
      BY <1>0, ElementOfSeq
    <3>. QED BY <3>1 DEF Event
  <2>2. ASSUME NEW i \in 1..Len(messages)
        PROVE  messages[i] \in Bubbles /\ messages[i].text \in Nat
    <3>1. messages[i] \in Bubbles
      BY <1>0, ElementOfSeq
    <3>. QED BY <3>1 DEF Bubbles
  <2>. QED BY <2>1, <2>2
<1>01. \A r \in Slots : Coming(r) \in Seq(Event) /\ Len(Coming(r)) \in Nat
  <2>. SUFFICES ASSUME NEW r \in Slots PROVE Coming(r) \in Seq(Event) /\ Len(Coming(r)) \in Nat
    OBVIOUS
  <2>1. Coming(r) \in Seq(Event)
    <3>1. call[r].reply \in Reply
      BY DEF IInv, TypeOK, CallType, Calls
    <3>2. CASE call[r].reply.status = "ok"
      <4>1. call[r].reply.events \in Seq(Event)
        BY <3>1, <3>2 DEF Reply, Words
      <4>. QED BY <3>2, <4>1 DEF Coming
    <3>3. CASE call[r].reply.status # "ok"
      BY <3>3 DEF Coming
    <3>. QED BY <3>2, <3>3
  <2>. QED BY <2>1, LenProperties
<1>1. ASSUME NoNewEvent(inbox, inbox'), NoNewBubble(messages, messages'),
             used.texts <= used'.texts,
             \A r \in Slots : Coming(r)' = Coming(r) \/ Coming(r)' = <<>>
      PROVE  TextsInOrder'
  <2>1. PICK k \in Nat : \A i \in 1..Len(messages') :
           \/ i + k \in 1..Len(messages) /\ messages'[i] = messages[i + k]
           \/ ~OfPeer(messages'[i])
    BY <1>1 DEF NoNewBubble
  <2>2. BubblesInOrder(messages)'
    <3>. SUFFICES ASSUME NEW i \in 1..Len(messages'), NEW j \in 1..Len(messages'), i < j,
                         OfPeer(messages'[i]), OfPeer(messages'[j])
                  PROVE  messages'[i].text < messages'[j].text
      BY DEF BubblesInOrder, OfPeer
    <3>1. /\ i + k \in 1..Len(messages) /\ messages'[i] = messages[i + k]
          /\ j + k \in 1..Len(messages) /\ messages'[j] = messages[j + k] /\ i + k < j + k
      BY <1>0, <2>1
    <3>. QED BY <1>0, <3>1 DEF TextsInOrder, BubblesInOrder
  <2>3. EventsInOrder(inbox)'
    BY <1>0, <1>1 DEF TextsInOrder, EventsInOrder, NoNewEvent, IsText
  <2>4. ListBefore(messages, inbox)'
    <3>. SUFFICES ASSUME NEW i \in 1..Len(messages'), NEW j \in 1..Len(inbox'),
                         OfPeer(messages'[i]), IsText(inbox'[j])
                  PROVE  messages'[i].text < inbox'[j][2]
      BY DEF ListBefore, OfPeer, IsText
    <3>1. i + k \in 1..Len(messages) /\ messages'[i] = messages[i + k]
      BY <2>1
    <3>2. j \in 1..Len(inbox) /\ inbox'[j] = inbox[j]
      BY <1>1 DEF NoNewEvent
    <3>. QED BY <1>0, <3>1, <3>2 DEF TextsInOrder, ListBefore
  <2>5. ListUpTo(messages, used.texts)'
    <3>. SUFFICES ASSUME NEW i \in 1..Len(messages'), OfPeer(messages'[i])
                  PROVE  messages'[i].text <= used'.texts
      BY DEF ListUpTo, OfPeer
    <3>1. i + k \in 1..Len(messages) /\ messages'[i] = messages[i + k]
      BY <2>1
    <3>2. messages[i + k].text <= used.texts /\ messages[i + k].text \in Nat
      BY <1>0, <1>00, <3>1 DEF TextsInOrder, ListUpTo
    <3>. QED BY <1>0, <1>1, <3>1, <3>2
  <2>6. EventsUpTo(inbox, used.texts)'
    <3>. SUFFICES ASSUME NEW i \in 1..Len(inbox'), IsText(inbox'[i])
                  PROVE  inbox'[i][2] <= used'.texts
      BY DEF EventsUpTo, IsText
    <3>1. i \in 1..Len(inbox) /\ inbox'[i] = inbox[i]
      BY <1>1 DEF NoNewEvent
    <3>2. inbox[i][2] <= used.texts /\ inbox[i][2] \in Nat
      BY <1>0, <1>00, <3>1 DEF TextsInOrder, EventsUpTo
    <3>. QED BY <1>0, <1>1, <3>1, <3>2
  <2>7. ASSUME NEW r \in Slots
        PROVE  /\ EventsInOrder(Coming(r))' /\ ListBefore(messages, Coming(r))'
               /\ EventsBefore(Coming(r), inbox)' /\ EventsUpTo(Coming(r), used.texts)'
    <3>1. CASE Coming(r)' = <<>>
      BY <3>1 DEF EventsInOrder, ListBefore, EventsBefore, EventsUpTo
    <3>2. CASE Coming(r)' = Coming(r)
      <4> DEFINE p == Coming(r)
      <4>0. /\ EventsInOrder(p) /\ ListBefore(messages, p) /\ EventsBefore(p, inbox)
            /\ EventsUpTo(p, used.texts) /\ p \in Seq(Event) /\ Len(p) \in Nat
            /\ Coming(r)' = p
        BY <1>0, <1>01, <3>2 DEF TextsInOrder
      <4>00. \A i \in 1..Len(p) : p[i] \in Event /\ p[i][2] \in Nat
        <5>. HIDE DEF p
        <5>. QED BY <4>0, ElementOfSeq DEF Event
      <4>. HIDE DEF p
      <4>1. EventsInOrder(Coming(r))'
        BY <4>0 DEF EventsInOrder, IsText
      <4>2. ListBefore(messages, Coming(r))'
        <5>. SUFFICES ASSUME NEW i \in 1..Len(messages'), NEW j \in 1..Len(p),
                             OfPeer(messages'[i]), IsText(p[j])
                      PROVE  messages'[i].text < p[j][2]
          BY <4>0 DEF ListBefore, OfPeer, IsText
        <5>1. i + k \in 1..Len(messages) /\ messages'[i] = messages[i + k]
          BY <2>1
        <5>. QED BY <4>0, <5>1 DEF ListBefore
      <4>3. EventsBefore(Coming(r), inbox)'
        <5>. SUFFICES ASSUME NEW i \in 1..Len(p), NEW j \in 1..Len(inbox'),
                             IsText(p[i]), IsText(inbox'[j])
                      PROVE  p[i][2] < inbox'[j][2]
          BY <4>0 DEF EventsBefore, IsText
        <5>1. j \in 1..Len(inbox) /\ inbox'[j] = inbox[j]
          BY <1>1 DEF NoNewEvent
        <5>. QED BY <4>0, <5>1 DEF EventsBefore
      <4>4. EventsUpTo(Coming(r), used.texts)'
        <5>. SUFFICES ASSUME NEW i \in 1..Len(p), IsText(p[i]) PROVE p[i][2] <= used'.texts
          BY <4>0 DEF EventsUpTo, IsText
        <5>1. p[i][2] <= used.texts /\ p[i][2] \in Nat
          BY <4>0, <4>00 DEF EventsUpTo
        <5>. QED BY <1>0, <1>1, <5>1
      <4>. QED BY <4>1, <4>2, <4>3, <4>4
    <3>. QED BY <1>1, <3>1, <3>2
  <2>. QED BY <2>2, <2>3, <2>4, <2>5, <2>6, <2>7 DEF TextsInOrder
<1>2. ASSUME PeerText, used'.texts = used.texts + 1, inbox' = Append(inbox, Chat(used'.texts))
      PROVE  TextsInOrder'
  <2>1. /\ Len(inbox') = Len(inbox) + 1 /\ inbox'[Len(inbox) + 1] = Chat(used.texts + 1)
        /\ \A i \in 1..Len(inbox) : inbox'[i] = inbox[i]
    <3>1. Chat(used.texts + 1) \in Event
      BY <1>0 DEF Chat, Event, Names
    <3>. QED BY <1>0, <1>2, <3>1, AppendProperties
  <2>2. UNCHANGED <<messages, call>> /\ Chat(used.texts + 1)[2] = used.texts + 1
    BY <1>2 DEF PeerText, interface, Chat
  <2>3. \A i \in 1..Len(inbox') : i \in 1..Len(inbox) \/ i = Len(inbox) + 1
    BY <1>0, <2>1
  <2>4. EventsInOrder(inbox)'
    <3>. SUFFICES ASSUME NEW i \in 1..Len(inbox'), NEW j \in 1..Len(inbox'), i < j,
                         IsText(inbox'[i]), IsText(inbox'[j])
                  PROVE  inbox'[i][2] < inbox'[j][2]
      BY DEF EventsInOrder, IsText
    <3>1. i \in 1..Len(inbox) /\ inbox'[i] = inbox[i]
      BY <1>0, <2>1
    <3>2. CASE j \in 1..Len(inbox)
      BY <1>0, <2>1, <3>1, <3>2 DEF TextsInOrder, EventsInOrder
    <3>3. CASE j = Len(inbox) + 1
      <4>1. inbox[i][2] <= used.texts /\ inbox[i][2] \in Nat
        BY <1>0, <1>00, <3>1 DEF TextsInOrder, EventsUpTo
      <4>. QED BY <1>0, <2>1, <2>2, <3>1, <3>3, <4>1
    <3>. QED BY <2>3, <3>2, <3>3
  <2>5. BubblesInOrder(messages)'
    BY <1>0, <2>2 DEF TextsInOrder
  <2>6. ListBefore(messages, inbox)'
    <3>. SUFFICES ASSUME NEW i \in 1..Len(messages), NEW j \in 1..Len(inbox'),
                         OfPeer(messages[i]), IsText(inbox'[j])
                  PROVE  messages[i].text < inbox'[j][2]
      BY <2>2 DEF ListBefore, OfPeer, IsText
    <3>1. CASE j \in 1..Len(inbox)
      BY <1>0, <2>1, <3>1 DEF TextsInOrder, ListBefore
    <3>2. CASE j = Len(inbox) + 1
      <4>1. messages[i].text <= used.texts /\ messages[i].text \in Nat
        BY <1>0, <1>00 DEF TextsInOrder, ListUpTo
      <4>. QED BY <1>0, <2>1, <2>2, <3>2, <4>1
    <3>. QED BY <2>3, <3>1, <3>2
  <2>7. ListUpTo(messages, used.texts)'
    <3>. SUFFICES ASSUME NEW i \in 1..Len(messages), OfPeer(messages[i])
                  PROVE  messages[i].text <= used'.texts
      BY <2>2 DEF ListUpTo, OfPeer
    <3>1. messages[i].text <= used.texts /\ messages[i].text \in Nat
      BY <1>0, <1>00 DEF TextsInOrder, ListUpTo
    <3>. QED BY <1>0, <1>2, <3>1
  <2>8. EventsUpTo(inbox, used.texts)'
    <3>. SUFFICES ASSUME NEW i \in 1..Len(inbox'), IsText(inbox'[i])
                  PROVE  inbox'[i][2] <= used'.texts
      BY DEF EventsUpTo, IsText
    <3>1. CASE i \in 1..Len(inbox)
      <4>1. inbox[i][2] <= used.texts /\ inbox[i][2] \in Nat /\ inbox'[i] = inbox[i]
        BY <1>0, <1>00, <2>1, <3>1 DEF TextsInOrder, EventsUpTo
      <4>. QED BY <1>0, <1>2, <4>1
    <3>2. CASE i = Len(inbox) + 1
      BY <1>0, <1>2, <2>1, <2>2, <3>2
    <3>. QED BY <2>3, <3>1, <3>2
  <2>9. ASSUME NEW r \in Slots
        PROVE  /\ EventsInOrder(Coming(r))' /\ ListBefore(messages, Coming(r))'
               /\ EventsBefore(Coming(r), inbox)' /\ EventsUpTo(Coming(r), used.texts)'
    <3> DEFINE p == Coming(r)
    <3>0. /\ EventsInOrder(p) /\ ListBefore(messages, p) /\ EventsBefore(p, inbox)
          /\ EventsUpTo(p, used.texts) /\ p \in Seq(Event) /\ Len(p) \in Nat
          /\ Coming(r)' = p
      BY <1>0, <1>01, <2>2 DEF TextsInOrder, Coming
    <3>00. \A i \in 1..Len(p) : p[i] \in Event /\ p[i][2] \in Nat
      <4>. HIDE DEF p
      <4>. QED BY <3>0, ElementOfSeq DEF Event
    <3>. HIDE DEF p
    <3>1. EventsInOrder(Coming(r))' /\ ListBefore(messages, Coming(r))'
      BY <2>2, <3>0
    <3>2. EventsUpTo(Coming(r), used.texts)'
      <4>. SUFFICES ASSUME NEW i \in 1..Len(p), IsText(p[i]) PROVE p[i][2] <= used'.texts
        BY <3>0 DEF EventsUpTo, IsText
      <4>1. p[i][2] <= used.texts /\ p[i][2] \in Nat
        BY <3>0, <3>00 DEF EventsUpTo
      <4>. QED BY SMTT(30), <1>0, <1>2, <4>1
    <3>3. EventsBefore(Coming(r), inbox)'
      <4>. SUFFICES ASSUME NEW i \in 1..Len(p), NEW j \in 1..Len(inbox'),
                           IsText(p[i]), IsText(inbox'[j])
                    PROVE  p[i][2] < inbox'[j][2]
        BY <3>0 DEF EventsBefore, IsText
      <4>1. CASE j \in 1..Len(inbox)
        BY <2>1, <3>0, <4>1 DEF EventsBefore
      <4>2. CASE j = Len(inbox) + 1
        <5>1. p[i][2] <= used.texts /\ p[i][2] \in Nat
          BY <3>0, <3>00 DEF EventsUpTo
        <5>. QED BY <1>0, <2>1, <2>2, <4>2, <5>1
      <4>. QED BY <2>3, <4>1, <4>2
    <3>. QED BY <3>1, <3>2, <3>3
  <2>. QED BY <2>4, <2>5, <2>6, <2>7, <2>8, <2>9 DEF TextsInOrder
<1>3. ASSUME NEW s \in Slots, PollMessages(s) PROVE TextsInOrder'
  <2>1. PICK n \in 0..Len(inbox) :
           /\ n \in Nat /\ Len(inbox) \in Nat /\ SubSeq(inbox, 1, n) \in Seq(Event)
           /\ Replies(s, PollReply(SubSeq(inbox, 1, n), back))
           /\ inbox' = SubSeq(inbox, n + 1, Len(inbox))
    BY <1>3, BatchOfPoll
  <2> DEFINE p == SubSeq(inbox, 1, n)
  <2>2. UNCHANGED <<messages, used>> /\ call[s].cmd = "poll"
    BY <1>3 DEF PollMessages, Finishes, interface
  <2>3. Coming(s)' = p
    <3>1. PollReply(p, back) \in Reply
      BY <2>1, ReplyTypes DEF IInv, TypeOK, BackType
    <3>2. call'[s].reply = PollReply(p, back)
      BY <2>1, <3>1, Replied DEF IInv, TypeOK
    <3>. QED BY <3>2 DEF Coming, PollReply
  <2>4. ASSUME NEW r \in Slots, r # s PROVE Coming(r)' = <<>>
    <3>1. call[r].cmd # "poll" /\ call'[r] = call[r]
      BY <1>3, <2>2, <2>4, OneCallChanges DEF IInv, OnePoll, TypeOK, Finish
    <3>. QED BY <3>1 DEF Coming, IInv, RepliesAreTrue, ReplyIsTrue
  <2>5. /\ p \in Seq(Event) /\ Len(p) = n /\ \A i \in 1..n : p[i] = inbox[i]
        /\ Len(inbox') = Len(inbox) - n
        /\ \A i \in 1..Len(inbox') : inbox'[i] = inbox[n + i] /\ n + i \in 1..Len(inbox)
    <3>1. /\ Len(inbox') = Len(inbox) - n
          /\ \A i \in 1..Len(inbox) - n : inbox'[i] = inbox[n + i]
      <4>1. CASE n + 1 <= Len(inbox)
        BY <1>0, <2>1, <4>1, SubSeqProperties
      <4>2. CASE n = Len(inbox)
        <5>1. inbox' = <<>>
          BY <1>0, <2>1, <4>2, SubSeqProperties
        <5>. QED BY <1>0, <4>2, <5>1
      <4>. QED BY <2>1, <4>1, <4>2
    <3>2. Len(p) = n /\ \A i \in 1..n : p[i] = inbox[i]
      BY <1>0, <2>1, SubSeqProperties
    <3>. QED BY SMTT(30), <2>1, <3>1, <3>2
  <2>6. \A i \in 1..n : i \in 1..Len(inbox)
    BY <2>1
  <2>. HIDE DEF p
  <2>7. EventsInOrder(inbox)' /\ EventsInOrder(p)
    <3>1. EventsInOrder(p)
      BY <1>0, <2>5, <2>6 DEF TextsInOrder, EventsInOrder
    <3>. SUFFICES ASSUME NEW i \in 1..Len(inbox'), NEW j \in 1..Len(inbox'), i < j,
                         IsText(inbox'[i]), IsText(inbox'[j])
                  PROVE  inbox'[i][2] < inbox'[j][2]
      BY <3>1 DEF EventsInOrder, IsText
    <3>2. n + i < n + j
      BY <2>1
    <3>. QED BY <1>0, <2>5, <3>2 DEF TextsInOrder, EventsInOrder
  <2>8. ListBefore(messages, inbox)' /\ ListBefore(messages, p)
    <3>1. ListBefore(messages, inbox)
      BY <1>0 DEF TextsInOrder
    <3>2. ListBefore(messages, p)
      BY <2>5, <2>6, <3>1 DEF ListBefore
    <3>3. ASSUME NEW i \in 1..Len(messages), NEW j \in 1..Len(inbox'),
                 OfPeer(messages[i]), IsText(inbox'[j])
          PROVE  messages[i].text < inbox'[j][2]
      BY <2>5, <3>1, <3>3 DEF ListBefore
    <3>. QED BY <2>2, <3>2, <3>3 DEF ListBefore, OfPeer, IsText
  <2>9. EventsBefore(p, inbox')
    <3>. SUFFICES ASSUME NEW i \in 1..n, NEW j \in 1..Len(inbox'),
                         IsText(inbox[i]), IsText(inbox[n + j])
                  PROVE  inbox[i][2] < inbox[n + j][2]
      BY <2>5 DEF EventsBefore
    <3>1. i < n + j /\ i \in 1..Len(inbox) /\ n + j \in 1..Len(inbox)
      BY <2>1, <2>5, <2>6
    <3>. QED BY <1>0, <3>1 DEF TextsInOrder, EventsInOrder
  <2>10. EventsUpTo(inbox, used.texts)' /\ EventsUpTo(p, used'.texts)
    <3>1. EventsUpTo(inbox, used.texts)
      BY <1>0 DEF TextsInOrder
    <3>2. EventsUpTo(p, used'.texts)
      BY <2>2, <2>5, <2>6, <3>1 DEF EventsUpTo
    <3>3. ASSUME NEW i \in 1..Len(inbox'), IsText(inbox'[i]) PROVE inbox'[i][2] <= used'.texts
      BY <2>2, <2>5, <3>1, <3>3 DEF EventsUpTo
    <3>. QED BY <3>2, <3>3 DEF EventsUpTo, IsText
  <2>11. BubblesInOrder(messages)' /\ ListUpTo(messages, used.texts)'
    BY <1>0, <2>2 DEF TextsInOrder
  <2>12. ASSUME NEW r \in Slots
         PROVE  /\ EventsInOrder(Coming(r))' /\ ListBefore(messages, Coming(r))'
                /\ EventsBefore(Coming(r), inbox)' /\ EventsUpTo(Coming(r), used.texts)'
    <3>1. CASE r = s
      BY <2>2, <2>3, <2>7, <2>8, <2>9, <2>10, <3>1
    <3>2. CASE r # s
      <4>1. Coming(r)' = <<>>
        BY <2>4, <3>2
      <4>. QED BY <4>1 DEF EventsInOrder, ListBefore, EventsBefore, EventsUpTo
    <3>. QED BY <3>1, <3>2
  <2>. QED BY <2>7, <2>8, <2>10, <2>11, <2>12 DEF TextsInOrder
<1>4. ASSUME NEW s \in Slots, PollShown(s) PROVE TextsInOrder'
  <2>1. /\ BubblesInOrder(messages') /\ ListBefore(messages', inbox)
        /\ ListUpTo(messages', used.texts) /\ call[s].cmd = "poll"
    BY <1>4, PollShows
  <2>2. UNCHANGED <<inbox, used>>
    BY <1>4 DEF PollShown, backend
  <2>3. ASSUME NEW r \in Slots PROVE Coming(r)' = <<>>
    <3>1. CASE r = s
      <4>1. call'[s].reply.status = "none"
        BY <1>4, CallsAreBare DEF Answer, Commands
      <4>. QED BY <3>1, <4>1 DEF Coming
    <3>2. CASE r # s
      <4>1. call[r].cmd # "poll" /\ call'[r] = call[r]
        BY <1>4, <2>1, <3>2, OneCallChanges DEF IInv, OnePoll, TypeOK, Answer
      <4>. QED BY <4>1 DEF Coming, IInv, RepliesAreTrue, ReplyIsTrue
    <3>. QED BY <3>1, <3>2
  <2>4. ASSUME NEW r \in Slots
        PROVE  /\ EventsInOrder(Coming(r))' /\ ListBefore(messages, Coming(r))'
               /\ EventsBefore(Coming(r), inbox)' /\ EventsUpTo(Coming(r), used.texts)'
    <3>1. Coming(r)' = <<>>
      BY <2>3
    <3>. QED BY <3>1 DEF EventsInOrder, ListBefore, EventsBefore, EventsUpTo
  <2>5. EventsInOrder(inbox)' /\ EventsUpTo(inbox, used.texts)'
    BY <1>0, <2>2 DEF TextsInOrder
  <2>. QED BY <2>1, <2>2, <2>4, <2>5 DEF TextsInOrder
<1>5. ASSUME NEW s \in Slots, call[s].reply.status = "sent",
             messages' = Bubble(messages, TRUE, call[s].text)
      PROVE  NoNewBubble(messages, messages')
  <2>1. call[s].text \in Nat
    BY CallSteps DEF IInv, TypeOK
  <2>2. \E k \in {0, 1} : \A i \in 1..Len(Bubble(messages, TRUE, call[s].text)) :
           \/ /\ i + k \in 1..Len(messages)
              /\ Bubble(messages, TRUE, call[s].text)[i] = messages[i + k]
           \/ /\ i = Len(Bubble(messages, TRUE, call[s].text))
              /\ Bubble(messages, TRUE, call[s].text)[i] = [mine |-> TRUE, text |-> call[s].text]
    BY <1>0, <2>1, BubbleComesLast
  <2>3. PICK k \in {0, 1} : \A i \in 1..Len(messages') :
           \/ i + k \in 1..Len(messages) /\ messages'[i] = messages[i + k]
           \/ messages'[i] = [mine |-> TRUE, text |-> call[s].text]
    BY <1>5, <2>2
  <2>4. k \in Nat /\ ~OfPeer([mine |-> TRUE, text |-> call[s].text])
    BY DEF OfPeer
  <2>. QED BY <2>3, <2>4 DEF NoNewBubble
<1>6. NoNewBubble(messages, messages) /\ NoNewBubble(messages, <<>>)
  <2>1. 0 \in Nat /\ \A i \in 1..Len(messages) : i + 0 \in 1..Len(messages) /\ messages[i] = messages[i + 0]
    BY <1>0
  <2>2. NoNewBubble(messages, messages)
    BY <2>1 DEF NoNewBubble
  <2>3. NoNewBubble(messages, <<>>)
    BY <2>1 DEF NoNewBubble
  <2>. QED BY <2>2, <2>3
<1>7. (\E s \in Slots : PollShown(s)) \/ NoNewBubble(messages, messages')
  BY <1>5, <1>6, ChatSteps
<1>8. (\E s \in Slots : PollMessages(s))
        \/ \A r \in Slots : Coming(r)' = Coming(r) \/ Coming(r)' = <<>>
  BY ComingSteps
<1>. QED BY <1>1, <1>2, <1>3, <1>4, <1>7, <1>8, QueueSteps

-----------------------------------------------------------------------------
(* The invariant. *)
\* The first state is empty.
LEMMA Initially ==
  Init => IInv
<1>. SUFFICES ASSUME Init PROVE IInv
  OBVIOUS
<1>. USE DEF Init
<1>1. TypeOK
  <2>1. BackType
    <3>1. "disconnected" \in Channels
      BY DEF Channels
    <3>2. back \in Backs
      BY <3>1, ReplyTypes
    <3>3. used \in [{"commands", "sessions", "texts", "drafts", "faults"} -> Nat]
      OBVIOUS
    <3>4. inbox \in Seq(Event) /\ sent \subseteq Nat
      OBVIOUS
    <3>5. everVerified \in BOOLEAN
      OBVIOUS
    <3>. QED BY <3>2, <3>3, <3>4, <3>5 DEF BackType
  <2>2. CallType
    BY DEF CallType, Calls, Free, Commands, Stages, Reply, Words
  <2>3. ViewType
    <3>1. "disconnected" \in Channels /\ "lobby" \in Views
      BY DEF Channels, Views
    <3>2. shown \in States
      BY <3>1, ReplyTypes
    <3>3. peerCount \in Nat /\ view \in Views /\ messages \in Seq(Bubbles) /\ draft \in Nat
      BY <3>1
    <3>4. available \in BOOLEAN /\ isPolling \in BOOLEAN
      OBVIOUS
    <3>. QED BY <3>2, <3>3, <3>4 DEF ViewType
  <2>. QED BY <2>1, <2>2, <2>3 DEF TypeOK
<1>2. \A s \in Slots : call[s] = Free /\ call[s].reply.status = "none" /\ call[s].cmd = "none"
  BY DEF Free
<1>3. RepliesAreTrue /\ OnePoll
  BY <1>2 DEF RepliesAreTrue, ReplyIsTrue, OnePoll
<1>4. ConfirmedIsTrue /\ VerifiedShownIsTrue
  BY SecurityIsTrue DEF ConfirmedIsTrue, VerifiedShownIsTrue, Channels
<1>5. BubbleWasSent
  BY DEF BubbleWasSent
<1>6. TextsInOrder
  <2>1. \A s \in Slots : Coming(s) = <<>>
    BY <1>2 DEF Coming
  <2>. QED BY <2>1 DEF TextsInOrder, BubblesInOrder, EventsInOrder, ListBefore, ListUpTo,
     EventsUpTo, EventsBefore
<1>. QED BY <1>1, <1>3, <1>4, <1>5, <1>6 DEF IInv

\* Every step keeps the invariant.
LEMMA Inductively ==
  IInv /\ [Next]_vars => IInv'
<1>. SUFFICES ASSUME IInv, [Next]_vars PROVE IInv'
  OBVIOUS
<1>1. TypeOK'
  BY BackTypeStep, CallTypeStep, ViewTypeStep DEF TypeOK
<1>2. ConfirmedIsTrue'
  BY ConfirmedStep
<1>3. RepliesAreTrue'
  BY <1>1, <1>2, RepliesStep
<1>4. VerifiedShownIsTrue' /\ BubbleWasSent' /\ OnePoll' /\ TextsInOrder'
  BY <1>1, <1>3, VerifiedShownStep, BubbleStep, OnePollStep, TextsStep
<1>. QED BY <1>1, <1>2, <1>3, <1>4 DEF IInv

\* What the interface shows and what the replies in flight tell go together in
\* every state.
THEOREM InterfaceInvariant == Spec => []IInv
  BY Initially, Inductively, PTL DEF Spec

\* The interface shows a verified participant only when both have confirmed a
\* session, in whatever order the replies come.
THEOREM VerifiedShown == Spec => []VerifiedShownIsTrue
<1>1. IInv => VerifiedShownIsTrue
  BY DEF IInv
<1>. QED BY <1>1, InterfaceInvariant, PTL

\* A bubble of the user's own is a text that the backend has sent to the peer.
THEOREM BubblesWereSent == Spec => []BubbleWasSent
<1>1. IInv => BubbleWasSent
  BY DEF IInv
<1>. QED BY <1>1, InterfaceInvariant, PTL

\* The peer's texts appear in the order in which they came, and none twice.
THEOREM TextsShownInOrder == Spec => []PeerTextsInOrder
<1>1. IInv => PeerTextsInOrder
  BY DEF IInv, TextsInOrder, BubblesInOrder, OfPeer, PeerTextsInOrder
<1>. QED BY <1>1, InterfaceInvariant, PTL
=====
