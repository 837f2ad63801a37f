------------------------------ MODULE TbsProofs -----------------------------
(***************************************************************************)
(* Proofs about TbsServer, for any games, sessions and rosters: types,     *)
(* that the lists of games and the pointers of their clients agree, and,   *)
(* where AIs come last in the rosters, that everyone is told their own     *)
(* view.                                                                   *)
(*                                                                         *)
(* First come facts about lists: Kept is a recursive function, so what it  *)
(* gives is shown by induction over the beginnings of a list.              *)
(***************************************************************************)
EXTENDS TbsServer, TLAPS, NaturalsInduction, WellFoundedInduction, SequenceTheorems

(* Induction over the naturals, for sets.                                  *)
LEMMA AllNaturals ==
  ASSUME NEW S \in SUBSET Nat, 0 \in S, \A n \in S : n + 1 \in S
  PROVE  S = Nat
<1> DEFINE R == {ss \in Nat \X Nat : ss[1] < ss[2]}
<1>1. SUFFICES ASSUME Nat \ S # {} PROVE FALSE
  OBVIOUS
<1>2. IsWellFoundedOn(R, Nat)
  BY NatLessThanWellFounded DEF OpToRel
<1> HIDE DEF R
<1>3. PICK n \in Nat \ S : \A k \in Nat \ S : ~(<<k, n>> \in R)
  BY <1>1, <1>2, WFMin
<1>4. n - 1 \in Nat /\ n - 1 \notin S
  BY <1>3
<1>5. <<n - 1, n>> \in R
  <2>1. <<n - 1, n>> \in Nat \X Nat /\ n - 1 < n
    BY <1>4
  <2> QED BY <2>1 DEF R
<1> QED BY <1>3, <1>4, <1>5

(* Among some numbers there is a least one.                                *)
LEMMA LeastNatural ==
  ASSUME NEW S \in SUBSET Nat, S # {}
  PROVE  \E x \in S : \A y \in S : x <= y
<1> DEFINE R == {ss \in Nat \X Nat : ss[1] < ss[2]}
<1>1. IsWellFoundedOn(R, Nat)
  BY NatLessThanWellFounded DEF OpToRel
<1> HIDE DEF R
<1>2. PICK x \in S : \A y \in S : ~(<<y, x>> \in R)
  BY <1>1, WFMin
<1>3. ASSUME NEW y \in S PROVE x <= y
  <2>1. y < x => <<y, x>> \in R
    BY DEF R
  <2> QED BY <1>2, <2>1
<1> QED BY <1>3

(* What a list contains when one is appended, or the first is taken.       *)
LEMMA RangeAppend ==
  ASSUME NEW T, NEW list \in Seq(T), NEW x \in T
  PROVE  Range(Append(list, x)) = Range(list) \union {x}
<1> DEFINE more == Append(list, x)
<1>1. /\ more \in Seq(T) /\ Len(more) = Len(list) + 1 /\ more[Len(list) + 1] = x
      /\ \A i \in 1 .. Len(list) : more[i] = list[i]
  OBVIOUS
<1> HIDE DEF more
<1>2. Range(more) = {more[i] : i \in 1 .. Len(list) + 1}
  BY <1>1 DEF Range
<1>3. Range(list) = {list[i] : i \in 1 .. Len(list)}
  BY DEF Range
<1>4. Range(more) = Range(list) \union {x}
  BY <1>1, <1>2, <1>3
<1> QED BY <1>4 DEF more

LEMMA RangeTail ==
  ASSUME NEW T, NEW list \in Seq(T), list # << >>
  PROVE  Tail(list) \in Seq(T) /\ Range(Tail(list)) \subseteq Range(list)
<1>1. /\ Tail(list) \in Seq(T) /\ Len(Tail(list)) = Len(list) - 1
      /\ \A i \in 1 .. Len(Tail(list)) : Tail(list)[i] = list[i + 1]
  BY HeadTailProperties
<1>2. \A i \in 1 .. Len(Tail(list)) : i + 1 \in 1 .. Len(list)
  BY <1>1
<1> QED BY <1>1, <1>2 DEF Range

(* Kept goes through the list from its start.                              *)
LEMMA KeptSteps ==
  ASSUME NEW T, NEW list \in Seq(T), NEW S
  PROVE  \E kept : /\ Kept(list, S) = kept[Len(list)]
                   /\ kept[0] = << >>
                   /\ \A n \in 1 .. Len(list) :
                        kept[n] = IF list[n] \in S THEN Append(kept[n - 1], list[n])
                                  ELSE kept[n - 1]
<1> DEFINE step(n, g) == IF n = 0 THEN << >>
                         ELSE IF list[n] \in S THEN Append(g[n - 1], list[n]) ELSE g[n - 1]
           upto(n, g) == [i \in 0 .. n |-> step(i, g)]
           kept == CHOOSE g : g = [n \in 0 .. Len(list) |->
                     IF n = 0 THEN << >>
                     ELSE IF list[n] \in S THEN Append(g[n - 1], list[n]) ELSE g[n - 1]]
<1>1. Kept(list, S) = kept[Len(list)]
  BY DEF Kept
<1>2. Len(list) \in Nat
  OBVIOUS
\* There is a function that keeps, for ever longer lists.
<1>3. \A n \in Nat : \E g : g = upto(n, g)
  <2> DEFINE P == {n \in Nat : \E g : g = upto(n, g)}
  <2>1. 0 \in P
    <3>1. upto(0, list) = upto(0, upto(0, list))
      OBVIOUS
    <3> QED BY <3>1
  <2>2. ASSUME NEW n \in P PROVE n + 1 \in P
    <3>1. PICK g : g = upto(n, g)
      BY <2>2
    <3> DEFINE h == upto(n + 1, g)
    <3>2. \A i \in 0 .. n : h[i] = g[i]
      <4>1. ASSUME NEW i \in 0 .. n PROVE h[i] = g[i]
        <5>1. i \in 0 .. n + 1
          BY <2>2, <4>1
        <5>2. h[i] = step(i, g)
          BY <5>1
        <5>3. g[i] = step(i, g)
          BY <3>1, <4>1
        <5> QED BY <5>2, <5>3
      <4> QED BY <4>1
    <3>3. \A i \in 0 .. n + 1 : step(i, g) = step(i, h)
      <4>1. ASSUME NEW i \in 0 .. n + 1, i # 0 PROVE h[i - 1] = g[i - 1]
        <5>1. i - 1 \in 0 .. n
          BY <2>2, <4>1
        <5> HIDE DEF h
        <5> QED BY <3>2, <5>1
      <4> HIDE DEF h
      <4> QED BY <4>1
    <3>4. h = upto(n + 1, h)
      <4> HIDE DEF step
      <4> QED BY <3>3
    <3> HIDE DEF h, upto
    <3>5. \E k : k = upto(n + 1, k)
      BY <3>4, Zenon
    <3>6. n + 1 \in Nat
      BY <2>2
    <3> QED BY <3>5, <3>6, Zenon DEF P
  <2>3. P = Nat
    <3>1. P \in SUBSET Nat
      OBVIOUS
    <3> HIDE DEF P
    <3> QED BY <2>1, <2>2, <3>1, AllNaturals
  <2> QED BY <2>3
<1>4. kept = upto(Len(list), kept)
  <2>1. PICK g : g = upto(Len(list), g)
    BY <1>2, <1>3
  <2> QED BY <2>1, Zenon
<1> HIDE DEF kept
<1>5. /\ kept[0] = << >>
      /\ \A n \in 1 .. Len(list) :
           kept[n] = IF list[n] \in S THEN Append(kept[n - 1], list[n]) ELSE kept[n - 1]
  <2>1. \A n \in 0 .. Len(list) : kept[n] = step(n, kept)
    <3> HIDE DEF step
    <3> QED BY <1>4
  <2> QED BY <2>1, <1>2
<1> QED BY <1>1, <1>5

(* Keeping members of S gives those members of the list that are in S.     *)
LEMMA KeptFacts ==
  ASSUME NEW T, NEW list \in Seq(T), NEW S
  PROVE  /\ Kept(list, S) \in Seq(T \intersect S)
         /\ Range(Kept(list, S)) = Range(list) \intersect S
<1>1. PICK kept : /\ Kept(list, S) = kept[Len(list)]
                  /\ kept[0] = << >>
                  /\ \A n \in 1 .. Len(list) :
                       kept[n] = IF list[n] \in S THEN Append(kept[n - 1], list[n])
                                 ELSE kept[n - 1]
  BY KeptSteps
<1> DEFINE fine(n) == /\ kept[n] \in Seq(T \intersect S)
                      /\ Range(kept[n]) = {list[i] : i \in 1 .. n} \intersect S
           P == {n \in Nat : n <= Len(list) => fine(n)}
<1>2. 0 \in P
  <2>1. kept[0] \in Seq(T \intersect S) /\ Range(kept[0]) = {}
    BY <1>1 DEF Range
  <2> QED BY <2>1
<1>3. ASSUME NEW n \in P PROVE n + 1 \in P
  <2> SUFFICES ASSUME n + 1 <= Len(list) PROVE fine(n + 1)
    BY <1>3
  <2>1. fine(n) /\ n \in Nat /\ n + 1 \in 1 .. Len(list) /\ (n + 1) - 1 = n
    BY <1>3
  <2> HIDE DEF P
  <2>2. {list[i] : i \in 1 .. n + 1} = {list[i] : i \in 1 .. n} \union {list[n + 1]}
    BY <2>1
  <2>3. CASE list[n + 1] \in S
    <3>1. kept[n + 1] = Append(kept[n], list[n + 1])
      BY <1>1, <2>1, <2>3
    <3>2. list[n + 1] \in T
      BY <2>1
    <3>3. Range(Append(kept[n], list[n + 1])) = Range(kept[n]) \union {list[n + 1]}
      BY <2>1, <2>3, <3>2, RangeAppend
    <3> QED BY <2>1, <2>2, <2>3, <3>1, <3>2, <3>3
  <2>4. CASE list[n + 1] \notin S
    BY <1>1, <2>1, <2>2, <2>4
  <2> QED BY <2>3, <2>4
<1>4. P = Nat
  <2>1. P \in SUBSET Nat
    OBVIOUS
  <2> HIDE DEF P
  <2> QED BY <1>2, <1>3, <2>1, AllNaturals
<1>5. fine(Len(list))
  <2> HIDE DEF P
  <2>1. Len(list) \in P
    BY <1>4
  <2> QED BY <2>1 DEF P
<1>6. Range(list) = {list[i] : i \in 1 .. Len(list)}
  BY DEF Range
<1> QED BY <1>1, <1>5, <1>6

(* If they come first in the list, they are kept as they are.              *)
LEMMA KeptFirst ==
  ASSUME NEW T, NEW list \in Seq(T), NEW S, NEW m \in 0 .. Len(list),
         \A i \in 1 .. Len(list) : list[i] \in S <=> i <= m
  PROVE  /\ Len(Kept(list, S)) = m
         /\ \A i \in 1 .. m : Kept(list, S)[i] = list[i]
<1>1. PICK kept : /\ Kept(list, S) = kept[Len(list)]
                  /\ kept[0] = << >>
                  /\ \A n \in 1 .. Len(list) :
                       kept[n] = IF list[n] \in S THEN Append(kept[n - 1], list[n])
                                 ELSE kept[n - 1]
  BY KeptSteps
<1> DEFINE upto(n) == IF n <= m THEN n ELSE m
           same(n) == /\ kept[n] \in Seq(T)
                      /\ Len(kept[n]) = upto(n)
                      /\ \A i \in 1 .. upto(n) : kept[n][i] = list[i]
           P == {n \in Nat : n <= Len(list) => same(n)}
<1>2. 0 \in P
  <2>1. upto(0) = 0
    OBVIOUS
  <2>2. kept[0] \in Seq(T) /\ Len(kept[0]) = 0
    BY <1>1
  <2> QED BY <2>1, <2>2
<1>3. ASSUME NEW n \in P PROVE n + 1 \in P
  <2> SUFFICES ASSUME n + 1 <= Len(list) PROVE same(n + 1)
    BY <1>3
  <2>1. same(n) /\ n \in Nat /\ n + 1 \in 1 .. Len(list) /\ (n + 1) - 1 = n
    BY <1>3
  <2> HIDE DEF P
  <2>2. CASE n + 1 <= m
    <3>1. kept[n + 1] = Append(kept[n], list[n + 1])
      BY <1>1, <2>1, <2>2
    <3>2. list[n + 1] \in T
      BY <2>1
    <3>3. upto(n) = n /\ upto(n + 1) = n + 1
      BY <2>1, <2>2
    <3> QED BY <2>1, <3>1, <3>2, <3>3
  <2>3. CASE n + 1 > m
    <3>1. kept[n + 1] = kept[n]
      BY <1>1, <2>1, <2>3
    <3>2. upto(n + 1) = upto(n)
      BY <2>1, <2>3
    <3> QED BY <2>1, <3>1, <3>2
  <2> QED BY <2>1, <2>2, <2>3
<1>4. P = Nat
  <2>1. P \in SUBSET Nat
    OBVIOUS
  <2> HIDE DEF P
  <2> QED BY <1>2, <1>3, <2>1, AllNaturals
<1>5. same(Len(list)) /\ upto(Len(list)) = m
  BY <1>4
<1> QED BY <1>1, <1>5

(* ------------------------------ messages ---------------------------------- *)

Outgoing == [to : {All, Observers} \union Nat, message : Message]

LEMMA MessageTypes ==
  /\ \A s \in Session : State(s) \in Message
  /\ ObserverState \in Message /\ Notice \in Message /\ GameInfo \in Message /\ Bye \in Message
BY DEF Message

LEMMA RecipientsAreClients ==
  ASSUME NEW list \in Seq(Session \union {Ai}), NEW n \in Nat, NEW out \in Outgoing
  PROVE  Recipients(list, n, out) \subseteq Range(list)
<1>1. CASE out.to = All
  BY <1>1 DEF Recipients, All, Observers
<1>2. CASE out.to = Observers
  <2>1. \A i \in n + 1 .. Len(list) : i \in DOMAIN list
    OBVIOUS
  <2> QED BY <1>2, <2>1 DEF Recipients, Range, All, Observers
<1>3. CASE out.to \in Nat
  <2>1. out.to < Len(list) => out.to + 1 \in DOMAIN list
    BY <1>3
  <2> QED BY <1>3, <2>1 DEF Recipients, Range, All, Observers
<1> QED BY <1>1, <1>2, <1>3 DEF Outgoing

(* What is addressed to a session, the messages themselves, and the list by *)
(* which flush_game_messages makes its queue longer.                        *)
News(list, n, outgoing, s) == {out \in Range(outgoing) : s \in Recipients(list, n, out)}
Contents(outs) == {out.message : out \in outs}
Added(list, n, outgoing, s) ==
  LET mine == Kept(outgoing, News(list, n, outgoing, s))
  IN [i \in DOMAIN mine |-> mine[i].message]

LEMMA AddedFacts ==
  ASSUME NEW list, NEW n, NEW outgoing \in Seq(Outgoing), NEW s
  PROVE  LET added == Added(list, n, outgoing, s)
             news == News(list, n, outgoing, s)
         IN  /\ added \in Seq(Message)
             /\ Range(added) = Contents(news)
             /\ news = {} => added = << >>
<1> DEFINE news == News(list, n, outgoing, s)
           mine == Kept(outgoing, news)
           added == Added(list, n, outgoing, s)
<1>1. added = [i \in DOMAIN mine |-> mine[i].message]
  BY DEF Added
<1>2. news \subseteq Range(outgoing)
  BY DEF News
<1> HIDE DEF news, added
<1>3. mine \in Seq(Outgoing \intersect news) /\ Range(mine) = news
  <2>1. mine \in Seq(Outgoing \intersect news) /\ Range(mine) = Range(outgoing) \intersect news
    BY KeptFacts
  <2> HIDE DEF mine
  <2> QED BY <1>2, <2>1
<1> HIDE DEF mine
<1>4. added \in Seq(Message)
  <2>1. DOMAIN mine = 1 .. Len(mine) /\ Len(mine) \in Nat /\ \A i \in 1 .. Len(mine) : mine[i] \in Outgoing
    BY <1>3
  <2>2. added \in [1 .. Len(mine) -> Message]
    BY <1>1, <2>1 DEF Outgoing
  <2> QED BY <2>1, <2>2, SeqDef
<1>5. Range(added) = Contents(news)
  BY <1>1, <1>3 DEF Range, Contents
<1>6. news = {} => added = << >>
  <2>1. news = {} => DOMAIN mine = {}
    BY <1>3 DEF Range
  <2>2. DOMAIN mine = {} => Len(added) = 0
    BY <1>1, <1>4
  <2> QED BY <2>1, <2>2, <1>4
<1> QED BY <1>4, <1>5, <1>6 DEF news, added

LEMMA FlushedAdds ==
  ASSUME NEW queues, NEW list, NEW n, NEW outgoing
  PROVE  Flushed(queues, list, n, outgoing)
           = [s \in Session |-> queues[s] \o Added(list, n, outgoing, s)]
BY DEF Flushed, Added, News

(* It reaches only the game's clients.                                      *)
LEMMA FlushedFacts ==
  ASSUME NEW queues \in [Session -> Seq(Message)],
         NEW list \in Seq(Session \union {Ai}), NEW n \in Nat,
         NEW outgoing \in Seq(Outgoing)
  PROVE  LET told == Flushed(queues, list, n, outgoing)
         IN  /\ told \in [Session -> Seq(Message)]
             /\ \A s \in Session : s \notin Range(list) => told[s] = queues[s]
<1> DEFINE told == Flushed(queues, list, n, outgoing)
           added(s) == Added(list, n, outgoing, s)
<1>1. told = [s \in Session |-> queues[s] \o added(s)]
  BY FlushedAdds
<1> HIDE DEF told
<1>2. ASSUME NEW s \in Session
      PROVE  added(s) \in Seq(Message) /\ (s \notin Range(list) => added(s) = << >>)
  <2>1. s \notin Range(list) => News(list, n, outgoing, s) = {}
    <3>1. Range(outgoing) \subseteq Outgoing
      BY RangeOfSeq
    <3> QED BY <3>1, RecipientsAreClients DEF News
  <2> QED BY <2>1, AddedFacts
<1> HIDE DEF added
<1>3. ASSUME NEW s \in Session
      PROVE  told[s] \in Seq(Message) /\ (s \notin Range(list) => told[s] = queues[s])
  <2>1. queues[s] \in Seq(Message) /\ told[s] = queues[s] \o added(s)
    BY <1>1
  <2> QED BY <1>2, <2>1, ConcatEmptySeq
<1>4. told \in [Session -> Seq(Message)]
  BY <1>1, <1>3
<1> QED BY <1>3, <1>4 DEF told

(* close_ajax takes at most a message from a queue.                         *)
LEMMA CloseAjaxFacts ==
  ASSUME open \subseteq Socket, waiting \subseteq open, writes \in [Socket -> Nat],
         NEW queues \in [Session -> Seq(Message)], NEW socket \in Socket,
         CloseAjax(socket, queues)
  PROVE  /\ msg_queue' \in [Session -> Seq(Message)]
         /\ \A s \in Session : /\ Range(msg_queue'[s]) \subseteq Range(queues[s])
                               /\ queues[s] = << >> => msg_queue'[s] = << >>
         /\ open' \subseteq Socket /\ waiting' \subseteq open' /\ writes' \in [Socket -> Nat]
<1> DEFINE c == ClientOf(socket)
<1>1. c \in Session
  BY DEF Socket, ClientOf
<1>2. open' = open \union {socket} /\ waiting' \in {waiting, waiting \union {socket}}
  BY DEF CloseAjax
<1>3. writes' \in [Socket -> Nat]
  BY DEF CloseAjax, Sent
<1>4. CASE queues[c] = << >>
  <2>1. msg_queue' = queues
    BY <1>4 DEF CloseAjax
  <2> QED BY <1>2, <1>3, <2>1
<1>5. CASE queues[c] # << >>
  <2>1. msg_queue' = [queues EXCEPT ![c] = Tail(@)]
    BY <1>5 DEF CloseAjax
  <2>2. Tail(queues[c]) \in Seq(Message) /\ Range(Tail(queues[c])) \subseteq Range(queues[c])
    BY <1>1, <1>5, RangeTail
  <2> HIDE DEF c
  <2>3. msg_queue' \in [Session -> Seq(Message)]
    BY <1>1, <2>1, <2>2
  <2>4. ASSUME NEW s \in Session
        PROVE  /\ Range(msg_queue'[s]) \subseteq Range(queues[s])
               /\ queues[s] = << >> => msg_queue'[s] = << >>
    BY <1>1, <1>5, <2>1, <2>2
  <2> QED BY <1>2, <1>3, <2>3, <2>4
<1> QED BY <1>4, <1>5

(* send_game_state tells every player its own view, and observers theirs.   *)
LEMMA GameStateFacts ==
  ASSUME NEW users \in Seq(Session)
  PROVE  /\ GameState(users) \in Seq(Outgoing)
         /\ \A out \in Range(GameState(users)) :
              \/ out = To(Observers, ObserverState)
              \/ \E i \in 1 .. Len(users) : out = To(i - 1, State(users[i]))
<1> DEFINE views == [i \in 1 .. Len(users) |-> To(i - 1, State(users[i]))]
           last == << To(Observers, ObserverState) >>
<1>1. views \in Seq(Outgoing)
  <2>1. \A i \in 1 .. Len(users) : i - 1 \in Nat /\ users[i] \in Session
    OBVIOUS
  <2>2. \A i \in 1 .. Len(users) : To(i - 1, State(users[i])) \in Outgoing
    BY <2>1, MessageTypes DEF To, Outgoing
  <2>3. Len(users) \in Nat /\ views \in [1 .. Len(users) -> Outgoing]
    BY <2>2
  <2> HIDE DEF views
  <2> QED BY <2>3, SeqDef
<1>2. last \in Seq(Outgoing)
  BY MessageTypes DEF To, Outgoing
<1>3. Range(last) = {To(Observers, ObserverState)}
  BY DEF Range
<1>4. Range(views) = {To(i - 1, State(users[i])) : i \in 1 .. Len(users)}
  BY DEF Range
<1> HIDE DEF views, last
<1>5. views \o last \in Seq(Outgoing) /\ Range(views \o last) = Range(views) \union Range(last)
  BY <1>1, <1>2, RangeConcatenation
<1>6. GameState(users) = views \o last
  BY DEF GameState, views, last
<1> QED BY <1>3, <1>4, <1>5, <1>6

LEMMA QuitNewsFacts ==
  ASSUME NEW g, NEW s
  PROVE  /\ QuitNews(g, s) \in Seq(Outgoing)
         /\ \A out \in Range(QuitNews(g, s)) : out.message \in {GameInfo, Notice}
<1>1. To(All, GameInfo) \in Outgoing /\ To(All, Notice) \in Outgoing
  BY MessageTypes DEF To, Outgoing
<1>2. To(All, GameInfo).message = GameInfo /\ To(All, Notice).message = Notice
  BY DEF To
<1>3. QuitNews(g, s) \in {<< To(All, GameInfo) >>, << To(All, Notice) >>, << >>}
  BY DEF QuitNews
<1>4. CASE QuitNews(g, s) = << To(All, GameInfo) >>
  BY <1>1, <1>2, <1>4 DEF Range
<1>5. CASE QuitNews(g, s) = << To(All, Notice) >>
  BY <1>1, <1>2, <1>5 DEF Range
<1>6. CASE QuitNews(g, s) = << >>
  BY <1>6 DEF Range
<1> QED BY <1>3, <1>4, <1>5, <1>6

(* --------------------------- lists of clients ----------------------------- *)

(* The users create_game enters are the first of its list, and none of them *)
(* had an entry.                                                            *)
LEMMA EnteredFacts ==
  ASSUME TypeOK, NEW roster \in Roster
  PROVE  LET users == Entered(roster) IN
         /\ users \in Seq(Session \union {Ai})
         /\ Len(users) <= Len(roster)
         /\ \A i \in 1 .. Len(users) :
              users[i] = roster[i] /\ (users[i] = Ai \/ users[i] \notin known)
<1> DEFINE reused == {i \in DOMAIN roster :
                        roster[i] \in (known \union {roster[j] : j \in 1 .. i - 1}) \ {Ai}}
<1>1. roster \in Seq(Session \union {Ai})
  BY TbsAssumption
<1>2. DOMAIN roster = 1 .. Len(roster) /\ Len(roster) \in Nat
  BY <1>1
<1>3. CASE reused = {}
  <2>1. Entered(roster) = roster
    BY <1>3 DEF Entered
  <2>2. \A i \in DOMAIN roster : roster[i] = Ai \/ roster[i] \notin known
    BY <1>3
  <2> QED BY <1>1, <1>2, <2>1, <2>2
<1>4. CASE reused # {}
  <2> DEFINE first == CHOOSE i \in reused : \A j \in reused : i <= j
  <2>1. Entered(roster) = SubSeq(roster, 1, first - 1)
    BY <1>4 DEF Entered
  <2>2. reused \subseteq 1 .. Len(roster)
    BY <1>2
  <2>3. first \in reused /\ \A j \in reused : first <= j
    <3> HIDE DEF reused
    <3>1. reused \subseteq Nat
      BY <1>2, <2>2
    <3>2. \E i \in reused : \A j \in reused : i <= j
      BY <1>4, <3>1, LeastNatural
    <3> QED BY <3>2
  <2>4. first \in 1 .. Len(roster)
    BY <2>2, <2>3
  <2> DEFINE n == first - 1
  <2>5. n \in 0 .. Len(roster)
    BY <1>2, <2>4
  <2>6. \A i \in 1 .. n : i \in DOMAIN roster /\ i \notin reused
    BY <1>2, <2>3, <2>4
  <2>7. \A i \in 1 .. n : roster[i] = Ai \/ roster[i] \notin known
    BY <2>6
  <2> HIDE DEF n, first, reused
  <2>8. /\ SubSeq(roster, 1, n) \in Seq(Session \union {Ai})
        /\ Len(SubSeq(roster, 1, n)) = n
        /\ \A i \in 1 .. n : SubSeq(roster, 1, n)[i] = roster[i]
    BY <1>1, <1>2, <2>5
  <2> QED BY <1>2, <2>1, <2>5, <2>7, <2>8 DEF n
<1> QED BY <1>3, <1>4

(* quit_games takes the session out of the list, or empties it.             *)
LEMMA ClientsAfterQuitFacts ==
  ASSUME NEW g \in Game, NEW s \in Session, TypeOK
  PROVE  /\ ClientsAfterQuit(g, s) \in Seq(Session \union {Ai})
         /\ \/ ClientsAfterQuit(g, s) = << >>
            \/ Range(ClientsAfterQuit(g, s)) = Range(clients[g]) \ {s}
<1>1. clients[g] \in Seq(Session \union {Ai})
  BY DEF TypeOK
<1>2. /\ Without(clients[g], s) \in Seq(Session \union {Ai})
      /\ Range(Without(clients[g], s)) = Range(clients[g]) \ {s}
  <2> DEFINE S == Range(clients[g]) \ {s}
  <2>1. /\ Kept(clients[g], S) \in Seq((Session \union {Ai}) \intersect S)
        /\ Range(Kept(clients[g], S)) = Range(clients[g]) \intersect S
    BY <1>1, KeptFacts
  <2>2. Without(clients[g], s) = Kept(clients[g], S)
    BY DEF Without
  <2>3. Kept(clients[g], S) \in Seq(Session \union {Ai})
    BY <2>1, SeqMonotonic
  <2> QED BY <2>1, <2>2, <2>3
<1> QED BY <1>2 DEF ClientsAfterQuit

LEMMA PlayersWithout ==
  ASSUME NEW T, NEW list \in Seq(T), NEW s
  PROVE  Without(list, s) \in Seq(T \ {s})
<1>1. Kept(list, Range(list) \ {s}) \in Seq(T \intersect (Range(list) \ {s}))
  BY KeptFacts
<1>2. T \intersect (Range(list) \ {s}) \subseteq T \ {s}
  OBVIOUS
<1> QED BY <1>1, <1>2, SeqMonotonic DEF Without

(* The lobby's variables keep their types.                                  *)
LEMMA StatusChangeTypes ==
  ASSUME TypeOK, NEW gs \in SUBSET Game, NEW st \in [Game -> BOOLEAN], StatusChange(gs, st)
  PROVE  lobby' \in {"idle", "waiting"} /\ seen' \in BOOLEAN /\ lobby_games' \subseteq Game \X BOOLEAN
<1>1. Listed(gs, st) \subseteq Game \X BOOLEAN
  BY DEF Listed
<1> QED BY <1>1 DEF StatusChange, TypeOK

(* ------------------------- the inductive invariant ------------------------ *)

(* Who is among a game's clients has an entry in clients_.                   *)
ClientsKnown == \A g \in Game : Range(clients[g]) \subseteq known \union {Ai}

(* Nothing is kept for a session before its entry is made.                   *)
UnknownBlank ==
  \A s \in Session \ known : client_game[s] = NoGame /\ msg_queue[s] = << >>

(* A client points to the one game that lists it, or has quit it.            *)
OneGameEach ==
  \A g \in Game, s \in Session : s \in Range(clients[g]) => client_game[s] \in {g, NoGame}

TbsInv == TypeOK /\ ClientsKnown /\ UnknownBlank /\ OneGameEach /\ ClientsMatchGames

(* Until someone leaves, the clients of a game are its players in their      *)
(* order, then those who play no part in it.                                 *)
PlayersFirst ==
  \A g \in Game \ quit :
    /\ Len(players[g]) <= Len(clients[g])
    /\ \A i \in DOMAIN clients[g] :
         IF i <= Len(players[g]) THEN clients[g][i] = players[g][i]
         ELSE clients[g][i] = Ai \/ nplayer[clients[g][i]] = -1

ViewInv == TbsInv /\ PlayersFirst /\ OwnView

(* AIs, which get no index in the list of players but one in that of the     *)
(* clients, come last.                                                       *)
HumansFirst ==
  \A roster \in Roster : \A i, j \in DOMAIN roster :
    i < j /\ roster[i] = Ai => roster[j] = Ai

LEMMA TbsInit == Init => ViewInv
<1> SUFFICES ASSUME Init PROVE ViewInv
  OBVIOUS
<1>1. TypeOK
  BY TbsAssumption DEF Init, TypeOK
<1>2. \A g \in Game : Range(clients[g]) = {}
  BY DEF Init, Range
<1>3. \A s \in Session : Range(msg_queue[s]) = {}
  BY DEF Init, Range
<1>4. ClientsKnown /\ UnknownBlank /\ OneGameEach
  BY <1>2 DEF Init, ClientsKnown, UnknownBlank, OneGameEach
<1>5. ClientsMatchGames /\ OwnView
  BY DEF Init, ClientsMatchGames, OwnView
<1>6. PlayersFirst
  BY DEF Init, PlayersFirst
<1> QED BY <1>1, <1>4, <1>5, <1>6 DEF ViewInv, TbsInv

(* A new game: its clients were not known before.                           *)
LEMMA CreateGameInv ==
  ASSUME TbsInv, NEW g \in Game, NEW roster \in Roster, CreateGame(g, roster)
  PROVE  TbsInv'
<1> DEFINE users == Entered(roster)
           entered == Range(users) \ {Ai}
<1>1. /\ users \in Seq(Session \union {Ai})
      /\ \A i \in 1 .. Len(users) : users[i] = Ai \/ users[i] \notin known
  BY EnteredFacts DEF TbsInv
<1>2. Range(users) \subseteq entered \union {Ai} /\ entered \subseteq Session \ known
  BY <1>1 DEF Range
<1>3. /\ g \notin games /\ \A s \in Session : client_game[s] # g
      /\ known' = known \union entered
      /\ client_game' = [s \in Session |-> IF s \in entered THEN g ELSE client_game[s]]
      /\ clients' = [clients EXCEPT ![g] = users]
      /\ players' = [players EXCEPT ![g] = Without(users, Ai)]
      /\ started' = [started EXCEPT ![g] = FALSE]
      /\ quit' = quit \ {g}
      /\ games' \in {games, games \union {g}}
      /\ UNCHANGED <<msg_queue, socketVars>>
  BY DEF CreateGame
<1>4. nplayer' \in [Session -> Nat \union {-1}]
  <2>1. nplayer' = [s \in Session |->
          IF s \in entered THEN (CHOOSE i \in DOMAIN users : users[i] = s) - 1 ELSE nplayer[s]]
    BY DEF CreateGame
  <2>2. ASSUME NEW s \in entered
        PROVE  (CHOOSE i \in DOMAIN users : users[i] = s) - 1 \in Nat
    <3>1. \E i \in DOMAIN users : users[i] = s
      BY <2>2 DEF Range
    <3>2. (CHOOSE i \in DOMAIN users : users[i] = s) \in 1 .. Len(users)
      BY <1>1, <3>1
    <3> QED BY <3>2
  <2> HIDE DEF users, entered
  <2> QED BY <2>1, <2>2 DEF TbsInv, TypeOK
<1>5. /\ lobby' \in {"idle", "waiting"} /\ seen' \in BOOLEAN
      /\ lobby_games' \subseteq Game \X BOOLEAN
  <2>1. started' \in [Game -> BOOLEAN] /\ games \union {g} \in SUBSET Game
    BY <1>3 DEF TbsInv, TypeOK
  <2>2. CASE StatusChange(games \union {g}, started')
    BY <2>1, <2>2, StatusChangeTypes DEF TbsInv
  <2>3. CASE UNCHANGED lobbyVars
    BY <2>3 DEF TbsInv, TypeOK, lobbyVars
  <2> QED BY <2>2, <2>3 DEF CreateGame
<1>6. commands' \in 0 .. MaxCommands
  BY TbsAssumption DEF CreateGame, Command, TbsInv, TypeOK
<1>7. Without(users, Ai) \in Seq(Session)
  <2>1. Without(users, Ai) \in Seq((Session \union {Ai}) \ {Ai})
    BY <1>1, PlayersWithout
  <2> QED BY <2>1, SeqMonotonic
<1> HIDE DEF users, entered
<1>8. TypeOK'
  BY <1>1, <1>2, <1>3, <1>4, <1>5, <1>6, <1>7 DEF TbsInv, TypeOK, socketVars
<1>9. /\ \A h \in Game : clients'[h] = IF h = g THEN users ELSE clients[h]
      /\ \A s \in Session : client_game'[s] = IF s \in entered THEN g ELSE client_game[s]
  BY <1>3 DEF TbsInv, TypeOK
<1>10. \A h \in Game : h # g => Range(clients[h]) \intersect entered = {}
  BY <1>2, TbsAssumption DEF TbsInv, ClientsKnown
<1>11. ClientsKnown'
  BY <1>2, <1>3, <1>9 DEF TbsInv, ClientsKnown
<1>12. UnknownBlank'
  BY <1>2, <1>3, <1>9 DEF TbsInv, UnknownBlank
<1>13. OneGameEach'
  <2>1. \A s \in Session : s \in Range(users) => s \in entered
    BY <1>2, TbsAssumption
  <2> QED BY <1>2, <1>9, <1>10, <2>1 DEF TbsInv, OneGameEach
<1>14. ClientsMatchGames'
  <2>1. \A s \in Session : s \in Range(users) <=> s \in entered
    BY TbsAssumption DEF entered
  <2>2. ASSUME NEW h \in games', NEW s \in Session
        PROVE  s \in Range(clients'[h]) <=> client_game'[s] = h
    <3>1. h \in Game
      BY <1>3, <2>2 DEF TbsInv, TypeOK
    <3>2. CASE h = g
      BY <1>3, <1>9, <2>1, <3>2
    <3>3. CASE h # g
      BY <1>3, <1>9, <1>10, <2>2, <3>1, <3>3 DEF TbsInv, ClientsMatchGames
    <3> QED BY <3>2, <3>3
  <2> QED BY <2>2 DEF ClientsMatchGames
<1> QED BY <1>8, <1>11, <1>12, <1>13, <1>14 DEF TbsInv

LEMMA ObserveGameInv ==
  ASSUME TbsInv, NEW g \in Game, NEW s \in Observer, ObserveGame(g, s)
  PROVE  TbsInv'
<1>1. /\ g \in games /\ s \in Session \ known
      /\ known' = known \union {s}
      /\ client_game' = [client_game EXCEPT ![s] = g]
      /\ nplayer' = [nplayer EXCEPT ![s] = -1]
      /\ clients' = [clients EXCEPT ![g] = Append(@, s)]
      /\ UNCHANGED <<msg_queue, games, players, started, quit, socketVars, lobbyVars>>
  BY TbsAssumption DEF ObserveGame
<1>2. commands' \in 0 .. MaxCommands
  BY TbsAssumption DEF ObserveGame, Command, TbsInv, TypeOK
<1>3. /\ Append(clients[g], s) \in Seq(Session \union {Ai})
      /\ Range(Append(clients[g], s)) = Range(clients[g]) \union {s}
  <2>1. clients[g] \in Seq(Session \union {Ai}) /\ s \in Session \union {Ai}
    BY <1>1 DEF TbsInv, TypeOK
  <2> QED BY <2>1, RangeAppend
<1>4. TypeOK'
  BY <1>1, <1>2, <1>3 DEF TbsInv, TypeOK, socketVars, lobbyVars
<1>5. /\ \A h \in Game :
           Range(clients'[h]) = IF h = g THEN Range(clients[h]) \union {s} ELSE Range(clients[h])
      /\ \A t \in Session : client_game'[t] = IF t = s THEN g ELSE client_game[t]
      /\ s \in Session \ known /\ known' = known \union {s}
      /\ msg_queue' = msg_queue /\ games' = games
  <2>1. \A h \in Game : clients'[h] = IF h = g THEN Append(clients[g], s) ELSE clients[h]
    BY <1>1 DEF TbsInv, TypeOK
  <2>2. \A t \in Session : client_game'[t] = IF t = s THEN g ELSE client_game[t]
    BY <1>1 DEF TbsInv, TypeOK
  <2>3. \A h \in Game :
          Range(clients'[h]) = IF h = g THEN Range(clients[h]) \union {s} ELSE Range(clients[h])
    BY <1>3, <2>1
  <2> QED BY <1>1, <2>2, <2>3
<1>6. \A h \in Game : s \notin Range(clients[h])
  BY <1>1, TbsAssumption DEF TbsInv, ClientsKnown
<1>7. ClientsKnown' /\ UnknownBlank'
  BY <1>5 DEF TbsInv, ClientsKnown, UnknownBlank
<1>8. OneGameEach'
  BY <1>5, <1>6 DEF TbsInv, OneGameEach
<1>9. ClientsMatchGames'
  <2>1. games' \subseteq Game
    BY <1>5 DEF TbsInv, TypeOK
  <2>2. ASSUME NEW h \in games', NEW t \in Session
        PROVE  t \in Range(clients'[h]) <=> client_game'[t] = h
    <3>1. t \in Range(clients[h]) <=> client_game[t] = h
      BY <1>5, <2>2 DEF TbsInv, ClientsMatchGames
    <3> QED BY <1>5, <1>6, <2>1, <2>2, <3>1
  <2> QED BY <2>2 DEF ClientsMatchGames
<1> QED BY <1>4, <1>7, <1>8, <1>9 DEF TbsInv

(* What reaches the queues reaches clients only.                            *)
LEMMA PlayInv ==
  ASSUME TbsInv, NEW socket \in Socket, NEW start \in BOOLEAN, Play(socket, start)
  PROVE  TbsInv'
<1> DEFINE s == ClientOf(socket)
           g == client_game[s]
           restarted == IF start /\ started[g] THEN << To(All, Notice) >> ELSE << >>
           outgoing == restarted \o GameState(players[g])
           told == Flushed(msg_queue, clients[g], Len(players[g]), outgoing)
<1>1. /\ s \in Session /\ g \in Game
      /\ started' = [started EXCEPT ![g] = @ \/ start]
      /\ CloseAjax(socket, told)
      /\ UNCHANGED <<known, client_game, nplayer, games, clients, players, quit, lobbyVars>>
  BY DEF Play, Socket, ClientOf, TbsInv, TypeOK
<1>2. outgoing \in Seq(Outgoing)
  <2>1. GameState(players[g]) \in Seq(Outgoing)
    BY <1>1, GameStateFacts DEF TbsInv, TypeOK
  <2>2. restarted \in Seq(Outgoing)
    <3>1. To(All, Notice) \in Outgoing
      BY MessageTypes DEF To, Outgoing
    <3>2. << To(All, Notice) >> \in Seq(Outgoing) /\ << >> \in Seq(Outgoing)
      BY <3>1
    <3> QED BY <3>2
  <2> HIDE DEF restarted
  <2> QED BY <2>1, <2>2
<1>3. /\ msg_queue \in [Session -> Seq(Message)]
      /\ clients[g] \in Seq(Session \union {Ai}) /\ Len(players[g]) \in Nat
  BY <1>1 DEF TbsInv, TypeOK
<1> HIDE DEF outgoing, s, g
<1>4. /\ told \in [Session -> Seq(Message)]
      /\ \A t \in Session : t \notin Range(clients[g]) => told[t] = msg_queue[t]
  <2> DEFINE list == clients[g]
             n == Len(players[g])
  <2>1. /\ msg_queue \in [Session -> Seq(Message)] /\ list \in Seq(Session \union {Ai})
        /\ n \in Nat /\ outgoing \in Seq(Outgoing)
    BY <1>2, <1>3
  <2> HIDE DEF list, n, told
  <2>2. /\ Flushed(msg_queue, list, n, outgoing) \in [Session -> Seq(Message)]
        /\ \A t \in Session :
             t \notin Range(list) => Flushed(msg_queue, list, n, outgoing)[t] = msg_queue[t]
    BY <2>1, FlushedFacts
  <2> QED BY <2>2 DEF told, list, n
<1>5. commands' \in 0 .. MaxCommands
  BY TbsAssumption DEF Play, Command, TbsInv, TypeOK
<1> HIDE DEF told
<1>6. /\ msg_queue' \in [Session -> Seq(Message)]
      /\ \A t \in Session : told[t] = << >> => msg_queue'[t] = << >>
      /\ open' \subseteq Socket /\ waiting' \subseteq open' /\ writes' \in [Socket -> Nat]
  BY <1>1, <1>4, CloseAjaxFacts DEF TbsInv, TypeOK
<1>7. TypeOK'
  BY <1>1, <1>5, <1>6 DEF TbsInv, TypeOK, lobbyVars
<1>8. UnknownBlank'
  <2>1. ASSUME NEW t \in Session \ known PROVE client_game[t] = NoGame /\ msg_queue'[t] = << >>
    <3>1. t \notin Range(clients[g])
      BY <1>1, TbsAssumption DEF TbsInv, ClientsKnown
    <3> QED BY <1>4, <1>6, <3>1 DEF TbsInv, UnknownBlank
  <2> QED BY <1>1, <2>1 DEF UnknownBlank
<1>9. ClientsKnown' /\ OneGameEach' /\ ClientsMatchGames'
  BY <1>1 DEF TbsInv, ClientsKnown, OneGameEach, ClientsMatchGames
<1> QED BY <1>7, <1>8, <1>9 DEF TbsInv

(* Quitting takes a client out of its game, and perhaps the game with it.   *)
LEMMA QuitInv ==
  ASSUME TbsInv, NEW socket \in Socket, Quit(socket)
  PROVE  TbsInv'
<1> DEFINE s == ClientOf(socket)
           g == client_game[s]
           left == {h \in games : s \in Range(clients[h])}
           list == [h \in Game |-> IF h \in left THEN ClientsAfterQuit(h, s) ELSE clients[h]]
           told == IF left = {} THEN msg_queue
                   ELSE Flushed(msg_queue, list[g], 0, QuitNews(g, s))
           queues == [told EXCEPT ![s] = Append(@, Bye)]
<1>1. /\ s \in Session /\ s \in known /\ g \in Game
      /\ clients' = list
      /\ players' = [h \in Game |->
           IF h \in left /\ ~started[h] THEN Without(players[h], s) ELSE players[h]]
      /\ games' = {h \in games : h \notin left \/ list[h] # << >>}
      /\ quit' = quit \union left
      /\ client_game' = [client_game EXCEPT ![s] = NoGame]
      /\ CloseAjax(socket, queues)
      /\ UNCHANGED <<known, nplayer, started>>
  BY DEF Quit, Post, Socket, ClientOf, TbsInv, TypeOK
<1>2. /\ lobby' \in {"idle", "waiting"} /\ seen' \in BOOLEAN
      /\ lobby_games' \subseteq Game \X BOOLEAN
  <2>1. started \in [Game -> BOOLEAN] /\ games' \in SUBSET Game
    BY <1>1 DEF TbsInv, TypeOK
  <2>2. CASE StatusChange(games', started)
    BY <2>1, <2>2, StatusChangeTypes DEF TbsInv
  <2>3. CASE UNCHANGED lobbyVars
    BY <2>3 DEF TbsInv, TypeOK, lobbyVars
  <2> QED BY <2>2, <2>3 DEF Quit
<1>3. commands' \in 0 .. MaxCommands
  BY TbsAssumption DEF Quit, Command, TbsInv, TypeOK
<1>4. left \subseteq games /\ \A h \in games : h \in left <=> s \in Range(clients[h])
  OBVIOUS
<1>5. left \subseteq {g}
  BY <1>1, <1>4 DEF TbsInv, ClientsMatchGames
<1>6. ASSUME NEW h \in Game
      PROVE  /\ list[h] \in Seq(Session \union {Ai})
             /\ h \notin left => list[h] = clients[h]
             /\ h \in left => list[h] = << >> \/ Range(list[h]) = Range(clients[h]) \ {s}
             /\ Range(list[h]) \subseteq Range(clients[h])
  <2>1. list[h] = IF h \in left THEN ClientsAfterQuit(h, s) ELSE clients[h]
    OBVIOUS
  <2>2. clients[h] \in Seq(Session \union {Ai})
    BY DEF TbsInv, TypeOK
  <2> HIDE DEF left, list, s
  <2>3. /\ ClientsAfterQuit(h, s) \in Seq(Session \union {Ai})
        /\ \/ ClientsAfterQuit(h, s) = << >>
           \/ Range(ClientsAfterQuit(h, s)) = Range(clients[h]) \ {s}
    BY <1>1, ClientsAfterQuitFacts DEF TbsInv
  <2>4. Range(<< >>) = {}
    BY DEF Range
  <2> QED BY <2>1, <2>2, <2>3, <2>4
<1> HIDE DEF left, list, g, s
<1>7. /\ told \in [Session -> Seq(Message)]
      /\ \A t \in Session : t \notin Range(list[g]) => told[t] = msg_queue[t]
  <2>1. msg_queue \in [Session -> Seq(Message)] /\ list[g] \in Seq(Session \union {Ai})
    BY <1>1, <1>6 DEF TbsInv, TypeOK
  <2>2. QuitNews(g, s) \in Seq(Outgoing) /\ 0 \in Nat
    BY QuitNewsFacts
  <2> DEFINE rest == list[g]
             news == QuitNews(g, s)
             flushed == Flushed(msg_queue, rest, 0, news)
  <2>3. told = IF left = {} THEN msg_queue ELSE flushed
    OBVIOUS
  <2> HIDE DEF rest, news, told
  <2>4. /\ flushed \in [Session -> Seq(Message)]
        /\ \A t \in Session : t \notin Range(rest) => flushed[t] = msg_queue[t]
    BY <2>1, <2>2, FlushedFacts DEF rest, news
  <2> QED BY <2>1, <2>3, <2>4 DEF rest
<1> HIDE DEF told
<1>8. /\ queues \in [Session -> Seq(Message)]
      /\ \A t \in Session : t # s => queues[t] = told[t]
  <2>1. Append(told[s], Bye) \in Seq(Message)
    BY <1>1, <1>7, MessageTypes
  <2> QED BY <1>1, <1>7, <2>1
<1> HIDE DEF queues
<1>9. /\ msg_queue' \in [Session -> Seq(Message)]
      /\ \A t \in Session : queues[t] = << >> => msg_queue'[t] = << >>
      /\ open' \subseteq Socket /\ waiting' \subseteq open' /\ writes' \in [Socket -> Nat]
  BY <1>1, <1>8, CloseAjaxFacts DEF TbsInv, TypeOK
<1>10. TypeOK'
  <2>1. clients' \in [Game -> Seq(Session \union {Ai})]
    BY <1>1, <1>6 DEF list
  <2>2. players' \in [Game -> Seq(Session)]
    <3>1. ASSUME NEW h \in Game PROVE Without(players[h], s) \in Seq(Session)
      <4>1. Without(players[h], s) \in Seq(Session \ {s})
        BY PlayersWithout DEF TbsInv, TypeOK
      <4> QED BY <4>1, SeqMonotonic
    <3> QED BY <1>1, <3>1 DEF TbsInv, TypeOK
  <2>3. client_game' \in [Session -> Game \union {NoGame}] /\ games' \subseteq Game /\ quit' \subseteq Game
    BY <1>1, <1>5 DEF TbsInv, TypeOK
  <2> QED BY <1>1, <1>2, <1>3, <1>9, <2>1, <2>2, <2>3 DEF TbsInv, TypeOK
<1>11. ClientsKnown'
  BY <1>1, <1>6 DEF TbsInv, ClientsKnown
<1>12. \A t \in Session : client_game'[t] = IF t = s THEN NoGame ELSE client_game[t]
  BY <1>1 DEF TbsInv, TypeOK
<1>13. UnknownBlank'
  <2>1. ASSUME NEW t \in Session \ known PROVE client_game'[t] = NoGame /\ msg_queue'[t] = << >>
    <3>1. t \notin Range(list[g]) /\ t # s
      BY <1>1, <1>6, TbsAssumption DEF TbsInv, ClientsKnown
    <3> QED BY <1>7, <1>8, <1>9, <1>12, <3>1 DEF TbsInv, UnknownBlank
  <2> QED BY <1>1, <2>1 DEF UnknownBlank
<1>14. OneGameEach'
  BY <1>1, <1>6, <1>12 DEF TbsInv, OneGameEach
<1>15. ClientsMatchGames'
  <2>1. ASSUME NEW h \in games', NEW t \in Session
        PROVE  t \in Range(clients'[h]) <=> client_game'[t] = h
    <3>1. h \in games /\ h \in Game /\ h # NoGame /\ (h \notin left \/ list[h] # << >>)
      BY <1>1, <2>1, TbsAssumption DEF TbsInv, TypeOK
    <3>2. t \in Range(clients[h]) <=> client_game[t] = h
      BY <3>1 DEF TbsInv, ClientsMatchGames
    <3>3. CASE h \in left
      <4>1. Range(list[h]) = Range(clients[h]) \ {s}
        BY <1>6, <3>1, <3>3
      <4> QED BY <1>1, <1>12, <3>1, <3>2, <4>1
    <3>4. CASE h \notin left
      BY <1>1, <1>4, <1>6, <1>12, <3>1, <3>2, <3>4
    <3> QED BY <3>3, <3>4
  <2> QED BY <2>1 DEF ClientsMatchGames
<1> QED BY <1>10, <1>11, <1>13, <1>14, <1>15 DEF TbsInv

(* Requests for the next message, answers, the lobby's polls and heartbeats *)
(* leave the games alone, and add nothing to a queue.                       *)
LEMMA RemainingInv ==
  ASSUME TbsInv,
         \/ GetStatus
         \/ \E s \in Session : Poll(s)
         \/ \E socket \in Socket : HandleSend(socket)
         \/ Heartbeat
         \/ UNCHANGED vars
  PROVE  /\ TbsInv'
         /\ \A s \in Session : Range(msg_queue'[s]) \subseteq Range(msg_queue[s])
         /\ UNCHANGED <<known, client_game, nplayer, games, clients, players, quit>>
<1>1. /\ UNCHANGED <<known, client_game, nplayer, games, clients, players, quit, started, commands>>
      /\ msg_queue' \in [Session -> Seq(Message)]
      /\ open' \subseteq Socket /\ waiting' \subseteq open' /\ writes' \in [Socket -> Nat]
      /\ \A s \in Session : /\ Range(msg_queue'[s]) \subseteq Range(msg_queue[s])
                            /\ msg_queue[s] = << >> => msg_queue'[s] = << >>
  <2>1. CASE GetStatus
    BY <2>1 DEF GetStatus, clientVars, gameVars, socketVars, TbsInv, TypeOK
  <2>2. ASSUME NEW s \in Session, Poll(s)
        PROVE  <1>1
    <3>1. PICK socket \in {s} \X {1, 2} : CloseAjax(socket, msg_queue)
      BY <2>2 DEF Poll
    <3>2. socket \in Socket
      BY <3>1 DEF Socket
    <3>3. UNCHANGED <<known, client_game, nplayer, gameVars, commands>>
      BY <2>2 DEF Poll
    <3> QED BY <3>1, <3>2, <3>3, CloseAjaxFacts DEF gameVars, TbsInv, TypeOK
  <2>3. ASSUME NEW socket \in Socket, HandleSend(socket)
        PROVE  <1>1
    BY <2>3 DEF HandleSend, clientVars, gameVars, TbsInv, TypeOK
  <2>4. CASE Heartbeat
    BY <2>4 DEF Heartbeat, Sent, clientVars, gameVars, TbsInv, TypeOK
  <2>5. CASE UNCHANGED vars
    BY <2>5 DEF vars, clientVars, gameVars, socketVars, TbsInv, TypeOK
  <2> QED BY <2>1, <2>2, <2>3, <2>4, <2>5
<1>2. /\ lobby' \in {"idle", "waiting"} /\ seen' \in BOOLEAN
      /\ lobby_games' \subseteq Game \X BOOLEAN
  <2>1. CASE GetStatus
    <3>1. games \subseteq Game /\ started \in [Game -> BOOLEAN] /\ lobby_games \subseteq Game \X BOOLEAN
          /\ seen \in BOOLEAN
      BY DEF TbsInv, TypeOK
    <3>2. Listed(games, started) \subseteq Game \X BOOLEAN
      BY <3>1 DEF Listed
    <3> QED BY <2>1, <3>1, <3>2 DEF GetStatus
  <2>2. CASE Heartbeat
    BY <2>2, StatusChangeTypes DEF Heartbeat, TbsInv, TypeOK
  <2>3. CASE UNCHANGED lobbyVars
    BY <2>3 DEF TbsInv, TypeOK, lobbyVars
  <2> QED BY <2>1, <2>2, <2>3 DEF Poll, HandleSend, vars
<1>3. TypeOK'
  BY <1>1, <1>2 DEF TbsInv, TypeOK
<1>4. ClientsKnown' /\ UnknownBlank' /\ OneGameEach' /\ ClientsMatchGames'
  BY <1>1 DEF TbsInv, ClientsKnown, UnknownBlank, OneGameEach, ClientsMatchGames
<1> QED BY <1>1, <1>3, <1>4 DEF TbsInv

LEMMA TbsStep == TbsInv /\ [Next]_vars => TbsInv'
<1> SUFFICES ASSUME TbsInv, [Next]_vars PROVE TbsInv'
  OBVIOUS
<1> QED BY CreateGameInv, ObserveGameInv, PlayInv, QuitInv, RemainingInv DEF Next

(* The inductive invariant of the lists, for any clients, games and users.  *)
THEOREM TbsInvariant == Spec => []TbsInv
<1>1. Init => TbsInv
  BY TbsInit DEF ViewInv
<1> QED BY <1>1, TbsStep, PTL DEF Spec

(* The server's tables, queues and connections keep their types.            *)
THEOREM TbsTypes == Spec => []TypeOK
<1>1. TbsInv => TypeOK
  BY DEF TbsInv
<1> QED BY <1>1, TbsInvariant, PTL

(* Every client of a game the lobby can see points to that game, and every  *)
(* session that points to it is listed in it, though creations fail halfway *)
(* and games are given up under their clients (create_game, quit_games).    *)
THEOREM ClientsAndGamesAgree == Spec => []ClientsMatchGames
<1>1. TbsInv => ClientsMatchGames
  BY DEF TbsInv
<1> QED BY <1>1, TbsInvariant, PTL

(* ----------------------------- who is told what --------------------------- *)

(* Where AIs come last, a new game's players are its first clients.         *)
LEMMA PlayersOfNewGame ==
  ASSUME HumansFirst, TypeOK, NEW roster \in Roster
  PROVE  LET users == Entered(roster)
             humans == Without(users, Ai)
         IN  /\ Len(humans) <= Len(users)
             /\ \A i \in 1 .. Len(users) :
                  IF i <= Len(humans) THEN users[i] = humans[i] ELSE users[i] = Ai
<1> DEFINE users == Entered(roster)
           ais == {i \in 1 .. Len(users) : users[i] = Ai}
           S == Range(users) \ {Ai}
<1>1. /\ users \in Seq(Session \union {Ai}) /\ Len(users) <= Len(roster)
      /\ \A i \in 1 .. Len(users) : users[i] = roster[i]
  BY EnteredFacts
<1>2. \A i, j \in 1 .. Len(users) : i < j /\ users[i] = Ai => users[j] = Ai
  <2>1. roster \in Seq(Session \union {Ai})
    BY TbsAssumption
  <2>2. DOMAIN roster = 1 .. Len(roster) /\ Len(roster) \in Nat /\ Len(users) \in Nat
    BY <1>1, <2>1
  <2> HIDE DEF users
  <2>3. \A i \in 1 .. Len(users) : i \in DOMAIN roster
    BY <1>1, <2>2
  <2> QED BY <1>1, <2>3 DEF HumansFirst
<1> HIDE DEF users
<1>3. \E m \in 0 .. Len(users) : \A i \in 1 .. Len(users) : users[i] # Ai <=> i <= m
  <2>0. Len(users) \in Nat
    BY <1>1
  <2>1. CASE ais = {}
    <3>1. \A i \in 1 .. Len(users) : users[i] # Ai <=> i <= Len(users)
      BY <2>0, <2>1
    <3> QED BY <2>0, <3>1
  <2>2. CASE ais # {}
    <3>1. ais \subseteq Nat
      OBVIOUS
    <3>2. PICK first \in ais : \A j \in ais : first <= j
      BY <2>2, <3>1, LeastNatural
    <3>3. \A i \in 1 .. Len(users) : users[i] # Ai <=> i <= first - 1
      <4>1. ASSUME NEW i \in 1 .. Len(users)
            PROVE  users[i] # Ai <=> i <= first - 1
        BY <1>2, <2>0, <3>2
      <4> QED BY <4>1
    <3>4. first - 1 \in 0 .. Len(users)
      BY <2>0, <3>2
    <3> QED BY <3>3, <3>4
  <2> QED BY <2>1, <2>2
<1>4. PICK m \in 0 .. Len(users) : \A i \in 1 .. Len(users) : users[i] # Ai <=> i <= m
  BY <1>3
<1>5. \A i \in 1 .. Len(users) : users[i] \in S <=> i <= m
  BY <1>1, <1>4 DEF Range
<1> HIDE DEF S
<1>6. Len(Kept(users, S)) = m /\ \A i \in 1 .. m : Kept(users, S)[i] = users[i]
  BY <1>1, <1>5, KeptFirst
<1>7. Without(users, Ai) = Kept(users, S)
  BY DEF Without, S
<1> DEFINE humans == Without(users, Ai)
<1> HIDE DEF humans
<1>8. Len(humans) = m /\ \A i \in 1 .. m : humans[i] = users[i]
  BY <1>6, <1>7 DEF humans
<1>9. Len(users) \in Nat
  BY <1>1
<1>10. Len(humans) <= Len(users)
  BY <1>8, <1>9
<1>11. ASSUME NEW i \in 1 .. Len(users)
       PROVE  IF i <= Len(humans) THEN users[i] = humans[i] ELSE users[i] = Ai
  BY <1>4, <1>8, <1>9, <1>11
<1> QED BY <1>10, <1>11 DEF users, humans

LEMMA CreateGameViews ==
  ASSUME HumansFirst, ViewInv, NEW g \in Game, NEW roster \in Roster, CreateGame(g, roster)
  PROVE  PlayersFirst' /\ OwnView'
<1> DEFINE users == Entered(roster)
           entered == Range(users) \ {Ai}
           humans == Without(users, Ai)
<1>1. /\ users \in Seq(Session \union {Ai})
      /\ \A i \in 1 .. Len(users) : users[i] = Ai \/ users[i] \notin known
  BY EnteredFacts DEF ViewInv, TbsInv
<1>2. entered \subseteq Session \ known
  BY <1>1 DEF Range
<1>3. /\ \A s \in Session : client_game[s] # g
      /\ clients' = [clients EXCEPT ![g] = users]
      /\ players' = [players EXCEPT ![g] = humans]
      /\ quit' = quit \ {g}
      /\ UNCHANGED msg_queue
      /\ client_game' = [s \in Session |-> IF s \in entered THEN g ELSE client_game[s]]
  BY DEF CreateGame
<1>4. \A s \in Session \ entered : nplayer'[s] = nplayer[s]
  BY DEF CreateGame
<1>5. /\ Len(humans) <= Len(users)
      /\ \A i \in 1 .. Len(users) :
           IF i <= Len(humans) THEN users[i] = humans[i] ELSE users[i] = Ai
  BY PlayersOfNewGame DEF ViewInv, TbsInv
<1> HIDE DEF users, entered, humans
<1>6. ASSUME NEW h \in Game \ quit'
      PROVE  /\ Len(players'[h]) <= Len(clients'[h])
             /\ \A i \in DOMAIN clients'[h] :
                  IF i <= Len(players'[h]) THEN clients'[h][i] = players'[h][i]
                  ELSE clients'[h][i] = Ai \/ nplayer'[clients'[h][i]] = -1
  <2>1. CASE h = g
    <3>1. clients'[h] = users /\ players'[h] = humans
      BY <1>3, <2>1 DEF ViewInv, TbsInv, TypeOK
    <3>2. DOMAIN users = 1 .. Len(users)
      BY <1>1
    <3> QED BY <1>5, <3>1, <3>2
  <2>2. CASE h # g
    <3>1. clients'[h] = clients[h] /\ players'[h] = players[h] /\ h \in Game \ quit
      BY <1>3, <1>6, <2>2 DEF ViewInv, TbsInv, TypeOK
    <3>2. ASSUME NEW i \in DOMAIN clients[h], clients[h][i] # Ai
          PROVE  nplayer'[clients[h][i]] = nplayer[clients[h][i]]
      <4>1. clients[h][i] \in Range(clients[h])
        BY DEF Range
      <4>2. clients[h][i] \in known
        BY <3>1, <3>2, <4>1 DEF ViewInv, TbsInv, ClientsKnown
      <4>3. clients[h][i] \in Session \ entered
        BY <1>2, <4>2 DEF ViewInv, TbsInv, TypeOK
      <4> QED BY <1>4, <4>3
    <3> QED BY <3>1, <3>2 DEF ViewInv, PlayersFirst
  <2> QED BY <2>1, <2>2
<1>7. PlayersFirst'
  BY <1>6 DEF PlayersFirst
<1>8. ASSUME NEW s \in Session, client_game'[s] # NoGame, client_game'[s] \notin quit',
             NEW m \in Range(msg_queue'[s])
      PROVE  (m.type = "state" => m.for = s) /\ (m.type = "observer" => nplayer'[s] = -1)
  <2>1. CASE s \in entered
    <3>1. msg_queue'[s] = << >>
      BY <1>2, <1>3, <2>1 DEF ViewInv, TbsInv, UnknownBlank
    <3> QED BY <1>8, <3>1 DEF Range
  <2>2. CASE s \notin entered
    <3>1. client_game'[s] = client_game[s] /\ client_game[s] # g /\ nplayer'[s] = nplayer[s]
      BY <1>3, <1>4, <2>2
    <3> QED BY <1>3, <1>8, <3>1 DEF ViewInv, OwnView
  <2> QED BY <2>1, <2>2
<1> QED BY <1>7, <1>8 DEF OwnView

LEMMA ObserveGameViews ==
  ASSUME ViewInv, NEW g \in Game, NEW s \in Observer, ObserveGame(g, s)
  PROVE  PlayersFirst' /\ OwnView'
<1>1. /\ s \in Session \ known
      /\ UNCHANGED <<msg_queue, players, quit>>
  BY TbsAssumption DEF ObserveGame
<1>2. /\ \A h \in Game : clients'[h] = IF h = g THEN Append(clients[g], s) ELSE clients[h]
      /\ \A t \in Session : /\ client_game'[t] = IF t = s THEN g ELSE client_game[t]
                            /\ nplayer'[t] = IF t = s THEN -1 ELSE nplayer[t]
  BY <1>1 DEF ObserveGame, ViewInv, TbsInv, TypeOK
<1>3. ASSUME NEW h \in Game \ quit
      PROVE  /\ Len(players[h]) <= Len(clients'[h])
             /\ \A i \in DOMAIN clients'[h] :
                  IF i <= Len(players[h]) THEN clients'[h][i] = players[h][i]
                  ELSE clients'[h][i] = Ai \/ nplayer'[clients'[h][i]] = -1
  <2> DEFINE list == clients[h]
             n == Len(players[h])
  <2>1. list \in Seq(Session \union {Ai}) /\ n \in Nat
    BY DEF ViewInv, TbsInv, TypeOK
  <2>2. /\ n <= Len(list)
        /\ \A i \in 1 .. Len(list) :
             IF i <= n THEN list[i] = players[h][i] ELSE list[i] = Ai \/ nplayer[list[i]] = -1
    BY <2>1 DEF ViewInv, PlayersFirst
  <2>3. \A i \in 1 .. Len(list) : list[i] # Ai => nplayer'[list[i]] = nplayer[list[i]]
    <3>1. ASSUME NEW i \in 1 .. Len(list), list[i] # Ai
          PROVE  nplayer'[list[i]] = nplayer[list[i]]
      <4>1. list[i] \in Range(list) /\ list[i] \in Session
        BY <2>1, <3>1 DEF Range
      <4>2. list[i] # s
        BY <1>1, <3>1, <4>1 DEF ViewInv, TbsInv, ClientsKnown
      <4> QED BY <1>2, <4>1, <4>2
    <3> QED BY <3>1
  <2>4. CASE h # g
    <3>1. clients'[h] = list /\ DOMAIN list = 1 .. Len(list)
      BY <1>2, <2>1, <2>4
    <3> QED BY <2>2, <2>3, <3>1
  <2>5. CASE h = g
    <3> DEFINE more == Append(list, s)
    <3>1. clients'[h] = more
      BY <1>2, <2>5
    <3>2. /\ Len(more) = Len(list) + 1 /\ Len(list) \in Nat /\ DOMAIN more = 1 .. Len(more)
          /\ more[Len(list) + 1] = s /\ \A i \in 1 .. Len(list) : more[i] = list[i]
      BY <1>1, <2>1
    <3>3. nplayer'[s] = -1
      BY <1>1, <1>2
    <3> HIDE DEF more, list, n
    <3>4. n <= Len(more)
      BY <2>1, <2>2, <3>2
    <3>5. ASSUME NEW i \in 1 .. Len(more)
          PROVE  IF i <= n THEN more[i] = players[h][i] ELSE more[i] = Ai \/ nplayer'[more[i]] = -1
      <4>1. CASE i \in 1 .. Len(list)
        BY <2>2, <2>3, <3>2, <4>1
      <4>2. CASE i = Len(list) + 1
        BY <2>1, <2>2, <3>2, <3>3, <4>2
      <4> QED BY <3>2, <4>1, <4>2
    <3> QED BY <3>1, <3>2, <3>4, <3>5 DEF n
  <2> QED BY <2>4, <2>5
<1>4. PlayersFirst'
  BY <1>1, <1>3 DEF PlayersFirst
<1>5. ASSUME NEW t \in Session, client_game'[t] # NoGame, client_game'[t] \notin quit,
             NEW m \in Range(msg_queue[t])
      PROVE  (m.type = "state" => m.for = t) /\ (m.type = "observer" => nplayer'[t] = -1)
  <2>1. t # s
    <3>1. msg_queue[s] = << >>
      BY <1>1 DEF ViewInv, TbsInv, UnknownBlank
    <3> QED BY <3>1 DEF Range
  <2> QED BY <1>2, <1>5, <2>1 DEF ViewInv, OwnView
<1> QED BY <1>1, <1>4, <1>5 DEF OwnView

LEMMA PlayViews ==
  ASSUME ViewInv, NEW socket \in Socket, NEW start \in BOOLEAN, Play(socket, start)
  PROVE  PlayersFirst' /\ OwnView'
<1> DEFINE s == ClientOf(socket)
           g == client_game[s]
           restarted == IF start /\ started[g] THEN << To(All, Notice) >> ELSE << >>
           outgoing == restarted \o GameState(players[g])
           list == clients[g]
           n == Len(players[g])
           told == Flushed(msg_queue, list, n, outgoing)
<1>1. /\ s \in Session /\ g \in Game
      /\ CloseAjax(socket, told)
      /\ UNCHANGED <<known, client_game, nplayer, games, clients, players, quit>>
  BY DEF Play, Socket, ClientOf, ViewInv, TbsInv, TypeOK
<1> HIDE DEF s, g
<1>2. /\ outgoing \in Seq(Outgoing)
      /\ \A out \in Range(outgoing) :
           \/ out = To(All, Notice)
           \/ out = To(Observers, ObserverState)
           \/ \E i \in 1 .. n : out = To(i - 1, State(players[g][i]))
  <2>1. /\ GameState(players[g]) \in Seq(Outgoing)
        /\ \A out \in Range(GameState(players[g])) :
             \/ out = To(Observers, ObserverState)
             \/ \E i \in 1 .. n : out = To(i - 1, State(players[g][i]))
    BY <1>1, GameStateFacts DEF ViewInv, TbsInv, TypeOK
  <2>2. restarted \in Seq(Outgoing) /\ \A out \in Range(restarted) : out = To(All, Notice)
    <3>1. To(All, Notice) \in Outgoing
      BY MessageTypes DEF To, Outgoing
    <3>2. << To(All, Notice) >> \in Seq(Outgoing) /\ << >> \in Seq(Outgoing)
      BY <3>1
    <3>3. Range(<< To(All, Notice) >>) = {To(All, Notice)} /\ Range(<< >>) = {}
      BY DEF Range
    <3> QED BY <3>2, <3>3
  <2> HIDE DEF restarted
  <2>3. Range(outgoing) = Range(restarted) \union Range(GameState(players[g]))
    BY <2>1, <2>2, RangeConcatenation
  <2>4. outgoing \in Seq(Outgoing)
    BY <2>1, <2>2
  <2> QED BY <2>1, <2>2, <2>3, <2>4
<1> HIDE DEF outgoing
<1>3. /\ msg_queue \in [Session -> Seq(Message)]
      /\ list \in Seq(Session \union {Ai}) /\ n \in Nat
  BY <1>1 DEF ViewInv, TbsInv, TypeOK
<1> HIDE DEF list, n
<1>4. told \in [Session -> Seq(Message)] /\ \A t \in Session : told[t] = msg_queue[t] \o Added(list, n, outgoing, t)
  <2>1. told \in [Session -> Seq(Message)]
    BY <1>2, <1>3, FlushedFacts
  <2> QED BY <2>1, FlushedAdds
<1> HIDE DEF told
<1>5. PlayersFirst'
  BY <1>1 DEF ViewInv, PlayersFirst
<1>6. ASSUME NEW t \in Session, client_game[t] # NoGame, client_game[t] \notin quit,
             NEW m \in Range(msg_queue'[t])
      PROVE  (m.type = "state" => m.for = t) /\ (m.type = "observer" => nplayer[t] = -1)
  <2>1. m \in Range(told[t])
    BY <1>1, <1>4, <1>6, CloseAjaxFacts DEF ViewInv, TbsInv, TypeOK
  <2>2. m \in Range(msg_queue[t]) \union Contents(News(list, n, outgoing, t))
    <3>1. /\ Added(list, n, outgoing, t) \in Seq(Message)
          /\ Range(Added(list, n, outgoing, t)) = Contents(News(list, n, outgoing, t))
      BY <1>2, AddedFacts
    <3>2. msg_queue[t] \in Seq(Message)
      BY <1>3
    <3>3. Range(msg_queue[t] \o Added(list, n, outgoing, t))
            = Range(msg_queue[t]) \union Range(Added(list, n, outgoing, t))
      BY <3>1, <3>2, RangeConcatenation
    <3> QED BY <1>4, <2>1, <3>1, <3>3
  <2>3. CASE m \in Range(msg_queue[t])
    BY <1>6, <2>3 DEF ViewInv, OwnView
  <2>4. CASE m \in Contents(News(list, n, outgoing, t))
    <3>1. PICK out \in Range(outgoing) : t \in Recipients(list, n, out) /\ m = out.message
      BY <2>4 DEF Contents, News
    <3>2. t \in Range(list)
      <4>1. out \in Outgoing
        BY <1>2, RangeOfSeq
      <4> QED BY <1>3, <3>1, <4>1, RecipientsAreClients
    <3>3. g \in Game \ quit
      BY <1>1, <1>6, <3>2 DEF list, ViewInv, TbsInv, OneGameEach
    <3>4. /\ n <= Len(list)
          /\ \A i \in 1 .. Len(list) :
               IF i <= n THEN list[i] = players[g][i] ELSE list[i] = Ai \/ nplayer[list[i]] = -1
      BY <1>3, <3>3 DEF list, n, ViewInv, PlayersFirst
    <3>5. CASE out = To(All, Notice)
      BY <3>1, <3>5 DEF To, Notice
    <3>6. CASE out = To(Observers, ObserverState)
      <4>1. out.to = Observers /\ m.type = "observer"
        BY <3>1, <3>6 DEF To, ObserverState
      <4>2. PICK i \in n + 1 .. Len(list) : t = list[i]
        BY <3>1, <4>1 DEF Recipients, Observers, All
      <4>3. nplayer[t] = -1
        BY <1>3, <3>4, <4>2, TbsAssumption
      <4> QED BY <4>1, <4>3
    <3>7. ASSUME NEW i \in 1 .. n, out = To(i - 1, State(players[g][i]))
          PROVE  m.type = "state" /\ m.for = t
      <4>1. out.to = i - 1 /\ m = State(players[g][i])
        BY <3>1, <3>7 DEF To
      <4>2. t = list[i]
        BY <1>3, <3>1, <3>4, <4>1 DEF Recipients, Observers, All
      <4> QED BY <1>3, <3>4, <4>1, <4>2 DEF State
    <3> QED BY <1>2, <3>5, <3>6, <3>7
  <2> QED BY <2>2, <2>3, <2>4
<1> QED BY <1>1, <1>5, <1>6 DEF OwnView

LEMMA QuitViews ==
  ASSUME ViewInv, NEW socket \in Socket, Quit(socket)
  PROVE  PlayersFirst' /\ OwnView'
<1> DEFINE s == ClientOf(socket)
           g == client_game[s]
           left == {h \in games : s \in Range(clients[h])}
           list == [h \in Game |-> IF h \in left THEN ClientsAfterQuit(h, s) ELSE clients[h]]
           rest == list[g]
           news == QuitNews(g, s)
           told == IF left = {} THEN msg_queue ELSE Flushed(msg_queue, rest, 0, news)
           queues == [told EXCEPT ![s] = Append(@, Bye)]
<1>1. /\ s \in Session /\ g \in Game
      /\ clients' = list
      /\ players' = [h \in Game |->
           IF h \in left /\ ~started[h] THEN Without(players[h], s) ELSE players[h]]
      /\ quit' = quit \union left
      /\ client_game' = [client_game EXCEPT ![s] = NoGame]
      /\ CloseAjax(socket, queues)
      /\ UNCHANGED nplayer
  BY DEF Quit, Post, Socket, ClientOf, ViewInv, TbsInv, TypeOK
<1>2. \A h \in Game \ left : list[h] = clients[h]
  OBVIOUS
<1>3. /\ news \in Seq(Outgoing)
      /\ \A out \in Range(news) : out.message \in {GameInfo, Notice}
  BY QuitNewsFacts
<1>4. rest \in Seq(Session \union {Ai})
  <2>1. /\ ClientsAfterQuit(g, s) \in Seq(Session \union {Ai})
        /\ clients[g] \in Seq(Session \union {Ai})
    BY <1>1, ClientsAfterQuitFacts DEF ViewInv, TbsInv, TypeOK
  <2>2. rest = ClientsAfterQuit(g, s) \/ rest = clients[g]
    BY <1>1
  <2> QED BY <2>1, <2>2
<1> HIDE DEF left, list, rest, news, g, s
<1>5. \A h \in Game \ quit' : clients'[h] = clients[h] /\ players'[h] = players[h] /\ h \notin quit
  BY <1>1, <1>2
<1>6. PlayersFirst'
  BY <1>1, <1>5 DEF ViewInv, PlayersFirst
<1>7. msg_queue \in [Session -> Seq(Message)]
  BY DEF ViewInv, TbsInv, TypeOK
<1>8. /\ told \in [Session -> Seq(Message)]
      /\ \A t \in Session : Range(told[t]) \subseteq Range(msg_queue[t]) \union {GameInfo, Notice}
  <2> DEFINE flushed == Flushed(msg_queue, rest, 0, news)
  <2>1. flushed \in [Session -> Seq(Message)]
    BY <1>3, <1>4, <1>7, FlushedFacts
  <2>2. ASSUME NEW t \in Session
        PROVE  Range(flushed[t]) = Range(msg_queue[t]) \union Contents(News(rest, 0, news, t))
    <3>1. flushed[t] = msg_queue[t] \o Added(rest, 0, news, t)
      BY FlushedAdds
    <3>2. /\ Added(rest, 0, news, t) \in Seq(Message)
          /\ Range(Added(rest, 0, news, t)) = Contents(News(rest, 0, news, t))
      BY <1>3, AddedFacts
    <3>3. msg_queue[t] \in Seq(Message)
      BY <1>7
    <3>4. Range(msg_queue[t] \o Added(rest, 0, news, t))
            = Range(msg_queue[t]) \union Range(Added(rest, 0, news, t))
      BY <3>2, <3>3, RangeConcatenation
    <3> QED BY <3>1, <3>2, <3>4
  <2>3. \A t \in Session : Contents(News(rest, 0, news, t)) \subseteq {GameInfo, Notice}
    BY <1>3 DEF Contents, News
  <2> HIDE DEF flushed
  <2>4. told = msg_queue \/ told = flushed
    BY DEF flushed
  <2> HIDE DEF told
  <2> QED BY <1>7, <2>1, <2>2, <2>3, <2>4
<1> HIDE DEF told
<1>9. queues \in [Session -> Seq(Message)] /\ \A t \in Session : t # s => queues[t] = told[t]
  <2>1. Append(told[s], Bye) \in Seq(Message)
    BY <1>1, <1>8, MessageTypes
  <2> QED BY <1>1, <1>8, <2>1
<1> HIDE DEF queues
<1>10. \A t \in Session : Range(msg_queue'[t]) \subseteq Range(queues[t])
  BY <1>1, <1>9, CloseAjaxFacts DEF ViewInv, TbsInv, TypeOK
<1>11. ASSUME NEW t \in Session, client_game'[t] # NoGame, client_game'[t] \notin quit',
              NEW m \in Range(msg_queue'[t])
       PROVE  (m.type = "state" => m.for = t) /\ (m.type = "observer" => nplayer'[t] = -1)
  <2>1. t # s /\ client_game'[t] = client_game[t]
    BY <1>1, <1>11 DEF ViewInv, TbsInv, TypeOK
  <2>2. m \in Range(msg_queue[t]) \/ m \in {GameInfo, Notice}
    BY <1>8, <1>9, <1>10, <1>11, <2>1
  <2>3. CASE m \in Range(msg_queue[t])
    BY <1>1, <1>11, <2>1, <2>3 DEF ViewInv, OwnView
  <2>4. CASE m \in {GameInfo, Notice}
    BY <2>4 DEF GameInfo, Notice
  <2> QED BY <2>2, <2>3, <2>4
<1> QED BY <1>6, <1>11 DEF OwnView

LEMMA ViewStep ==
  ASSUME HumansFirst, ViewInv, [Next]_vars
  PROVE  ViewInv'
<1>1. TbsInv'
  BY TbsStep DEF ViewInv
<1>2. PlayersFirst' /\ OwnView'
  <2>1. ASSUME NEW g \in Game, NEW roster \in Roster, CreateGame(g, roster)
        PROVE  PlayersFirst' /\ OwnView'
    BY <2>1, CreateGameViews
  <2>2. ASSUME NEW g \in Game, NEW s \in Observer, ObserveGame(g, s)
        PROVE  PlayersFirst' /\ OwnView'
    BY <2>2, ObserveGameViews
  <2>3. ASSUME NEW socket \in Socket, Quit(socket)
        PROVE  PlayersFirst' /\ OwnView'
    BY <2>3, QuitViews
  <2>4. ASSUME NEW socket \in Socket, NEW start \in BOOLEAN, Play(socket, start)
        PROVE  PlayersFirst' /\ OwnView'
    BY <2>4, PlayViews
  <2>5. ASSUME \/ GetStatus
               \/ \E s \in Session : Poll(s)
               \/ \E socket \in Socket : HandleSend(socket)
               \/ Heartbeat
               \/ UNCHANGED vars
        PROVE  PlayersFirst' /\ OwnView'
    <3>1. /\ \A s \in Session : Range(msg_queue'[s]) \subseteq Range(msg_queue[s])
          /\ UNCHANGED <<known, client_game, nplayer, games, clients, players, quit>>
      BY <2>5, RemainingInv DEF ViewInv
    <3>2. PlayersFirst'
      BY <3>1 DEF ViewInv, PlayersFirst
    <3>3. OwnView'
      BY <3>1 DEF ViewInv, OwnView
    <3> QED BY <3>2, <3>3
  <2> QED BY <2>1, <2>2, <2>3, <2>4, <2>5 DEF Next
<1> QED BY <1>1, <1>2 DEF ViewInv

(* The inductive invariant of who is told what.                             *)
THEOREM ViewInvariant == HumansFirst => (Spec => []ViewInv)
<1> SUFFICES ASSUME HumansFirst PROVE Spec => []ViewInv
  OBVIOUS
<1>1. ViewInv /\ [Next]_vars => ViewInv'
  BY ViewStep
<1> QED BY <1>1, TbsInit, PTL DEF Spec

(* Where AIs come last in the lists of users, and as long as nobody left    *)
(* the game, a player is told the state as that player sees it, and only    *)
(* observers what observers see, although flush_game_messages looks players *)
(* up by their index among the clients.                                     *)
THEOREM EveryoneGetsTheirOwnView == HumansFirst => (Spec => []OwnView)
<1> SUFFICES ASSUME HumansFirst PROVE Spec => []OwnView
  OBVIOUS
<1>1. ViewInv => OwnView
  BY DEF ViewInv
<1>2. Spec => []ViewInv
  BY ViewInvariant
<1> QED BY <1>1, <1>2, PTL
=============================================================================
