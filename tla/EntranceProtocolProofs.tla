----------------------- MODULE EntranceProtocolProofs ------------------------
(***************************************************************************)
(* The messages are typed for any seats. With one seat and users who wait, *)
(* an answer reaches the login it belongs to, however many greeters follow *)
(* each other and however many logins each of them sends.                  *)
(***************************************************************************)
EXTENDS EntranceProtocol, SequenceTheorems, TLAPS

-----------------------------------------------------------------------------
(* Any seats, any users.                                                   *)

\* What the daemon and the greeters say is what the other side expects.
LEMMA Messages ==
  /\ Pid \in Up /\ Hello \in Down
  /\ \A n \in 1 .. MaxSubmits, good \in BOOLEAN : Auth(n, good) \in Up
  /\ \A g \in Greeters, m \in Up : m.type = "auth" => Replies(g, m) \in Seq(Down)
<1>1. Pid \in Up
  BY DEF Pid, Up
<1>2. Hello \in Down
  BY DEF Hello, Down
<1>3. \A n \in 1 .. MaxSubmits, good \in BOOLEAN : Auth(n, good) \in Up
  BY DEF Auth, Up
<1>4. ASSUME NEW g \in Greeters, NEW m \in Up, m.type = "auth"
      PROVE  Replies(g, m) \in Seq(Down)
  <2>1. m.n \in 1 .. MaxSubmits /\ m.good \in BOOLEAN
    BY <1>4 DEF Up
  <2>2. Status(g, m.n, m.good) \in Down
    BY <2>1 DEF Status, Down
  <2> QED
    BY <2>2 DEF Replies
<1> QED
  BY <1>1, <1>2, <1>3, <1>4

\* A message of the daemon leaves the queues of its connections well-formed.
LEMMA Broadcasts ==
  ASSUME NEW C \in SUBSET Greeters, NEW ms \in Seq(Down),
         toClient \in [Greeters -> Seq(Down)], Broadcast(C, ms)
  PROVE  /\ toClient' \in [Greeters -> Seq(Down)]
         /\ \A g \in C : toClient'[g] = toClient[g] \o ms
         /\ \A g \in Greeters \ C : toClient'[g] = toClient[g]
<1>1. \A g \in Greeters : toClient[g] \o ms \in Seq(Down)
  OBVIOUS
<1> QED
  BY <1>1 DEF Broadcast, Recipients

\* A greeter that was not started has said nothing. Without this the types do
\* not carry over: the daemon could write to a greeter that is not there.
Unsaid == \A g \in Greeters : phase[g] = "unborn" => toServer[g] = <<>>

\* Every step keeps the types.
LEMMA TypeStep ==
  ASSUME ProtocolTypeOK, Unsaid, [ProtocolNext]_vars
  PROVE  ProtocolTypeOK'
<1> USE ProtocolAssumption DEF ProtocolTypeOK
<1>1. ASSUME ServerDies
      PROVE  ProtocolTypeOK'
  BY <1>1 DEF ServerDies
<1>2. ASSUME NEW g \in Greeters, ServerAdd(g)
      PROVE  ProtocolTypeOK'
  <2>1. <<Hello>> \in Seq(Down)
    BY Messages
  <2>2. conn' \subseteq {h \in Greeters : phase[h] # "unborn"}
    BY <1>2 DEF ServerAdd, Unsaid
  <2> QED
    BY <1>2, <2>1, <2>2, Broadcasts DEF ServerAdd
<1>3. ASSUME NEW g \in Greeters, ServerRead(g)
      PROVE  ProtocolTypeOK'
  <2> DEFINE m == Head(toServer[g])
  <2>1. m \in Up /\ Tail(toServer[g]) \in Seq(Up)
    BY <1>3 DEF ServerRead
  <2>2. toServer' \in [Greeters -> Seq(Up)]
    BY <1>3, <2>1 DEF ServerRead
  <2>3. CASE m.type = "auth"
    <3>1. Replies(g, m) \in Seq(Down)
      BY <2>1, <2>3, Messages
    <3>2. Seat(g) \in Seats
      BY DEF Greeters, Seat
    <3>3. running' \in [Seats -> Nat]
      BY <1>3, <2>3, <3>2 DEF ServerRead
    <3>4. Broadcast(conn, Replies(g, m))
      BY <1>3, <2>3 DEF ServerRead
    <3> HIDE DEF m
    <3> QED
      BY <1>3, <2>2, <3>1, <3>3, <3>4, Broadcasts DEF ServerRead
  <2>4. CASE m.type # "auth"
    BY <1>3, <2>2, <2>4 DEF ServerRead
  <2> QED
    BY <2>3, <2>4
<1>4. ASSUME NEW g \in Greeters, ServerDel(g)
      PROVE  ProtocolTypeOK'
  BY <1>4 DEF ServerDel
<1>5. ASSUME NEW g \in Greeters, StartGreeter(g)
      PROVE  ProtocolTypeOK'
  BY <1>5, Messages DEF StartGreeter
<1>6. ASSUME NEW g \in Greeters, SeatRestart(g)
      PROVE  ProtocolTypeOK'
  BY <1>6 DEF SeatRestart, Greeters, Seat
<1>7. ASSUME NEW g \in Greeters, NEW good \in BOOLEAN, Submit(g, good)
      PROVE  ProtocolTypeOK'
  <2>1. asked'[g] \in 1 .. MaxSubmits
    BY <1>7 DEF Submit
  <2>2. Append(toServer[g], Auth(asked'[g], good)) \in Seq(Up)
    BY <2>1, Messages
  <2> QED
    BY <1>7, <2>1, <2>2 DEF Submit
<1>8. ASSUME NEW g \in Greeters, ClientRead(g)
      PROVE  ProtocolTypeOK'
  <2>1. g \in conn /\ Tail(toClient[g]) \in Seq(Down)
    BY <1>8 DEF ClientRead
  <2> QED
    BY <1>8, <2>1 DEF ClientRead, Answered
<1>9. ASSUME NEW g \in Greeters, AliveTimer(g)
      PROVE  ProtocolTypeOK'
  BY <1>9 DEF AliveTimer, Renew
<1>10. CASE UNCHANGED vars
  BY <1>10 DEF vars
<1> QED
  BY <1>1, <1>2, <1>3, <1>4, <1>5, <1>6, <1>7, <1>8, <1>9, <1>10 DEF ProtocolNext

\* Only a greeter that is up writes to the daemon.
LEMMA UnsaidStep ==
  ASSUME ProtocolTypeOK, Unsaid, [ProtocolNext]_vars
  PROVE  Unsaid'
<1> USE DEF ProtocolTypeOK, Unsaid
<1>1. ASSUME NEW g \in Greeters,
             ServerAdd(g) \/ ServerDel(g) \/ SeatRestart(g) \/ ClientRead(g)
               \/ AliveTimer(g)
      PROVE  Unsaid'
  BY <1>1 DEF ServerAdd, ServerDel, SeatRestart, ClientRead, AliveTimer
<1>2. ASSUME NEW g \in Greeters, ServerRead(g)
      PROVE  Unsaid'
  BY <1>2 DEF ServerRead
<1>3. ASSUME NEW g \in Greeters, StartGreeter(g)
      PROVE  Unsaid'
  BY <1>3 DEF StartGreeter
<1>4. ASSUME NEW g \in Greeters, NEW good \in BOOLEAN, Submit(g, good)
      PROVE  Unsaid'
  BY <1>4 DEF Submit
<1>5. CASE ServerDies \/ UNCHANGED vars
  BY <1>5 DEF ServerDies, vars
<1> QED
  BY <1>1, <1>2, <1>3, <1>4, <1>5 DEF ProtocolNext

\* Type correctness, with any number of seats and with users who do not wait:
\* nothing is written to a greeter that did not connect.
THEOREM ProtocolTyped == ProtocolSpec => []ProtocolTypeOK
<1>1. ProtocolInit => ProtocolTypeOK /\ Unsaid
  BY ProtocolAssumption DEF ProtocolInit, ProtocolTypeOK, Unsaid
<1> QED
  BY <1>1, TypeStep, UnsaidStep, PTL DEF ProtocolSpec

-----------------------------------------------------------------------------
(* One seat, and users who wait for the answer.                            *)

\* There is no other seat.
OneSeat == \A s, t \in Seats : s = t

\* Where a greeter that is up stands in its talk with the daemon.

\* It is not connected yet.
Fresh(g) ==
  /\ g \notin conn /\ ~monitor[g] /\ form[g] = "idle"
  /\ toServer[g] = <<Pid>>

\* It is connected and has the lists before it.
Told(g) ==
  /\ g \in conn /\ ~monitor[g] /\ form[g] = "idle"
  /\ toServer[g] \in {<<>>, <<Pid>>} /\ toClient[g] = <<Hello>>

\* Its form is open.
Rests(g) ==
  /\ g \in conn /\ monitor[g] /\ form[g] \in {"idle", "denied"}
  /\ toServer[g] \in {<<>>, <<Pid>>} /\ toClient[g] = <<>>

\* The login it sent last is on its way.
Asks(g) ==
  /\ g \in conn /\ monitor[g] /\ form[g] = "wait"
  /\ asked[g] \in 1 .. MaxSubmits
  /\ \E good \in BOOLEAN :
       toServer[g] \in {<<Auth(asked[g], good)>>, <<Pid, Auth(asked[g], good)>>}
  /\ toClient[g] = <<>>

\* The answer to that login is on its way, and it is granted with a session.
HasAnswer(g, granted) ==
  /\ g \in conn /\ monitor[g] /\ form[g] = "wait"
  /\ toServer[g] = <<>> /\ toClient[g] = <<Status(g, asked[g], granted)>>
  /\ granted => running[Seat(g)] > 0

\* A greeter that is up stands in one of these places.
Talks ==
  \A g \in Greeters : phase[g] = "up" =>
     \/ Fresh(g) \/ Told(g) \/ Rests(g) \/ Asks(g)
     \/ \E granted \in BOOLEAN : HasAnswer(g, granted)

\* The greeters of a seat come one after the other.
InTurn ==
  \A g, h \in Greeters :
     Seat(g) = Seat(h) /\ g[2] < h[2] /\ phase[h] # "unborn" => phase[g] = "over"

\* A greeter that is not there has nothing on its way to the daemon.
Silent ==
  \A g \in Greeters :
    /\ phase[g] = "unborn" => form[g] = "idle" /\ ~monitor[g]
    /\ server = "up" /\ phase[g] # "up" => toServer[g] = <<>>

\* A session on a seat is that of a greeter that has left or is told to.
SessionsOwned ==
  \A s \in Seats : running[s] > 0 =>
    \E g \in Greeters : /\ Seat(g) = s
                        /\ phase[g] \in {"up", "exited"}
                        /\ phase[g] = "up" => HasAnswer(g, TRUE)

\* The inductive invariant of a talk. Silent and InTurn make an answer the only
\* one on its way; SessionsOwned makes the seat free for the session it is about.
TalkInv ==
  ProtocolTypeOK /\ Unsaid /\ Talks /\ InTurn /\ Silent /\ SessionsOwned

\* The queues of a talk have at most two messages.
LEMMA Shapes ==
  ASSUME NEW a, NEW b
  PROVE  /\ Head(<<a>>) = a /\ Tail(<<a>>) = <<>> /\ <<a>> # <<>>
         /\ Head(<<a, b>>) = a /\ Tail(<<a, b>>) = <<b>> /\ <<a, b>> # <<>>
         /\ Append(<<>>, a) = <<a>> /\ Append(<<a>>, b) = <<a, b>>
         /\ <<>> \o <<a>> = <<a>>
<1>1. Head(<<a>>) = a /\ Tail(<<a>>) = <<>> /\ <<a>> # <<>>
  OBVIOUS
<1>2. Head(<<a, b>>) = a /\ <<a, b>> # <<>>
  OBVIOUS
<1>3. Tail(<<a, b>>) = <<b>>
  OBVIOUS
<1>4. Append(<<>>, a) = <<a>>
  OBVIOUS
<1>5. Append(<<a>>, b) = <<a, b>>
  <2>1. <<a>> \in Seq({a, b}) /\ <<a, b>> \in Seq({a, b})
    OBVIOUS
  <2>2. Append(<<a>>, b) \in Seq({a, b}) /\ Len(Append(<<a>>, b)) = 2
    BY <2>1
  <2>3. \A i \in 1 .. 2 : Append(<<a>>, b)[i] = <<a, b>>[i]
    BY <2>1
  <2> QED
    BY <2>1, <2>2, <2>3, SeqEqual
<1>6. <<>> \o <<a>> = <<a>>
  OBVIOUS
<1> QED
  BY <1>1, <1>2, <1>3, <1>4, <1>5, <1>6

\* The kinds of messages are told apart.
LEMMA Kinds ==
  /\ Pid.type = "pid" /\ Hello.type = "hello"
  /\ \A n, good : /\ Auth(n, good).type = "auth" /\ Auth(n, good).n = n
                  /\ Auth(n, good).good = good
  /\ \A g, n, granted : /\ Status(g, n, granted).type = "status"
                        /\ Status(g, n, granted).of = g
                        /\ Status(g, n, granted).n = n
                        /\ Status(g, n, granted).granted = granted
  BY DEF Pid, Hello, Auth, Status

\* A greeter of the seat is told apart by its turn.
LEMMA Turns ==
  ASSUME OneSeat, NEW g \in Greeters, NEW h \in Greeters, h # g
  PROVE  Seat(g) = Seat(h) /\ (g[2] < h[2] \/ h[2] < g[2])
<1>1. PICK s \in Seats, i \in 1 .. MaxGreeters : g = <<s, i>>
  BY DEF Greeters
<1>2. PICK t \in Seats, j \in 1 .. MaxGreeters : h = <<t, j>>
  BY DEF Greeters
<1>3. s = t
  BY DEF OneSeat
<1> QED
  BY <1>1, <1>2, <1>3, ProtocolAssumption DEF Seat

\* Beside a greeter that is up, or whose seat is to be restarted, there is none.
LEMMA Alone ==
  ASSUME OneSeat, ProtocolTypeOK, InTurn,
         NEW g \in Greeters, phase[g] \in {"up", "exited"},
         NEW h \in Greeters, h # g
  PROVE  phase[h] \in {"unborn", "over"}
<1>1. CASE g[2] < h[2]
  BY <1>1, Turns DEF InTurn
<1>2. CASE h[2] < g[2]
  BY <1>2, Turns DEF InTurn
<1> QED
  BY <1>1, <1>2, Turns

\* When a greeter starts, all before it are over and the seat has no session.
LEMMA AloneAtStart ==
  ASSUME OneSeat, TalkInv, NEW g \in Greeters, StartGreeter(g)
  PROVE  /\ \A h \in Greeters : h # g => phase[h] \in {"unborn", "over"}
         /\ \A h \in Greeters : h[2] < g[2] => phase[h] = "over"
         /\ \A s \in Seats : running[s] = 0
<1> USE ProtocolAssumption
<1>1. PICK s \in Seats, i \in 1 .. MaxGreeters : g = <<s, i>>
  BY DEF Greeters
<1>2. ASSUME NEW h \in Greeters, h[2] < g[2]
      PROVE  phase[h] = "over"
  <2>1. PICK t \in Seats, j \in 1 .. MaxGreeters : h = <<t, j>>
    BY DEF Greeters
  <2>2. s = t /\ j < i
    BY <1>1, <1>2, <2>1 DEF OneSeat
  <2> DEFINE last == <<s, i - 1>>
  <2>3. last \in Greeters /\ phase[last] = "over"
    BY <1>1, <2>2 DEF Greeters, StartGreeter, Seat
  <2>4. CASE j = i - 1
    BY <2>1, <2>2, <2>3, <2>4
  <2>5. CASE j < i - 1
    BY <2>1, <2>2, <2>3, <2>5 DEF TalkInv, InTurn, Seat
  <2> QED
    BY <2>2, <2>4, <2>5
<1>3. ASSUME NEW h \in Greeters, h # g
      PROVE  phase[h] \in {"unborn", "over"}
  <2>1. CASE h[2] < g[2]
    BY <1>2, <2>1
  <2>2. CASE g[2] < h[2]
    BY <2>2, <1>3, Turns DEF TalkInv, InTurn, StartGreeter
  <2> QED
    BY <1>3, <2>1, <2>2, Turns
<1>4. ASSUME NEW t \in Seats
      PROVE  running[t] = 0
  <2>1. ~ (running[t] > 0)
    BY <1>3 DEF TalkInv, SessionsOwned, StartGreeter
  <2> QED
    BY <2>1 DEF TalkInv, ProtocolTypeOK
<1> QED
  BY <1>2, <1>3, <1>4

\* Who speaks to the daemon while it lives is up.
LEMMA Speakers ==
  ASSUME TalkInv, server = "up", NEW g \in Greeters, toServer[g] # <<>>
  PROVE  phase[g] = "up"
  BY DEF TalkInv, Silent

\* A greeter that is up and has asked has the seat for itself: no session runs
\* unless its own answer is on the way.
LEMMA SeatIsFree ==
  ASSUME OneSeat, TalkInv, NEW g \in Greeters, phase[g] = "up", toClient[g] = <<>>,
         NEW s \in Seats
  PROVE  running[s] = 0
<1>1. ASSUME running[s] > 0
      PROVE  FALSE
  <2>1. PICK h \in Greeters : /\ phase[h] \in {"up", "exited"}
                              /\ phase[h] = "up" => HasAnswer(h, TRUE)
    BY <1>1 DEF TalkInv, SessionsOwned
  <2>2. h = g
    BY <2>1, Alone DEF TalkInv
  <2> QED
    BY <2>1, <2>2, Shapes DEF HasAnswer
<1> QED
  BY <1>1 DEF TalkInv, ProtocolTypeOK

\* The daemon takes a connection.
LEMMA AddStep ==
  ASSUME OneSeat, TalkInv, NEW g \in Greeters, ServerAdd(g)
  PROVE  Talks' /\ InTurn' /\ Silent' /\ SessionsOwned'
<1>1. phase[g] = "up" /\ Fresh(g)
  BY Speakers DEF ServerAdd, TalkInv, Talks, Told, Rests, Asks, HasAnswer
<1>2. \A h \in Greeters : phase[h] = "up" => h = g
  BY <1>1, Alone DEF TalkInv
<1>3. Told(g)'
  <2>1. conn' \in SUBSET Greeters /\ <<Hello>> \in Seq(Down) /\ g \in conn'
    BY Messages DEF TalkInv, ProtocolTypeOK, ServerAdd
  <2>2. toClient'[g] = toClient[g] \o <<Hello>>
    <3>1. Broadcast(conn', <<Hello>>) /\ toClient \in [Greeters -> Seq(Down)]
      BY DEF ServerAdd, TalkInv, ProtocolTypeOK
    <3> QED
      BY <2>1, <3>1, Broadcasts
  <2>3. toClient[g] = <<>>
    BY <1>1 DEF Fresh, TalkInv, ProtocolTypeOK
  <2>4. toClient'[g] = <<Hello>>
    BY <2>2, <2>3, Shapes
  <2> QED
    BY <1>1, <2>1, <2>4 DEF Fresh, Told, ServerAdd
<1>4. Talks'
  BY <1>2, <1>3 DEF Talks, ServerAdd
<1>5. InTurn' /\ Silent'
  BY DEF InTurn, Silent, ServerAdd, TalkInv
<1>6. SessionsOwned'
  <2>1. \A h \in Greeters : phase[h] = "up" => ~ HasAnswer(h, TRUE)
    BY <1>1, <1>2 DEF Fresh, HasAnswer
  <2> QED
    BY <2>1 DEF SessionsOwned, ServerAdd, TalkInv
<1> QED
  BY <1>4, <1>5, <1>6

\* The daemon reads a message; a login, the one it was waiting for.
LEMMA ReadStep ==
  ASSUME OneSeat, TalkInv, NEW g \in Greeters, ServerRead(g)
  PROVE  /\ Talks' /\ InTurn' /\ Silent' /\ SessionsOwned'
         /\ \A s \in Seats : running'[s] > running[s] =>
              running[s] = 0 /\ Seat(g) = s /\ phase[g] = "up" /\ form[g] = "wait"
<1> DEFINE m == Head(toServer[g])
<1>1. phase[g] = "up" /\ server = "up" /\ g \in conn
  BY Speakers DEF ServerRead
<1>2. \A h \in Greeters : phase[h] = "up" => h = g
  BY <1>1, Alone DEF TalkInv
<1>3. toServer[g] \in Seq(Up) /\ toServer' = [toServer EXCEPT ![g] = Tail(@)]
  BY DEF TalkInv, ProtocolTypeOK, ServerRead
<1>4. InTurn'
  BY DEF InTurn, ServerRead, TalkInv
<1>5. Silent'
  <2>1. ASSUME NEW h \in Greeters, phase[h] # "up"
        PROVE  toServer'[h] = toServer[h]
    BY <1>1, <2>1, <1>3 DEF TalkInv, ProtocolTypeOK
  <2> QED
    BY <2>1 DEF Silent, ServerRead, TalkInv
<1>6. CASE toServer[g] = <<Pid>> /\ (Told(g) \/ Rests(g))
  <2>1. m.type # "auth" /\ Tail(toServer[g]) = <<>>
    BY <1>6, Shapes, Kinds
  <2>2. toServer'[g] = <<>> /\ UNCHANGED <<toClient, running>>
    BY <1>3, <2>1 DEF ServerRead, TalkInv, ProtocolTypeOK
  <2>3. (Told(g) \/ Rests(g))'
    BY <1>6, <2>2 DEF Told, Rests, ServerRead
  <2>4. Talks'
    BY <1>2, <2>3 DEF Talks, ServerRead
  <2>5. \A h \in Greeters : phase[h] = "up" => ~ HasAnswer(h, TRUE)
    BY <1>2, <1>6, Shapes DEF Told, Rests, HasAnswer
  <2>6. SessionsOwned'
    BY <2>2, <2>5 DEF SessionsOwned, ServerRead, TalkInv
  <2>7. \A s \in Seats : ~ (running'[s] > running[s])
    BY <2>2 DEF TalkInv, ProtocolTypeOK
  <2> QED
    BY <1>4, <1>5, <2>4, <2>6, <2>7
<1>7. CASE Asks(g) /\ m.type # "auth"
  <2>1. PICK good \in BOOLEAN : toServer[g] = <<Pid, Auth(asked[g], good)>>
    BY <1>7, Shapes, Kinds DEF Asks
  <2>2. toServer'[g] = <<Auth(asked[g], good)>> /\ UNCHANGED <<toClient, running>>
    BY <1>3, <1>7, <2>1, Shapes DEF ServerRead, TalkInv, ProtocolTypeOK
  <2>3. Asks(g)'
    BY <1>7, <2>2 DEF Asks, ServerRead, Auth
  <2>4. Talks'
    BY <1>2, <2>3 DEF Talks, ServerRead
  <2>5. \A s \in Seats : running'[s] = 0
    BY <1>1, <1>7, <2>2, SeatIsFree DEF Asks
  <2>6. SessionsOwned'
    BY <2>5 DEF SessionsOwned
  <2>7. \A s \in Seats : ~ (running'[s] > running[s])
    BY <2>2 DEF TalkInv, ProtocolTypeOK
  <2> QED
    BY <1>4, <1>5, <2>4, <2>6, <2>7
<1>8. CASE Asks(g) /\ m.type = "auth"
  <2>1. PICK good \in BOOLEAN : toServer[g] = <<Auth(asked[g], good)>>
    BY <1>8, Shapes, Kinds DEF Asks
  <2>2. m = Auth(asked[g], good) /\ m.n = asked[g] /\ m.good = good /\ m \in Up
    BY <2>1, <1>3, Shapes, Kinds
  <2>3. Seat(g) \in Seats /\ \A s \in Seats : running[s] = 0 /\ Seat(g) = s
    BY <1>1, <1>8, SeatIsFree DEF Asks, Greeters, Seat, OneSeat
  <2>4. /\ running' = [running EXCEPT ![Seat(g)] = IF m.good THEN @ + 1 ELSE @]
        /\ Broadcast(conn, Replies(g, m))
    BY <1>8 DEF ServerRead
  <2>5. Replies(g, m) = <<Status(g, asked[g], good)>> /\ Replies(g, m) \in Seq(Down)
    BY <1>8, <2>2, Messages DEF Replies
  <2>6. toClient'[g] = <<>> \o <<Status(g, asked[g], good)>>
    <3> HIDE DEF m
    <3>1. conn \in SUBSET Greeters /\ toClient \in [Greeters -> Seq(Down)]
      BY DEF TalkInv, ProtocolTypeOK
    <3> QED
      BY <1>1, <1>8, <2>4, <2>5, <3>1, Broadcasts DEF Asks
  <2>7. toClient'[g] = <<Status(g, asked[g], good)>> /\ toServer'[g] = <<>>
    BY <1>3, <2>1, <2>6, Shapes DEF TalkInv, ProtocolTypeOK
  <2>8. running'[Seat(g)] = IF good THEN 1 ELSE 0
    BY <2>2, <2>3, <2>4 DEF TalkInv, ProtocolTypeOK
  <2>9. HasAnswer(g, good)'
    BY <1>8, <2>7, <2>8 DEF HasAnswer, Asks, ServerRead, Status
  <2>10. Talks'
    BY <1>2, <2>9 DEF Talks, ServerRead
  <2>11. SessionsOwned'
    <3> SUFFICES ASSUME NEW s \in Seats, running'[s] > 0
                 PROVE  Seat(g) = s /\ phase'[g] = "up" /\ HasAnswer(g, TRUE)'
      BY DEF SessionsOwned
    <3>1. good
      BY <2>3, <2>8
    <3> QED
      BY <1>1, <2>3, <2>9, <3>1 DEF ServerRead
  <2>12. form[g] = "wait"
    BY <1>8 DEF Asks
  <2> QED
    BY <1>1, <1>4, <1>5, <2>3, <2>10, <2>11, <2>12
<1>9. \/ toServer[g] = <<Pid>> /\ (Told(g) \/ Rests(g))
      \/ Asks(g)
  BY <1>1 DEF ServerRead, TalkInv, Talks, Fresh, Told, Rests, HasAnswer
<1> QED
  BY <1>6, <1>7, <1>8, <1>9

\* The end of a connection, and the start of a greeter.
LEMMA StartStep ==
  ASSUME OneSeat, TalkInv, NEW g \in Greeters,
         ServerDel(g) \/ StartGreeter(g) \/ SeatRestart(g)
  PROVE  Talks' /\ InTurn' /\ Silent' /\ SessionsOwned'
<1> USE DEF TalkInv, ProtocolTypeOK
<1>1. CASE ServerDel(g)
  <2>1. \A h \in Greeters : phase[h] = "up" => h # g
    BY <1>1 DEF ServerDel
  <2>2. Talks'
    <3> SUFFICES ASSUME NEW h \in Greeters, phase'[h] = "up"
                 PROVE  \/ Fresh(h)' \/ Told(h)' \/ Rests(h)' \/ Asks(h)'
                        \/ \E granted \in BOOLEAN : HasAnswer(h, granted)'
      BY DEF Talks
    <3>1. phase[h] = "up" /\ h # g
      BY <1>1, <2>1 DEF ServerDel
    <3>2. CASE Fresh(h)
      BY <1>1, <3>1, <3>2 DEF ServerDel, Fresh
    <3>3. CASE Told(h)
      BY <1>1, <3>1, <3>3 DEF ServerDel, Told
    <3>4. CASE Rests(h)
      BY <1>1, <3>1, <3>4 DEF ServerDel, Rests
    <3>5. CASE Asks(h)
      BY <1>1, <3>1, <3>5 DEF ServerDel, Asks
    <3>6. ASSUME NEW granted \in BOOLEAN, HasAnswer(h, granted)
          PROVE  HasAnswer(h, granted)'
      BY <1>1, <3>1, <3>6 DEF ServerDel, HasAnswer
    <3> QED
      BY <3>1, <3>2, <3>3, <3>4, <3>5, <3>6 DEF Talks
  <2>3. InTurn' /\ Silent'
    BY <1>1 DEF InTurn, Silent, ServerDel
  <2>4. \A h \in Greeters : phase[h] = "up" /\ HasAnswer(h, TRUE) => HasAnswer(h, TRUE)'
    BY <1>1, <2>1 DEF ServerDel, HasAnswer
  <2>5. SessionsOwned'
    BY <1>1, <2>4 DEF SessionsOwned, ServerDel
  <2> QED
    BY <2>2, <2>3, <2>5
<1>2. CASE StartGreeter(g)
  <2>1. /\ \A h \in Greeters : h # g => phase[h] \in {"unborn", "over"}
        /\ \A h \in Greeters : h[2] < g[2] => phase[h] = "over"
        /\ \A s \in Seats : running[s] = 0
    BY <1>2, AloneAtStart
  <2>2. Fresh(g)'
    BY <1>2 DEF Fresh, StartGreeter, Silent
  <2>3. Talks'
    BY <1>2, <2>1, <2>2 DEF Talks, StartGreeter
  <2>4. InTurn'
    <3> SUFFICES ASSUME NEW x \in Greeters, NEW h \in Greeters,
                        Seat(x) = Seat(h), x[2] < h[2], phase'[h] # "unborn"
                 PROVE  phase'[x] = "over"
      BY DEF InTurn
    <3>1. CASE h = g
      <4>1. x # g
        BY <3>1, ProtocolAssumption DEF Greeters
      <4> QED
        BY <1>2, <2>1, <3>1, <4>1 DEF StartGreeter
    <3>2. CASE h # g
      <4>1. phase[x] = "over"
        BY <1>2, <3>2 DEF InTurn, StartGreeter
      <4> QED
        BY <1>2, <4>1 DEF StartGreeter
    <3> QED
      BY <3>1, <3>2
  <2>5. Silent'
    BY <1>2 DEF Silent, StartGreeter
  <2>6. SessionsOwned'
    BY <1>2, <2>1 DEF SessionsOwned, StartGreeter
  <2> QED
    BY <2>3, <2>4, <2>5, <2>6
<1>3. CASE SeatRestart(g)
  <2>1. \A h \in Greeters : phase[h] # "up"
    BY <1>3, Alone DEF SeatRestart
  <2>2. Talks'
    BY <1>3, <2>1 DEF Talks, SeatRestart
  <2>3. InTurn' /\ Silent'
    BY <1>3 DEF InTurn, Silent, SeatRestart
  <2>4. \A s \in Seats : running'[s] = 0
    BY <1>3 DEF SeatRestart, OneSeat, Greeters, Seat
  <2>5. SessionsOwned'
    BY <2>4 DEF SessionsOwned
  <2> QED
    BY <2>2, <2>3, <2>5
<1> QED
  BY <1>1, <1>2, <1>3

\* A user who waits for the answer sends a login from a form at rest.
LEMMA SubmitStep ==
  ASSUME OneSeat, Patient, TalkInv, NEW g \in Greeters, NEW good \in BOOLEAN,
         Submit(g, good)
  PROVE  Talks' /\ InTurn' /\ Silent' /\ SessionsOwned'
<1> USE DEF TalkInv, ProtocolTypeOK
<1>1. phase[g] = "up" /\ Rests(g)
  BY DEF Submit, Talks, Fresh, Told, Asks, HasAnswer
<1>2. \A h \in Greeters : phase[h] = "up" => h = g
  BY <1>1, Alone
<1>3. asked'[g] \in 1 .. MaxSubmits
  BY ProtocolAssumption DEF Submit
<1>4. toServer'[g] \in {<<Auth(asked'[g], good)>>, <<Pid, Auth(asked'[g], good)>>}
  <2>1. toServer'[g] = Append(toServer[g], Auth(asked'[g], good))
    BY DEF Submit
  <2>2. toServer[g] = <<>> \/ toServer[g] = <<Pid>>
    BY <1>1 DEF Rests
  <2>3. \A a : Append(<<>>, a) = <<a>> /\ Append(<<Pid>>, a) = <<Pid, a>>
    BY Shapes
  <2> QED
    BY <2>1, <2>2, <2>3
<1>5. Asks(g)'
  BY <1>1, <1>3, <1>4 DEF Rests, Asks, Submit, Auth
<1>6. Talks'
  BY <1>2, <1>5 DEF Talks, Submit
<1>7. InTurn' /\ Silent'
  BY DEF InTurn, Silent, Submit
<1>8. \A s \in Seats : running'[s] = 0
  BY <1>1, SeatIsFree DEF Submit, Rests
<1>9. SessionsOwned'
  BY <1>8 DEF SessionsOwned
<1> QED
  BY <1>6, <1>7, <1>9

\* A greeter reads: the lists first, and then the answer to its last login,
\* which ends it if a session runs on the seat.
LEMMA ReceiveStep ==
  ASSUME OneSeat, TalkInv, NEW g \in Greeters, ClientRead(g)
  PROVE  /\ Talks' /\ InTurn' /\ Silent' /\ SessionsOwned'
         /\ form[g] = "wait" => Head(toClient[g]).of = g /\ Head(toClient[g]).n = asked[g]
         /\ phase'[g] = "exited" => running[Seat(g)] > 0
<1> USE DEF TalkInv, ProtocolTypeOK
<1> DEFINE m == Head(toClient[g])
<1>1. phase[g] = "up" /\ toClient[g] # <<>> /\ g \in conn
  BY DEF ClientRead
<1>2. \A h \in Greeters : phase[h] = "up" => h = g
  BY <1>1, Alone
<1>3. toClient' = [toClient EXCEPT ![g] = Tail(@)]
  BY DEF ClientRead
<1>4. CASE Told(g)
  <2>1. m.type = "hello" /\ toClient'[g] = <<>>
    BY <1>3, <1>4, Shapes, Kinds DEF Told
  <2>2. Rests(g)' /\ UNCHANGED <<phase, form>>
    BY <1>4, <2>1 DEF Told, Rests, ClientRead
  <2>3. Talks'
    BY <1>2, <2>2 DEF Talks
  <2>4. InTurn' /\ Silent'
    BY <1>1, <2>2 DEF InTurn, Silent, ClientRead
  <2>5. SessionsOwned'
    <3>1. \A h \in Greeters : phase[h] = "up" => ~ HasAnswer(h, TRUE)
      BY <1>2, <1>4 DEF Told, HasAnswer
    <3> QED
      BY <2>2, <3>1 DEF SessionsOwned, ClientRead
  <2> QED
    BY <1>1, <1>4, <2>2, <2>3, <2>4, <2>5 DEF Told
<1>5. ASSUME NEW granted \in BOOLEAN, HasAnswer(g, granted)
      PROVE  /\ Talks' /\ InTurn' /\ Silent' /\ SessionsOwned'
             /\ m.of = g /\ m.n = asked[g]
             /\ phase'[g] = "exited" => running[Seat(g)] > 0
  <2>1. /\ m.type = "status" /\ m.of = g /\ m.n = asked[g] /\ m.granted = granted
        /\ toClient'[g] = <<>>
    BY <1>3, <1>5, Shapes, Kinds DEF HasAnswer
  <2>2. /\ form' = [form EXCEPT ![g] = IF granted THEN "granted" ELSE "denied"]
        /\ phase' = [phase EXCEPT ![g] = IF granted THEN "exited" ELSE @]
        /\ UNCHANGED <<monitor, server, conn, toServer, asked, running>>
    BY <1>5, <2>1 DEF ClientRead, Answered, Leaves, HasAnswer
  <2>3. CASE granted
    <3>1. \A h \in Greeters : phase'[h] # "up"
      BY <1>2, <2>2, <2>3
    <3>2. Talks'
      BY <3>1 DEF Talks
    <3>3. toServer[g] = <<>> /\ phase'[g] = "exited" /\ running[Seat(g)] > 0
      BY <1>5, <2>2, <2>3 DEF HasAnswer
    <3>4. Silent'
      BY <2>2, <3>3 DEF Silent
    <3>5. InTurn'
      BY <1>1, <2>2 DEF InTurn
    <3>6. SessionsOwned'
      <4>1. \A s \in Seats : Seat(g) = s
        BY DEF OneSeat, Greeters, Seat
      <4>2. phase'[g] \in {"up", "exited"} /\ (phase'[g] = "up" => HasAnswer(g, TRUE)')
        BY <3>3
      <4> QED
        BY <4>1, <4>2 DEF SessionsOwned
    <3> QED
      BY <2>1, <3>2, <3>3, <3>4, <3>5, <3>6
  <2>4. CASE ~granted
    <3>1. phase' = phase
      BY <2>2, <2>4
    <3>2. Rests(g)'
      BY <1>5, <2>1, <2>2, <2>4 DEF HasAnswer, Rests
    <3>3. Talks'
      BY <1>2, <3>1, <3>2 DEF Talks
    <3>4. InTurn' /\ Silent'
      BY <1>1, <2>2, <3>1 DEF InTurn, Silent
    <3>5. \A h \in Greeters : phase[h] = "up" => ~ HasAnswer(h, TRUE)
      <4>1. ~ HasAnswer(g, TRUE)
        <5>1. ASSUME HasAnswer(g, TRUE)
              PROVE  FALSE
          <6>1. m = Status(g, asked[g], TRUE)
            BY <5>1, Shapes DEF HasAnswer
          <6>2. m.granted
            BY <6>1 DEF Status
          <6> QED
            BY <6>2, <2>1, <2>4
        <5> QED
          BY <5>1
      <4> QED
        BY <1>2, <4>1
    <3>6. SessionsOwned'
      BY <2>2, <3>1, <3>5 DEF SessionsOwned
    <3> QED
      BY <1>1, <2>1, <3>1, <3>3, <3>4, <3>6
  <2> QED
    BY <2>3, <2>4
<1>6. Told(g) \/ \E granted \in BOOLEAN : HasAnswer(g, granted)
  BY <1>1 DEF Talks, Fresh, Rests, Asks
<1> QED
  BY <1>4, <1>5, <1>6

\* A greeter ends itself, and the daemon is not there to see it.
LEMMA EndStep ==
  ASSUME OneSeat, TalkInv,
         \/ ServerDies \/ UNCHANGED vars
         \/ \E g \in Greeters : AliveTimer(g)
  PROVE  Talks' /\ InTurn' /\ Silent' /\ SessionsOwned'
<1> USE DEF TalkInv, ProtocolTypeOK
<1>1. CASE ServerDies \/ UNCHANGED vars
  <2>1. UNCHANGED <<phase, conn, toServer, toClient, form, asked, monitor, running>>
    BY <1>1 DEF ServerDies, vars
  <2>2. server' = "up" => server = "up"
    BY <1>1 DEF ServerDies, vars
  <2>3. \A g \in Greeters : /\ Fresh(g) => Fresh(g)'
                            /\ Told(g) => Told(g)'
                            /\ Rests(g) => Rests(g)'
                            /\ Asks(g) => Asks(g)'
    BY <2>1 DEF Fresh, Told, Rests, Asks
  <2>4. \A g \in Greeters, granted \in BOOLEAN : HasAnswer(g, granted) => HasAnswer(g, granted)'
    BY <2>1 DEF HasAnswer
  <2>5. Talks'
    BY <2>1, <2>3, <2>4 DEF Talks
  <2>6. InTurn' /\ Silent' /\ SessionsOwned'
    BY <2>1, <2>2, <2>4 DEF InTurn, Silent, SessionsOwned
  <2> QED
    BY <2>5, <2>6
<1>2. ASSUME NEW g \in Greeters, AliveTimer(g)
      PROVE  Talks' /\ InTurn' /\ Silent' /\ SessionsOwned'
  <2>1. /\ phase[g] = "up" /\ monitor' = monitor
        /\ phase' = [phase EXCEPT ![g] = IF server = "dead" THEN "exited" ELSE @]
        /\ UNCHANGED <<server, conn, toServer, toClient, form, asked, running>>
    BY <1>2 DEF AliveTimer, Renew
  <2>2. \A h \in Greeters : phase'[h] = "up" => phase[h] = "up"
    BY <2>1
  <2>3. \A h \in Greeters : /\ Fresh(h) => Fresh(h)'
                            /\ Told(h) => Told(h)'
                            /\ Rests(h) => Rests(h)'
                            /\ Asks(h) => Asks(h)'
    BY <2>1 DEF Fresh, Told, Rests, Asks
  <2>4. \A h \in Greeters, granted \in BOOLEAN : HasAnswer(h, granted) => HasAnswer(h, granted)'
    BY <2>1 DEF HasAnswer
  <2>5. Talks'
    BY <2>2, <2>3, <2>4 DEF Talks
  <2>6. InTurn'
    BY <2>1 DEF InTurn
  <2>7. Silent'
    BY <2>1 DEF Silent
  <2>8. SessionsOwned'
    BY <2>1, <2>4 DEF SessionsOwned
  <2> QED
    BY <2>5, <2>6, <2>7, <2>8
<1> QED
  BY <1>1, <1>2

\* The inductive invariant of the talk: one seat, any number of greeters after
\* each other, any number of logins.
THEOREM TalkInvariance ==
  ASSUME OneSeat, Patient
  PROVE  ProtocolSpec => []TalkInv
<1>1. ProtocolInit => TalkInv
  <2> SUFFICES ASSUME ProtocolInit
               PROVE  TalkInv
    OBVIOUS
  <2>1. ProtocolTypeOK /\ Unsaid
    BY ProtocolAssumption DEF ProtocolInit, ProtocolTypeOK, Unsaid
  <2>2. Talks /\ InTurn /\ Silent /\ SessionsOwned
    BY DEF ProtocolInit, Talks, InTurn, Silent, SessionsOwned
  <2> QED
    BY <2>1, <2>2 DEF TalkInv
<1>2. TalkInv /\ [ProtocolNext]_vars => TalkInv'
  <2> SUFFICES ASSUME TalkInv, [ProtocolNext]_vars
               PROVE  TalkInv'
    OBVIOUS
  <2>1. (ProtocolTypeOK /\ Unsaid)'
    BY TypeStep, UnsaidStep DEF TalkInv
  <2>2. Talks' /\ InTurn' /\ Silent' /\ SessionsOwned'
    BY AddStep, ReadStep, StartStep, SubmitStep, ReceiveStep, EndStep DEF ProtocolNext
  <2> QED
    BY <2>1, <2>2 DEF TalkInv
<1> QED
  BY <1>1, <1>2, PTL DEF ProtocolSpec

\* A form that waits is answered by the answer to the login it sent last.
THEOREM AnswersAreOwn ==
  ASSUME OneSeat, Patient
  PROVE  ProtocolSpec => OwnAnswer
<1> DEFINE A == \A g \in Greeters :
                  form[g] = "wait" /\ form'[g] # "wait"
                    => Head(toClient[g]).of = g /\ Head(toClient[g]).n = asked[g]
<1>1. TalkInv /\ [ProtocolNext]_vars => A
  <2> SUFFICES ASSUME TalkInv, [ProtocolNext]_vars, NEW g \in Greeters,
                      form[g] = "wait", form'[g] # "wait"
               PROVE  Head(toClient[g]).of = g /\ Head(toClient[g]).n = asked[g]
    OBVIOUS
  <2>1. PICK h \in Greeters : ClientRead(h) \/ \E good \in BOOLEAN : Submit(h, good)
    BY DEF ProtocolNext, ServerDies, ServerAdd, ServerRead, ServerDel, StartGreeter,
           SeatRestart, AliveTimer, vars
  <2>2. ClientRead(g)
    BY <2>1 DEF Submit, ClientRead, TalkInv, ProtocolTypeOK
  <2> QED
    BY <2>2, ReceiveStep
<1>2. TalkInv /\ [ProtocolNext]_vars => [A]_vars
  BY <1>1
<1>3. ProtocolSpec => [][A]_vars
  BY <1>2, TalkInvariance, PTL DEF ProtocolSpec
<1> QED
  BY <1>3 DEF OwnAnswer

\* While the daemon lives, a greeter ends only on a seat where a session runs.
THEOREM ExitsAreOwn ==
  ASSUME OneSeat, Patient
  PROVE  ProtocolSpec => OwnExit
<1> DEFINE A == \A g \in Greeters :
                  phase[g] = "up" /\ phase'[g] = "exited" /\ server = "up"
                    => running[Seat(g)] > 0
<1>1. TalkInv /\ [ProtocolNext]_vars => A
  <2> SUFFICES ASSUME TalkInv, [ProtocolNext]_vars, NEW g \in Greeters,
                      phase[g] = "up", phase'[g] = "exited", server = "up"
               PROVE  running[Seat(g)] > 0
    OBVIOUS
  <2> USE DEF TalkInv, ProtocolTypeOK
  <2>1. PICK h \in Greeters : \/ ClientRead(h) \/ AliveTimer(h) \/ StartGreeter(h)
                              \/ SeatRestart(h)
    BY DEF ProtocolNext, ServerDies, ServerAdd, ServerRead, ServerDel, Submit, vars
  <2>2. ClientRead(g)
    BY <2>1 DEF ClientRead, AliveTimer, StartGreeter, SeatRestart
  <2> QED
    BY <2>2, ReceiveStep
<1>2. TalkInv /\ [ProtocolNext]_vars => [A]_vars
  BY <1>1
<1>3. ProtocolSpec => [][A]_vars
  BY <1>2, TalkInvariance, PTL DEF ProtocolSpec
<1> QED
  BY <1>3 DEF OwnExit

\* A session starts for a greeter that waits for it, and beside no other one.
THEOREM SessionsAreAskedFor ==
  ASSUME OneSeat, Patient
  PROVE  ProtocolSpec => SessionForGreeter
<1> DEFINE A == \A s \in Seats :
                  running'[s] > running[s]
                    => running[s] = 0 /\ \E g \in Greeters : Seat(g) = s /\ phase[g] = "up"
                                                             /\ form[g] = "wait"
<1>1. TalkInv /\ [ProtocolNext]_vars => A
  <2> SUFFICES ASSUME TalkInv, [ProtocolNext]_vars, NEW s \in Seats,
                      running'[s] > running[s]
               PROVE  running[s] = 0 /\ \E g \in Greeters : Seat(g) = s /\ phase[g] = "up"
                                                            /\ form[g] = "wait"
    OBVIOUS
  <2>1. running[s] \in Nat /\ running \in [Seats -> Nat]
    BY DEF TalkInv, ProtocolTypeOK
  <2>2. PICK g \in Greeters : ServerRead(g) \/ SeatRestart(g)
    <3>1. running' # running
      BY <2>1
    <3> QED
      BY <3>1 DEF ProtocolNext, ServerDies, ServerAdd, ServerDel, StartGreeter, Submit,
                  ClientRead, AliveTimer, vars
  <2>3. ~ SeatRestart(g)
    BY <2>1 DEF SeatRestart
  <2> QED
    BY <2>2, <2>3, ReadStep
<1>2. TalkInv /\ [ProtocolNext]_vars => [A]_vars
  BY <1>1
<1>3. ProtocolSpec => [][A]_vars
  BY <1>2, TalkInvariance, PTL DEF ProtocolSpec
<1> QED
  BY <1>3 DEF SessionForGreeter
=============================================================================
