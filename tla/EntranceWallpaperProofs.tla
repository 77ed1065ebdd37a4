----------------------- MODULE EntranceWallpaperProofs -----------------------
(***************************************************************************)
(* Theorems about the login form and its wallpaper, for every set of users *)
(* and sessions, every configuration and any number of times the lists of  *)
(* the daemon come in.                                                     *)
(***************************************************************************)
EXTENDS EntranceWallpaper, Integers, TLAPS

\* The lists of one round: which kinds there are, each once, and their order.
LEMMA ListsOrder ==
  /\ Lists \in Seq(Kinds) /\ Len(Lists) \in 2 .. 4
  /\ Lists[Len(Lists) - 1] = "users" /\ Lists[Len(Lists)] = "pools"
  /\ \A k \in 1 .. Len(Lists) - 2 : Lists[k] \in {"xsessions", "conf_gui"}
  /\ CustomConf => Len(Lists) > 2 /\ Lists[Len(Lists) - 2] = "conf_gui"
  /\ ~CustomConf => \A k \in 1 .. Len(Lists) : Lists[k] # "conf_gui"
  /\ XSessionsOn => Lists[1] = "xsessions"
  /\ \A i, j \in 1 .. Len(Lists) : Lists[i] = Lists[j] => i = j
  <1> DEFINE first  == IF XSessionsOn THEN <<"xsessions">> ELSE <<>>
             second == IF CustomConf THEN <<"conf_gui">> ELSE <<>>
             third  == <<"users", "pools">>
  <1>1. first \in Seq(Kinds) /\ second \in Seq(Kinds) /\ third \in Seq(Kinds)
    BY DEF Kinds
  <1>2. /\ first \o second \in Seq(Kinds) /\ Len(first \o second) = Len(first) + Len(second)
        /\ \A k \in 1 .. Len(first) : (first \o second)[k] = first[k]
        /\ \A k \in 1 .. Len(second) : (first \o second)[Len(first) + k] = second[k]
    BY <1>1
  <1> HIDE DEF first, second
  <1>3. /\ Lists \in Seq(Kinds) /\ Len(Lists) = Len(first) + Len(second) + 2
        /\ \A k \in 1 .. Len(first) : Lists[k] = first[k]
        /\ \A k \in 1 .. Len(second) : Lists[Len(first) + k] = second[k]
        /\ \A k \in 1 .. 2 : Lists[Len(first) + Len(second) + k] = third[k]
    BY <1>1, <1>2 DEF Lists, first, second
  <1>4. /\ Len(first) = IF XSessionsOn THEN 1 ELSE 0
        /\ Len(second) = IF CustomConf THEN 1 ELSE 0
        /\ \A k \in 1 .. Len(first) : first[k] = "xsessions"
        /\ \A k \in 1 .. Len(second) : second[k] = "conf_gui"
    BY DEF first, second
  <1>5. third[1] = "users" /\ third[2] = "pools"
    OBVIOUS
  <1> HIDE DEF third
  <1>6. QED
    BY <1>3, <1>4, <1>5

-----------------------------------------------------------------------------
(* The form.                                                               *)

\* There is a first session in the menu.
LEMMA DesktopsFacts == Desktops[1] \in Listed /\ 1 \in DOMAIN Desktops
  BY FormAssumption DEF Listed

\* A guessed session is one of the list, and there is one if the list came.
LEMMA GuessType ==
  ASSUME NEW u, NEW kinds
  PROVE  /\ Guess(u, kinds) \in Listed \cup {NoSession}
         /\ "xsessions" \in kinds => Guess(u, kinds) \in Listed
  BY DesktopsFacts DEF Guess, Default

\* Once both lists came, what else comes does not change a guess.
LEMMA GuessSettled ==
  ASSUME NEW u, NEW kinds, NEW k, k \notin {"users", "xsessions"}
  PROVE  Guess(u, kinds \cup {k}) = Guess(u, kinds)
  BY DEF Guess, Default

\* The invariant behind the choice of a session: it was made since the name
\* entry was left.
ChoiceInv == FormInv /\ (focus = "login" => chosen = NoSession)

\* The form starts empty, its focus on the name.
LEMMA FormStart == FormInit => ChoiceInv
  <1> SUFFICES ASSUME FormInit
               PROVE  ChoiceInv
    OBVIOUS
  <1>1. inbox \in Seq(Kinds)
    BY ListsOrder DEF FormInit
  <1>2. lists \in 1 .. MaxLists
    BY FormAssumption DEF FormInit
  <1>3. QED
    BY <1>1, <1>2 DEF FormInit, ChoiceInv, FormInv, NotSent

\* Every event of the form keeps it.
LEMMA FormStep_ChoiceInv == ChoiceInv /\ [FormNext]_vars => ChoiceInv'
  <1> SUFFICES ASSUME ChoiceInv, [FormNext]_vars
               PROVE  ChoiceInv'
    OBVIOUS
  <1> USE FormAssumption, DesktopsFacts, GuessType DEF ChoiceInv, FormInv
  <1>1. CASE Hear
    <2>1. /\ inbox' \in Seq(Kinds) /\ Head(inbox) \in Kinds /\ seen' \subseteq Kinds
          /\ UNCHANGED <<lists, typed, wait, sent>>
      BY <1>1 DEF Hear
    <2>2. CASE Head(inbox) = "xsessions"
      BY <1>1, <2>1, <2>2 DEF Hear
    <2>3. CASE Head(inbox) = "users" /\ SelectsUser
      BY <1>1, <2>1, <2>3 DEF Hear, LoginSet, Unfocus
    <2>4. CASE Head(inbox) # "xsessions" /\ ~(Head(inbox) = "users" /\ SelectsUser)
      BY <1>1, <2>1, <2>4 DEF Hear
    <2>5. QED
      BY <2>2, <2>3, <2>4
  <1>2. CASE ListsAgain
    <2>1. inbox' \in Seq(Kinds) /\ lists' \in 1 .. MaxLists
      BY <1>2, ListsOrder DEF ListsAgain
    <2>2. QED
      BY <1>2, <2>1 DEF ListsAgain, edit
  <1>3. CASE WriteTimer
    BY <1>3 DEF WriteTimer
  <1>4. CASE TypePassword
    BY <1>4 DEF TypePassword
  <1>5. CASE Press
    BY <1>5 DEF Press
  <1>6. CASE Denied
    BY <1>6 DEF Denied
  <1>7. ASSUME NEW n \in Names \cup {NoName}, Type(n)
        PROVE  ChoiceInv'
    BY <1>7 DEF Type
  <1>8. ASSUME NEW w \in {"login", "password", "menu"}, Leave(w)
        PROVE  ChoiceInv'
    BY <1>8 DEF Leave, Unfocus
  <1>9. ASSUME NEW w \in {"login", "password", "menu"}, Go(w)
        PROVE  ChoiceInv'
    BY <1>9 DEF Go
  <1>10. ASSUME NEW u \in Users, Pick(u)
         PROVE  ChoiceInv'
    BY <1>10 DEF Pick, LoginSet, Unfocus
  <1>11. ASSUME NEW s \in Listed, Choose(s)
         PROVE  ChoiceInv'
    BY <1>11 DEF Choose
  <1>12. CASE UNCHANGED vars
    BY <1>12 DEF vars
  <1>13. QED
    BY <1>1, <1>2, <1>3, <1>4, <1>5, <1>6, <1>7, <1>8, <1>9, <1>10, <1>11, <1>12 DEF FormNext

\* The types of the form, and the timer that runs only while a name is typed.
THEOREM FormTyped == FormSpec => []FormInv
  <1>1. ChoiceInv => FormInv
    BY DEF ChoiceInv
  <1>2. QED
    BY <1>1, FormStart, FormStep_ChoiceInv, PTL DEF FormSpec

\* The session taken from the menu stands until the user goes back to the name
\* or a list comes in (_login_login_timer_cb, _login_login_unfocused_cb).
THEOREM ChoicesKept == FormSpec => ChoiceKept
  <1> DEFINE Kept == chosen # NoSession /\ chosen' = chosen /\ inbox' = inbox
                       => session' \in {session, chosen}
  <1>1. ChoiceInv /\ [FormNext]_vars => [Kept]_vars
    <2> SUFFICES ASSUME ChoiceInv, FormNext, chosen # NoSession, chosen' = chosen, inbox' = inbox
                 PROVE  session' \in {session, chosen}
      OBVIOUS
    <2>1. ~Hear
      <3>1. SUFFICES ASSUME Hear
                     PROVE  FALSE
        OBVIOUS
      <3>2. inbox \in Seq(Kinds) /\ inbox # <<>>
        BY <3>1 DEF Hear, ChoiceInv, FormInv
      <3>3. Len(inbox) \in Nat /\ Len(Tail(inbox)) = Len(inbox) - 1
        BY <3>2
      <3>4. Tail(inbox) = inbox
        BY <3>1 DEF Hear
      <3>5. QED
        BY <3>3, <3>4
    <2>2. ~WriteTimer /\ \A w \in {"login", "password", "menu"} : ~Leave(w)
      BY DEF WriteTimer, Leave, ChoiceInv, FormInv
    <2>3. \A u \in Users : ~Pick(u)
      BY DEF Pick, LoginSet
    <2>4. ASSUME NEW s \in Listed, Choose(s)
          PROVE  session' \in {session, chosen}
      BY <2>4 DEF Choose
    <2>5. QED
      BY <2>1, <2>2, <2>3, <2>4
         DEF FormNext, ListsAgain, edit, TypePassword, Press, Denied, Type, Go
  <1>2. QED
    BY <1>1, FormStart, FormStep_ChoiceInv, PTL DEF FormSpec, ChoiceKept

-----------------------------------------------------------------------------
(* The lists come in rounds.                                               *)

\* How many messages were read, and what the next ones are: the rounds of the
\* lists follow each other in the socket.
Round == Len(Lists)
Read == lists * Round - Len(inbox)

\* The inductive invariant of the messages: what was seen is what was read, and
\* what is in the socket goes on from there.
StreamInv ==
  /\ Read \in Nat
  /\ \A i \in 1 .. Len(inbox) : inbox[i] = Lists[1 + ((Read + i - 1) % Round)]
  /\ seen = {Lists[k] : k \in {j \in 1 .. Round : j <= Read}}

\* Positions count modulo the length of a round.
LEMMA InRound ==
  ASSUME NEW n \in Nat, NEW len \in Nat, NEW j \in 1 .. len
  PROVE  (n * len + (j - 1)) % len = j - 1
  OBVIOUS

\* The greeter starts with the first round in the socket.
LEMMA StreamStart == FormInit => StreamInv
  <1> SUFFICES ASSUME FormInit
               PROVE  StreamInv
    OBVIOUS
  <1>1. Round \in 2 .. 4
    BY ListsOrder DEF Round
  <1>2. inbox = Lists /\ Len(inbox) = Round /\ Read = 0 /\ seen = {}
    BY <1>1 DEF FormInit, Read, Round
  <1>3. \A i \in 1 .. Round : (i - 1) % Round = i - 1
    BY <1>1
  <1>4. QED
    BY <1>1, <1>2, <1>3 DEF StreamInv

\* The message that is read next.
LEMMA NextMessage ==
  ASSUME ChoiceInv, StreamInv, Hear
  PROVE  /\ Head(inbox) = Lists[1 + (Read % Round)]
         /\ Read' = Read + 1
         /\ StreamInv'
  <1> USE DEF ChoiceInv, FormInv
  <1>1. /\ Round \in 2 .. 4 /\ Read \in Nat /\ lists \in Nat /\ lists' = lists
        /\ inbox \in Seq(Kinds) /\ inbox # <<>> /\ inbox' = Tail(inbox)
        /\ seen' = seen \cup {Head(inbox)}
    BY ListsOrder, FormAssumption DEF Round, StreamInv, Hear
  <1>2. Len(inbox) \in Nat /\ Len(inbox) > 0 /\ Len(inbox') = Len(inbox) - 1
        /\ \A i \in 1 .. Len(inbox') : inbox'[i] = inbox[i + 1]
    BY <1>1
  <1>3. Read' = Read + 1
    BY <1>1, <1>2 DEF Read, Round
  <1>4. Head(inbox) = Lists[1 + (Read % Round)]
    BY <1>1, <1>2 DEF StreamInv
  <1>5. \A i \in 1 .. Len(inbox') : inbox'[i] = Lists[1 + ((Read' + i - 1) % Round)]
    <2>1. SUFFICES ASSUME NEW i \in 1 .. Len(inbox')
                   PROVE  inbox'[i] = Lists[1 + ((Read' + i - 1) % Round)]
      OBVIOUS
    <2>2. inbox'[i] = inbox[i + 1] /\ i + 1 \in 1 .. Len(inbox)
      BY <1>2
    <2>3. inbox[i + 1] = Lists[1 + ((Read + (i + 1) - 1) % Round)]
      BY <2>2 DEF StreamInv
    <2>4. Read + (i + 1) - 1 = Read' + i - 1
      BY <1>1, <1>3
    <2>5. QED
      BY <2>2, <2>3, <2>4
  <1>6. seen' = {Lists[k] : k \in {j \in 1 .. Round : j <= Read'}}
    <2>1. CASE Read < Round
      <3>1. Read % Round = Read
        BY <1>1, <2>1
      <3>2. {j \in 1 .. Round : j <= Read'} = {j \in 1 .. Round : j <= Read} \cup {1 + Read}
        BY <1>1, <1>3, <2>1
      <3>3. \A D, k : {Lists[j] : j \in D \cup {k}} = {Lists[j] : j \in D} \cup {Lists[k]}
        OBVIOUS
      <3>4. QED
        <4>1. seen' = seen \cup {Lists[1 + Read]}
          BY <1>1, <1>4, <3>1
        <4>2. seen = {Lists[j] : j \in {k \in 1 .. Round : k <= Read}}
          BY DEF StreamInv
        <4>3. seen' = {Lists[j] : j \in {k \in 1 .. Round : k <= Read} \cup {1 + Read}}
          BY <3>3, <4>1, <4>2, Zenon
        <4>4. QED
          BY <3>2, <4>3, Zenon
    <2>2. CASE ~(Read < Round)
      <3>1. {j \in 1 .. Round : j <= Read'} = {j \in 1 .. Round : j <= Read}
        BY <1>1, <1>3, <2>2
      <3>2. 1 + (Read % Round) \in {j \in 1 .. Round : j <= Read}
        BY <1>1, <2>2
      <3>3. QED
        BY <1>1, <1>4, <3>1, <3>2 DEF StreamInv
    <2>3. QED
      BY <2>1, <2>2
  <1>7. Round' = Round /\ Read' \in Nat
    BY <1>1, <1>3 DEF Round
  <1>8. QED
    BY <1>3, <1>4, <1>5, <1>6, <1>7 DEF StreamInv

\* Another round waits at the end of the socket.
LEMMA NextRound ==
  ASSUME ChoiceInv, StreamInv, ListsAgain
  PROVE  Read' = Read /\ StreamInv'
  <1> USE DEF ChoiceInv, FormInv
  <1>1. /\ Round \in 2 .. 4 /\ Read \in Nat /\ lists \in Nat /\ lists' = lists + 1
        /\ inbox \in Seq(Kinds) /\ Lists \in Seq(Kinds) /\ inbox' = inbox \o Lists
        /\ seen' = seen
    BY ListsOrder, FormAssumption DEF Round, StreamInv, ListsAgain
  <1>2. /\ Len(inbox) \in Nat /\ Len(inbox') = Len(inbox) + Round
        /\ \A i \in 1 .. Len(inbox) : inbox'[i] = inbox[i]
        /\ \A i \in 1 .. Round : inbox'[Len(inbox) + i] = Lists[i]
    BY <1>1 DEF Round
  <1>3. lists' * Round = lists * Round + Round /\ lists * Round \in Nat
    BY <1>1
  <1>4. Read' = Read /\ Read + Len(inbox) = lists * Round
    BY <1>1, <1>2, <1>3 DEF Read, Round
  <1> DEFINE sofar == lists * Round
  <1>a. \A j \in 1 .. Round : (sofar + (j - 1)) % Round = j - 1
    BY <1>1, InRound
  <1>b. sofar \in Nat /\ Read + Len(inbox) = sofar
    BY <1>3, <1>4
  <1> HIDE DEF sofar
  <1>5. ASSUME NEW i \in 1 .. Len(inbox')
        PROVE  inbox'[i] = Lists[1 + ((Read + i - 1) % Round)]
    <2>1. CASE i \in 1 .. Len(inbox)
      BY <1>2, <2>1 DEF StreamInv
    <2>2. CASE i \notin 1 .. Len(inbox)
      <3>1. PICK j \in 1 .. Round : i = Len(inbox) + j
        <4>1. i - Len(inbox) \in 1 .. Round
          BY <1>1, <1>2, <2>2
        <4>2. i = Len(inbox) + (i - Len(inbox))
          BY <1>2
        <4>3. QED
          BY <4>1, <4>2
      <3>2. Read + i - 1 = sofar + (j - 1)
        <4>1. Read \in Nat /\ Len(inbox) \in Nat /\ sofar \in Nat /\ j \in Int
          BY <1>1, <1>2, <1>b
        <4>2. QED
          BY <1>b, <3>1, <4>1
      <3>3. (sofar + (j - 1)) % Round = j - 1 /\ 1 + (j - 1) = j
        BY <1>1, <1>a
      <3>4. inbox'[i] = Lists[j]
        BY <1>2, <3>1
      <3>5. QED
        BY <3>2, <3>3, <3>4
    <2>3. QED
      BY <2>1, <2>2
  <1>6. QED
    BY <1>1, <1>4, <1>5 DEF StreamInv, Round

\* All other events leave socket and lists alone.
LEMMA StreamStep == ChoiceInv /\ StreamInv /\ [FormNext]_vars => StreamInv'
  <1> SUFFICES ASSUME ChoiceInv, StreamInv, [FormNext]_vars, ~Hear, ~ListsAgain
               PROVE  StreamInv'
    BY NextMessage, NextRound
  <1>1. UNCHANGED <<inbox, lists, seen>>
    BY DEF FormNext, vars, WriteTimer, TypePassword, Press, Denied, Type, Leave, Go, Pick, Choose
  <1>2. QED
    BY <1>1 DEF StreamInv, Read, Round

-----------------------------------------------------------------------------
(* The session of the name.                                                *)

\* The next position of a round.
LEMMA NextInRound ==
  ASSUME NEW n \in Nat, NEW len \in 2 .. 4
  PROVE  /\ n % len \in 0 .. len - 1 /\ n % len <= n
         /\ (n + 1) % len = IF n % len = len - 1 THEN 0 ELSE (n % len) + 1
  <1>1. CASE len = 2
    BY <1>1
  <1>2. CASE len = 3
    BY <1>2
  <1>3. CASE len = 4
    BY <1>3
  <1>4. QED
    BY <1>1, <1>2, <1>3

\* Between the users of one round and the first list of the next, the session
\* is that of the name, once the name entry was left.
SessionInv ==
  Read > 0 /\ (Read + 1) % Round <= 1 /\ focus # "login" /\ chosen = NoSession
    => session = Guess(login, seen)

\* A list that comes in keeps it: the users bring name and session, the lists
\* before them wait for the users, and the pools change no guess.
LEMMA HearSession ==
  ASSUME CustomConf => Autoselect, ChoiceInv, StreamInv, SessionInv, Hear
  PROVE  SessionInv'
  <1> USE DEF ChoiceInv, FormInv
  <1>1. Round \in 2 .. 4 /\ Round' = Round /\ Read \in Nat
    BY ListsOrder DEF Round, StreamInv
  <1>2. Head(inbox) = Lists[1 + (Read % Round)] /\ Read' = Read + 1
    BY NextMessage
  <1>3. CASE Read % Round = Round - 2
    <2>1. Head(inbox) = "users"
      BY <1>1, <1>2, <1>3, ListsOrder DEF Round
    <2>2. "conf_gui" \in seen => CustomConf
      BY ListsOrder DEF StreamInv, Round
    <2>3. SelectsUser
      BY <2>2 DEF SelectsUser
    <2>4. LoginSet(FirstUser, seen')
      BY <2>1, <2>3 DEF Hear
    <2>5. QED
      BY <2>4 DEF LoginSet, SessionInv
  <1>4. CASE Read % Round = Round - 1
    <2>1. Head(inbox) = "pools"
      BY <1>1, <1>2, <1>4, ListsOrder DEF Round
    <2>2. UNCHANGED <<login, focus, session, chosen>> /\ seen' = seen \cup {"pools"}
      BY <2>1 DEF Hear
    <2>3. Read > 0 /\ (Read + 1) % Round = 0
      BY <1>1, <1>4, NextInRound
    <2>4. Guess(login, seen \cup {"pools"}) = Guess(login, seen)
      BY GuessSettled
    <2>5. QED
      BY <2>2, <2>3, <2>4 DEF SessionInv
  <1>5. CASE Read % Round \notin {Round - 2, Round - 1}
    <2>1. Read + 1 \in Nat /\ (Read + 1) % Round = (Read % Round) + 1
          /\ Read % Round \in 0 .. Round - 3
      BY <1>1, <1>5, NextInRound
    <2>2. ASSUME NEW n \in Nat, n = Read + 1
          PROVE  (n + 1) % Round = (Read % Round) + 2
      <3>1. n % Round # Round - 1 /\ n % Round = (Read % Round) + 1
        BY <1>1, <2>1, <2>2
      <3>2. (n + 1) % Round = (n % Round) + 1
        BY <1>1, <3>1, NextInRound
      <3>3. QED
        BY <2>1, <3>1, <3>2
    <2>3. (Read' + 1) % Round' = (Read % Round) + 2
      BY <1>1, <1>2, <2>1, <2>2
    <2>4. ~((Read' + 1) % Round' <= 1)
      BY <2>1, <2>3
    <2>5. QED
      BY <2>4 DEF SessionInv
  <1>6. QED
    BY <1>3, <1>4, <1>5

\* Every other event looks the session up, keeps the name, or is a choice.
LEMMA SessionStep ==
  ASSUME CustomConf => Autoselect, ChoiceInv, StreamInv, SessionInv, [FormNext]_vars
  PROVE  SessionInv'
  <1> USE FormAssumption DEF ChoiceInv, FormInv
  <1>1. CASE Hear
    BY <1>1, HearSession
  <1>2. CASE ListsAgain
    <2>1. Read' = Read /\ Round' = Round
      BY <1>2, NextRound DEF Round
    <2>2. QED
      BY <1>2, <2>1 DEF ListsAgain, edit, SessionInv
  <1>3. CASE ~Hear /\ ~ListsAgain
    <2>1. UNCHANGED <<inbox, lists, seen>>
      BY <1>3 DEF FormNext, vars, WriteTimer, TypePassword, Press, Denied, Type, Leave, Go, Pick,
                  Choose
    <2>2. Read' = Read /\ Round' = Round
      BY <2>1 DEF Read, Round
    <2>3. \/ UNCHANGED <<login, session>> /\ focus' = focus /\ chosen' = chosen
          \/ focus' = "login"
          \/ chosen' \in Listed
          \/ session' = Guess(login', seen')
          \/ Go("password") \/ Go("menu")
      BY <1>3, <2>1 DEF FormNext, vars, WriteTimer, TypePassword, Press, Denied, Type, Leave, Go,
                        Pick, LoginSet, Unfocus, Choose
    <2>4. QED
      BY <2>1, <2>2, <2>3 DEF SessionInv, Go
  <1>4. QED
    BY <1>1, <1>2, <1>3

\* If the first user is selected when the list comes in, the session in the
\* form is that of the name whenever all lists are in and the name entry was
\* left, and with a list of sessions there is one (_login_xsession_guess,
\* entrance_gui_users_set).
THEOREM SessionsOfNames ==
  ASSUME CustomConf => Autoselect
  PROVE  FormSpec => []SessionOfName
  <1>1. FormInit => SessionInv
    BY DEF FormInit, SessionInv
  <1>2. ChoiceInv /\ StreamInv /\ SessionInv => SessionOfName
    <2> SUFFICES ASSUME ChoiceInv, StreamInv, SessionInv,
                        inbox = <<>>, focus # "login", chosen = NoSession
                 PROVE  session = Guess(login, seen) /\ (XSessionsOn => session # NoSession)
      BY DEF SessionOfName
    <2>1. Round \in 2 .. 4 /\ lists \in Nat \ {0} /\ Read \in Nat
      BY ListsOrder, FormAssumption DEF Round, ChoiceInv, FormInv, StreamInv
    <2>2. Read = lists * Round
      BY <2>1 DEF Read, Round
    <2>3. Read >= Round
      BY <2>1, <2>2
    <2>4. (Read + 1) % Round = 1
      BY <2>1, <2>2, InRound
    <2>5. session = Guess(login, seen)
      BY <2>1, <2>3, <2>4 DEF SessionInv
    <2>6. XSessionsOn => "xsessions" \in seen
      BY <2>1, <2>3, ListsOrder DEF StreamInv
    <2>7. QED
      BY <2>5, <2>6, GuessType, FormAssumption
  <1>3. ChoiceInv /\ StreamInv /\ SessionInv /\ [FormNext]_vars => SessionInv'
    BY SessionStep
  <1>4. QED
    BY <1>1, <1>2, <1>3, FormStart, FormStep_ChoiceInv, StreamStart, StreamStep, PTL DEF FormSpec

-----------------------------------------------------------------------------
(* The wallpaper.                                                          *)

\* The list of users and the wallpaper go on top of the form.
LEMMA WallStep == [WallNext]_allVars => [FormNext]_vars
  <1>1. HearLists => FormNext
    BY DEF HearLists, FormNext
  <1>2. ASSUME NEW item \in (1 .. copies) \X Users, PickItem(item)
        PROVE  FormNext
    BY <1>2 DEF PickItem, FormNext
  <1>3. FormStep => FormNext
    BY DEF FormStep, FormNext
  <1>4. UNCHANGED allVars => UNCHANGED vars
    BY DEF allVars
  <1>5. QED
    BY <1>1, <1>2, <1>3, <1>4 DEF WallNext

\* ... so that what the theorems say of the form holds under the wallpaper.
THEOREM WallImplementsForm == WallSpec => FormSpec
  <1>1. WallInit => FormInit
    BY DEF WallInit
  <1>2. QED
    BY <1>1, WallStep, PTL DEF WallSpec, FormSpec

\* Which messages were read follows from their number.
LEMMA ReadKinds ==
  ASSUME ChoiceInv, StreamInv
  PROVE  /\ Round \in 2 .. 4 /\ Read \in Nat
         /\ "conf_gui" \in seen <=> CustomConf /\ Read >= Round - 2
         /\ "users" \in seen <=> Read >= Round - 1
         /\ "pools" \in seen <=> Read >= Round
  <1>1. Round \in 2 .. 4 /\ Read \in Nat
    BY ListsOrder DEF Round, StreamInv
  <1>2. \A k \in 1 .. Round : Lists[k] \in seen <=> k <= Read
    BY <1>1, ListsOrder DEF StreamInv, Round
  <1>3. "conf_gui" \in seen => CustomConf
    BY ListsOrder DEF StreamInv, Round
  <1>4. CustomConf => Round - 2 \in 1 .. Round /\ Lists[Round - 2] = "conf_gui"
    BY ListsOrder DEF Round
  <1>5. Lists[Round - 1] = "users" /\ Lists[Round] = "pools"
    BY ListsOrder DEF Round
  <1>6. QED
    BY <1>1, <1>2, <1>3, <1>4, <1>5

\* The same for the message that is read next.
LEMMA HeadKinds ==
  ASSUME ChoiceInv, StreamInv, Hear
  PROVE  /\ Head(inbox) = "users" <=> Read % Round = Round - 2
         /\ Head(inbox) = "conf_gui" => CustomConf /\ Read % Round = Round - 3
         /\ Read < lists * Round
  <1>1. /\ Round \in 2 .. 4 /\ Read \in Nat /\ Read % Round \in 0 .. Round - 1
        /\ Head(inbox) = Lists[1 + (Read % Round)]
    BY ReadKinds, NextMessage, NextInRound
  <1>2. \A i, j \in 1 .. Round : Lists[i] = Lists[j] => i = j
    BY ListsOrder DEF Round
  <1>3. Lists[Round - 1] = "users"
    BY ListsOrder DEF Round
  <1>4. CustomConf => Round - 2 \in 1 .. Round /\ Lists[Round - 2] = "conf_gui"
    BY ListsOrder DEF Round
  <1>5. ~CustomConf => \A k \in 1 .. Round : Lists[k] # "conf_gui"
    BY ListsOrder DEF Round
  <1>6. Read < lists * Round
    <2>1. Len(inbox) \in Nat /\ Len(inbox) > 0
      BY DEF Hear, ChoiceInv, FormInv
    <2>2. lists \in Nat /\ lists * Round \in Nat
      BY <1>1, FormAssumption DEF ChoiceInv, FormInv
    <2>3. QED
      BY <1>1, <2>1, <2>2 DEF Read, Round
  <1>7. 1 + (Read % Round) \in 1 .. Round /\ Round - 1 \in 1 .. Round
    BY <1>1
  <1>8. QED
    BY <1>1, <1>2, <1>3, <1>4, <1>5, <1>6, <1>7

\* What the greeter holds are the settings and images that were read, the users
\* are in the list once for each round, and only they can be selected.
SettingsInv ==
  /\ conf \in [image : ConfImages, random : BOOLEAN]
  /\ random = IF "conf_gui" \in seen THEN conf.random ELSE FALSE
  /\ confImage = IF "conf_gui" \in seen THEN conf.image ELSE NoImage
  /\ pool = IF "pools" \in seen THEN SystemPool ELSE {}
  /\ copies = (Read + 1) \div Round
  /\ wallpaper # NoImage <=> "conf_gui" \in seen \/ selected # NoItem
  /\ selected = NoItem \/ selected \in (1 .. copies) \X Users
  /\ early \in BOOLEAN
  /\ selected # NoItem => "users" \in seen /\ (~early => "pools" \in seen)

\* A selection made once the users come in brings the documented wallpaper.
LEMMA BackgroundDocumented ==
  ASSUME SettingsInv, CustomConf <=> "conf_gui" \in seen, NEW u \in Users
  PROVE  /\ Background(u) \subseteq Documented(u, IF "pools" \notin seen THEN {} ELSE SystemPool)
         /\ NoImage \notin Background(u)
  <1>1. random <=> CustomConf /\ conf.random
    BY DEF SettingsInv
  <1>2. RandomGet(u) = UserPool[u] \cup (IF "pools" \notin seen THEN {} ELSE SystemPool)
    BY DEF SettingsInv, RandomGet
  <1>3. Shown(confImage) = IF CustomConf /\ conf.image # NoImage THEN conf.image ELSE DefaultImage
    BY DEF SettingsInv, Shown
  <1>4. Background(u) \subseteq Documented(u, IF "pools" \notin seen THEN {} ELSE SystemPool)
    BY <1>1, <1>2, <1>3 DEF Background, Documented
  <1>5. NoImage \notin Background(u)
    BY <1>2, WallpaperAssumption DEF Background, Shown
  <1>6. QED
    BY <1>4, <1>5

\* How far the list of users has grown.
LEMMA CopiesStep ==
  ASSUME NEW n \in Nat, NEW len \in 2 .. 4
  PROVE  /\ ((n + 1) + 1) \div len =
              IF n % len = len - 2 THEN ((n + 1) \div len) + 1 ELSE (n + 1) \div len
         /\ (n + 1) \div len \in Nat
  <1>1. CASE len = 2
    BY <1>1
  <1>2. CASE len = 3
    BY <1>2
  <1>3. CASE len = 4
    BY <1>3
  <1>4. QED
    BY <1>1, <1>2, <1>3

\* The list of users grows at most once a round.
LEMMA CopiesBound ==
  ASSUME NEW n \in Nat, NEW len \in 2 .. 4, NEW m \in Nat, n <= m * len
  PROVE  (n + 1) \div len \in 0 .. m
  <1>1. CASE len = 2
    BY <1>1
  <1>2. CASE len = 3
    BY <1>2
  <1>3. CASE len = 4
    BY <1>3
  <1>4. QED
    BY <1>1, <1>2, <1>3

\* The wallpaper's whole invariant.
WallAll == ChoiceInv /\ StreamInv /\ SettingsInv /\ WallpaperOfUser

\* The greeter starts with nobody selected and no settings read.
LEMMA WallStart == WallInit => WallAll
  <1> SUFFICES ASSUME WallInit
               PROVE  WallAll
    OBVIOUS
  <1>1. ChoiceInv /\ StreamInv /\ Read = 0 /\ seen = {} /\ Round \in 2 .. 4
    BY FormStart, StreamStart, ListsOrder DEF WallInit, FormInit, Read, Round
  <1>2. (0 + 1) \div Round = 0
    BY <1>1
  <1>3. SettingsInv /\ WallpaperOfUser
    BY <1>1, <1>2 DEF WallInit, SettingsInv, WallpaperOfUser, NoItem
  <1>4. QED
    BY <1>1, <1>3 DEF WallAll

\* Selecting an item of the list, or the first one when the list comes in.
LEMMA SelectStep ==
  ASSUME WallAll, CustomConf <=> "conf_gui" \in seen, NEW item \in (1 .. copies') \X Users,
         Select(item), UNCHANGED <<conf, lists>>
  PROVE  /\ wallpaper' # NoImage /\ selected' = item /\ selected' # NoItem
         /\ early' \in BOOLEAN
         /\ WallpaperOfUser'
         /\ ~early' => "pools" \in seen
  <1> USE DEF WallAll
  <1>1. item[2] \in Users /\ item # NoItem /\ selected' = item
    BY FormAssumption DEF Select, NoItem
  <1>2. CASE item = selected
    <2>1. UNCHANGED <<wallpaper, early, selected, conf, lists>>
      BY <1>2 DEF Select
    <2>2. wallpaper # NoImage /\ early \in BOOLEAN /\ (~early => "pools" \in seen)
      BY <1>1, <1>2 DEF SettingsInv
    <2>3. WallpaperOfUser'
      BY <2>1 DEF WallpaperOfUser, Documented, NoItem
    <2>4. QED
      BY <1>1, <2>1, <2>2, <2>3 DEF NoItem
  <1>3. CASE item # selected
    <2>1. wallpaper' \in Background(item[2]) /\ early' = ("pools" \notin seen)
      BY <1>3 DEF Select
    <2>2. wallpaper' \in Documented(item[2], IF early' THEN {} ELSE SystemPool)
          /\ wallpaper' # NoImage
      BY <1>1, <2>1, BackgroundDocumented
    <2>3. QED
      BY <1>1, <2>1, <2>2 DEF WallpaperOfUser, Documented, NoItem
  <1>4. QED
    BY <1>2, <1>3

\* A message that comes in keeps the settings and the wallpaper.
LEMMA HearWall ==
  ASSUME WallAll, HearLists
  PROVE  SettingsInv' /\ WallpaperOfUser'
  <1> USE DEF WallAll
  <1>0. Hear
    BY DEF HearLists
  <1>1. /\ Round \in 2 .. 4 /\ Read \in Nat /\ Round' = Round /\ Read' = Read + 1
        /\ seen' = seen \cup {Head(inbox)} /\ lists' = lists
        /\ lists \in Nat
    BY <1>0, ReadKinds, NextMessage, FormAssumption DEF Round, Hear, ChoiceInv, FormInv
  <1>2. /\ Head(inbox) = "users" <=> Read % Round = Round - 2
        /\ Head(inbox) = "conf_gui" => CustomConf /\ Read % Round = Round - 3
        /\ Read < lists * Round
    BY <1>0, HeadKinds
  <1>3. (Read' + 1) \div Round' =
          IF Head(inbox) = "users" THEN copies + 1 ELSE copies
    BY <1>1, <1>2, CopiesStep DEF SettingsInv
  <1>4. copies \in Nat
    BY <1>1, CopiesStep DEF SettingsInv
  <1>5. CASE Head(inbox) = "xsessions"
    <2>1. UNCHANGED wallVars
      BY <1>5 DEF HearLists
    <2>2. QED
      BY <1>1, <1>3, <1>5, <2>1
         DEF wallVars, SettingsInv, WallpaperOfUser, Documented, NoItem
  <1>6. CASE Head(inbox) = "conf_gui"
    <2>1. ConfSet
      BY <1>6 DEF HearLists
    <2>2. copies' = copies /\ UNCHANGED <<conf, pool, selected, early>>
          /\ CustomConf /\ Head(inbox) \notin {"users", "pools"}
      BY <1>2, <1>6, <2>1 DEF ConfSet
    <2>3. confImage' = conf.image
      <3>1. CASE "conf_gui" \in seen
        BY <2>1, <3>1 DEF ConfSet, SettingsInv
      <3>2. CASE "conf_gui" \notin seen
        <4>1. "users" \notin seen
          BY <1>1, <2>2, <3>2, ReadKinds
        <4>2. wallpaper = NoImage
          BY <3>2, <4>1 DEF SettingsInv
        <4>3. QED
          BY <2>1, <3>2, <4>2 DEF ConfSet, SettingsInv
      <3>3. QED
        BY <3>1, <3>2
    <2>4. wallpaper' # NoImage
          /\ wallpaper' \in {conf.image, wallpaper, DefaultImage}
          /\ (wallpaper # NoImage => wallpaper' \in {conf.image, wallpaper})
      BY <2>1, WallpaperAssumption DEF ConfSet, Shown
    <2>5. random' = conf.random /\ conf.random \in BOOLEAN
      BY <2>1 DEF ConfSet, SettingsInv
    <2>6. "conf_gui" \in seen' /\ ("users" \in seen' <=> "users" \in seen)
          /\ ("pools" \in seen' <=> "pools" \in seen)
      BY <1>1, <1>6
    <2>7. SettingsInv'
      BY <1>1, <1>3, <1>6, <2>2, <2>3, <2>4, <2>5, <2>6 DEF SettingsInv, NoItem
    <2>8. WallpaperOfUser'
      <3>1. SUFFICES ASSUME selected # NoItem
                     PROVE  WallpaperOfUser'
        BY <2>2 DEF WallpaperOfUser, NoItem
      <3>2. lists > 1
        <4>1. "users" \in seen
          BY <3>1 DEF SettingsInv
        <4>2. Read >= Round - 1 /\ Read % Round = Round - 3
          BY <1>2, <1>6, <4>1, ReadKinds
        <4>3. Read # Round - 1
          BY <1>1, <4>2
        <4>4. Read >= Round
          BY <1>1, <4>2, <4>3
        <4>5. QED
          BY <1>1, <1>2, <4>4
      <3>3. wallpaper # NoImage
        BY <3>1 DEF SettingsInv
      <3>4. CASE wallpaper' = conf.image
        BY <1>1, <2>2, <3>2, <3>4 DEF WallpaperOfUser
      <3>5. CASE wallpaper' = wallpaper
        BY <1>1, <2>2, <3>5 DEF WallpaperOfUser, Documented, NoItem
      <3>6. QED
        BY <2>4, <3>3, <3>4, <3>5
    <2>9. QED
      BY <2>7, <2>8
  <1>7. CASE Head(inbox) = "users"
    <2>1. UsersPopulate
      BY <1>7 DEF HearLists
    <2>2. copies' = copies + 1 /\ UNCHANGED <<conf, confImage, random, pool>>
      BY <2>1 DEF UsersPopulate, FillGengrid
    <2>3. "users" \in seen' /\ ("conf_gui" \in seen' <=> "conf_gui" \in seen)
          /\ ("pools" \in seen' <=> "pools" \in seen)
      BY <1>1, <1>7
    <2>4. CASE SelectsUser
      <3>1. <<1, FirstUser>> \in (1 .. copies') \X Users
        BY <1>4, <2>2, FormAssumption
      <3>2. CustomConf <=> "conf_gui" \in seen
        <4>1. Read % Round = Round - 2
          BY <1>2, <1>7
        <4>2. Read >= Round - 2
          BY <1>1, <4>1, NextInRound
        <4>3. QED
          BY <4>2, ReadKinds
      <3>3. Select(<<1, FirstUser>>) /\ UNCHANGED <<conf, lists>>
        BY <1>1, <2>1, <2>2, <2>4 DEF UsersPopulate
      <3>4. /\ wallpaper' # NoImage /\ selected' = <<1, FirstUser>> /\ selected' # NoItem
            /\ early' \in BOOLEAN /\ WallpaperOfUser' /\ (~early' => "pools" \in seen)
        BY <3>1, <3>2, <3>3, SelectStep
      <3>5. SettingsInv'
        BY <1>1, <1>3, <1>7, <2>2, <2>3, <3>1, <3>4 DEF SettingsInv, NoItem
      <3>6. QED
        BY <3>4, <3>5
    <2>5. CASE ~SelectsUser
      <3>1. UNCHANGED <<wallpaper, selected, early>>
        BY <2>1, <2>5 DEF UsersPopulate
      <3>2. (1 .. copies) \X Users \subseteq (1 .. copies') \X Users
        BY <1>4, <2>2
      <3>3. QED
        BY <1>1, <1>3, <1>7, <2>2, <2>3, <3>1, <3>2
           DEF SettingsInv, WallpaperOfUser, Documented, NoItem
    <2>6. QED
      BY <2>4, <2>5
  <1>8. CASE Head(inbox) = "pools"
    <2>1. PoolsSet
      BY <1>8 DEF HearLists
    <2>2. QED
      BY <1>1, <1>3, <1>8, <2>1 DEF PoolsSet, SettingsInv, WallpaperOfUser, Documented, NoItem
  <1>9. QED
    BY <1>5, <1>6, <1>7, <1>8 DEF HearLists

\* Picking an item, and everything the form does on its own.
LEMMA WallAllStep == WallAll /\ [WallNext]_allVars => WallAll'
  <1> SUFFICES ASSUME WallAll, [WallNext]_allVars
               PROVE  WallAll'
    OBVIOUS
  <1>1. ChoiceInv' /\ StreamInv'
    BY WallStep, FormStep_ChoiceInv, StreamStep DEF WallAll
  <1>2. SettingsInv' /\ WallpaperOfUser'
    <2>1. CASE HearLists
      BY <2>1, HearWall
    <2>2. ASSUME NEW item \in (1 .. copies) \X Users, PickItem(item)
          PROVE  SettingsInv' /\ WallpaperOfUser'
      <3>1. UNCHANGED <<conf, confImage, random, pool, copies, inbox, lists, seen>>
            /\ "users" \in seen /\ Select(item)
        BY <2>2 DEF PickItem, Pick
      <3>2. CustomConf <=> "conf_gui" \in seen
        BY <3>1, ReadKinds DEF WallAll
      <3>3. /\ wallpaper' # NoImage /\ selected' = item /\ selected' # NoItem
            /\ early' \in BOOLEAN /\ WallpaperOfUser' /\ (~early' => "pools" \in seen)
        BY <3>1, <3>2, SelectStep
      <3>4. Read' = Read /\ Round' = Round
        BY <3>1 DEF Read, Round
      <3>5. SettingsInv'
        BY <3>1, <3>3, <3>4 DEF WallAll, SettingsInv
      <3>6. QED
        BY <3>3, <3>5
    <2>3. ASSUME UNCHANGED wallVars, ListsAgain
          PROVE  SettingsInv' /\ WallpaperOfUser'
      <3>1. Read' = Read /\ Round' = Round /\ seen' = seen /\ lists' = lists + 1 /\ lists \in Nat
        BY <2>3, NextRound, FormAssumption DEF WallAll, ListsAgain, Round, ChoiceInv, FormInv
      <3>2. QED
        BY <2>3, <3>1 DEF WallAll, wallVars, SettingsInv, WallpaperOfUser, Documented, NoItem
    <2>4. ASSUME UNCHANGED wallVars, UNCHANGED <<inbox, lists, seen>>
          PROVE  SettingsInv' /\ WallpaperOfUser'
      <3>1. Read' = Read /\ Round' = Round
        BY <2>4 DEF Read, Round
      <3>2. QED
        BY <2>4, <3>1 DEF WallAll, wallVars, SettingsInv, WallpaperOfUser, Documented, NoItem
    <2>5. CASE FormStep
      <3>1. UNCHANGED wallVars
        BY <2>5 DEF FormStep
      <3>2. ListsAgain \/ UNCHANGED <<inbox, lists, seen>>
        BY <2>5 DEF FormStep, WriteTimer, TypePassword, Press, Denied, Type, Leave, Go, Choose
      <3>3. QED
        BY <2>3, <2>4, <3>1, <3>2
    <2>6. CASE UNCHANGED allVars
      BY <2>4, <2>6 DEF allVars, vars
    <2>7. QED
      BY <2>1, <2>2, <2>5, <2>6 DEF WallNext
  <1>3. QED
    BY <1>1, <1>2 DEF WallAll

\* The types and what the greeter holds (entrance_gui.c, entrance_fill.c): the
\* settings and images it was sent, and at most one copy of the users for each
\* time they were sent.
THEOREM WallHolds == WallSpec => []WallInv
  <1>1. WallAll => WallInv
    <2> SUFFICES ASSUME WallAll
                 PROVE  WallInv
      OBVIOUS
    <2>1. Round \in 2 .. 4 /\ Read \in Nat
      BY ReadKinds DEF WallAll
    <2>2. lists \in Nat /\ Len(inbox) \in Nat /\ lists * Round \in Nat
      BY <2>1, FormAssumption DEF WallAll, ChoiceInv, FormInv
    <2>3. Read <= lists * Round
      BY <2>1, <2>2 DEF Read, Round
    <2>4. copies \in 0 .. lists
      BY <2>1, <2>2, <2>3, CopiesBound DEF WallAll, SettingsInv
    <2>5. QED
      BY <2>4 DEF WallAll, ChoiceInv, SettingsInv, WallInv
  <1>2. QED
    BY <1>1, WallStart, WallAllStep, PTL DEF WallSpec

\* The wallpaper is the one README.md documents for the selected user, apart
\* from images that came too late and lists that came again.
THEOREM WallpapersOfUsers == WallSpec => []WallpaperOfUser
  <1>1. WallAll => WallpaperOfUser
    BY DEF WallAll
  <1>2. QED
    BY <1>1, WallStart, WallAllStep, PTL DEF WallSpec
=============================================================================
