----------------------- MODULE EntranceXsessionsProofs ----------------------
(***************************************************************************)
(* The menu of sessions is in order, complete and free of duplicates, and  *)
(* a login runs one desktop file, for any files, names and order of names. *)
(***************************************************************************)
EXTENDS EntranceXsessions, TLAPS

\* Where an old entry, and where the new one, is in the list after an insertion
\* (eina_list_sorted_insert keeps the others in their order).
LEMMA InsertedEntries ==
  ASSUME NEW S, NEW list \in Seq(S), NEW x \in S, NEW k \in 0 .. Len(list)
  PROVE  LET t == Inserted(list, k, x) IN
         /\ t \in Seq(S)
         /\ DOMAIN t = 1 .. Len(list) + 1
         /\ t[k + 1] = x
         /\ \A i \in 1 .. k : t[i] = list[i]
         /\ \A i \in k + 2 .. Len(list) + 1 : i - 1 \in DOMAIN list /\ t[i] = list[i - 1]
         /\ \A i \in DOMAIN list : \E j \in DOMAIN t : t[j] = list[i]
<1> DEFINE t == Inserted(list, k, x)
<1>1. DOMAIN list = 1 .. Len(list) /\ Len(list) \in Nat
  OBVIOUS
<1>2. DOMAIN t = 1 .. Len(list) + 1
  BY DEF Inserted
<1>3. \A i \in 1 .. Len(list) + 1 :
        t[i] = IF i <= k THEN list[i] ELSE IF i = k + 1 THEN x ELSE list[i - 1]
  BY DEF Inserted
<1>4. \A i \in k + 2 .. Len(list) + 1 : i - 1 \in DOMAIN list /\ t[i] = list[i - 1]
  BY <1>1, <1>3
<1>5. \A i \in 1 .. k : i \in DOMAIN list /\ t[i] = list[i]
  BY <1>1, <1>3
<1>6. t[k + 1] = x
  BY <1>1, <1>3
<1>7. \A i \in 1 .. Len(list) + 1 : t[i] \in S
  <2>1. TAKE i \in 1 .. Len(list) + 1
  <2>2. i \in 1 .. k \/ i = k + 1 \/ i \in k + 2 .. Len(list) + 1
    BY <1>1
  <2> QED
    BY <2>2, <1>1, <1>4, <1>5, <1>6
<1>8. t \in Seq(S)
  <2>1. t \in [1 .. Len(list) + 1 -> S]
    BY <1>7 DEF Inserted
  <2> QED
    BY <2>1, <1>1
<1>9. \A i \in DOMAIN list : \E j \in DOMAIN t : t[j] = list[i]
  <2>1. TAKE i \in DOMAIN list
  <2>2. CASE i <= k
    BY <2>2, <1>1, <1>2, <1>5
  <2>3. CASE i > k
    <3>1. i + 1 \in k + 2 .. Len(list) + 1 /\ (i + 1) - 1 = i
      BY <2>3, <1>1
    <3>2. t[i + 1] = list[i] /\ i + 1 \in DOMAIN t
      BY <3>1, <1>2, <1>4, <1>1
    <3> QED
      BY <3>2
  <2> QED
    BY <2>2, <2>3, <1>1
<1> HIDE DEF t
<1> QED
  BY <1>2, <1>4, <1>5, <1>6, <1>8, <1>9 DEF t

\* A scan and a login keep the types.
LEMMA TypesHold ==
  ASSUME XsessionsTypeOK, [XsessionsNext]_vars
  PROVE  XsessionsTypeOK'
<1> USE DEF XsessionsTypeOK
<1>1. CASE ScanFile
  <2> DEFINE f == files[next]
  <2>1. next \in 1 .. Len(files) /\ f \in File
    BY <1>1 DEF ScanFile
  <2>2. CASE InList(xsessions, f.name) \/ f.command = NoCommand
    BY <2>1, <2>2, <1>1 DEF ScanFile
  <2>3. CASE ~(InList(xsessions, f.name) \/ f.command = NoCommand)
    <3>1. PICK k \in 0 .. Len(xsessions) : xsessions' = Inserted(xsessions, k, Added(f))
      BY <2>3, <1>1 DEF ScanFile
    <3>2. Added(f) \in Xsession
      BY <2>1, <2>3 DEF Added, Xsession, File, IsWayland
    <3>3. xsessions' \in Seq(Xsession)
      BY <3>1, <3>2, InsertedEntries
    <3> QED
      BY <3>3, <2>1, <1>1 DEF ScanFile
  <2> QED
    BY <2>2, <2>3
<1>2. ASSUME NEW s \in Sessions \cup {NoSession}, Login(s)
      PROVE  XsessionsTypeOK'
  <2>1. FindCommand(s) \in Programs \cup {NoCommand}
    <3>1. CASE Named(s) = {}
      BY <3>1 DEF FindCommand, Fallback, Programs, Scripts
    <3>2. CASE Named(s) # {}
      <4>1. (CHOOSE i \in Named(s) : TRUE) \in DOMAIN xsessions
        BY <3>2 DEF Named
      <4>2. xsessions[CHOOSE i \in Named(s) : TRUE] \in Xsession
        BY <4>1
      <4> QED
        BY <3>2, <4>2 DEF FindCommand, Xsession, Programs
    <3> QED
      BY <3>1, <3>2
  <2>2. RunsWayland(s) \in BOOLEAN
    BY DEF RunsWayland
  <2> QED
    BY <1>2, <2>1, <2>2 DEF Login
<1>3. ASSUME NEW x \in Scripts, ScriptChange(x)
      PROVE  XsessionsTypeOK'
  BY <1>3 DEF ScriptChange
<1>4. CASE UNCHANGED vars
  BY <1>4 DEF vars
<1> QED
  BY <1>1, <1>2, <1>3, <1>4 DEF XsessionsNext

\* A file that is read after the menu was built from the files before it.
LEMMA ScanKeepsMenu ==
  ASSUME XsessionsInv, ScanFile
  PROVE  (MenuInOrder /\ FirstUsable /\ OnlyFromFiles /\ AllOffered)'
<1> DEFINE f == files[next]
<1> USE DEF XsessionsInv
<1>1. next \in 1 .. Len(files) /\ f \in File /\ files' = files /\ next' = next + 1
  BY DEF ScanFile, XsessionsTypeOK
<1>2. \A i \in 1 .. (next' - 1) : i \in 1 .. next - 1 \/ i = next
  BY <1>1
<1>3. \A i \in 1 .. next - 1 : i \in 1 .. (next' - 1)
  BY <1>1
<1>4. next \in 1 .. (next' - 1)
  BY <1>1
<1>5. CASE InList(xsessions, f.name) \/ f.command = NoCommand
  <2>1. xsessions' = xsessions
    BY <1>5 DEF ScanFile
  <2>2. MenuInOrder'
    BY <2>1 DEF MenuInOrder
  <2>3. OnlyFromFiles'
    BY <2>1, <1>1, <1>3 DEF OnlyFromFiles
  <2>4. AllOffered'
    BY <2>1, <1>1, <1>2, <1>5 DEF AllOffered, Usable, InList
  <2>5. FirstUsable'
    <3>1. SUFFICES ASSUME NEW i \in 1 .. (next' - 1), Usable(files[i]),
                          \A j \in 1 .. i - 1 : Usable(files[j]) => files[j].name # files[i].name
                   PROVE  \E k \in DOMAIN xsessions : xsessions[k] = Added(files[i])
      BY <2>1, <1>1 DEF FirstUsable, Usable, Added
    <3>2. CASE i \in 1 .. next - 1
      BY <3>1, <3>2 DEF FirstUsable
    <3>3. CASE i = next
      <4>1. PICK k \in DOMAIN xsessions : xsessions[k].name = f.name
        BY <3>1, <3>3, <1>5 DEF Usable, InList
      <4>2. PICK j \in 1 .. next - 1 : Usable(files[j]) /\ xsessions[k] = Added(files[j])
        BY DEF OnlyFromFiles
      <4> QED
        BY <4>1, <4>2, <3>1, <3>3 DEF Added
    <3> QED
      BY <3>2, <3>3, <1>2
  <2> QED
    BY <2>2, <2>3, <2>4, <2>5
<1>6. CASE ~(InList(xsessions, f.name) \/ f.command = NoCommand)
  <2>1. PICK k \in 0 .. Len(xsessions) :
          InsertAt(xsessions, k, Added(f)) /\ xsessions' = Inserted(xsessions, k, Added(f))
    BY <1>6 DEF ScanFile
  <2>2. xsessions \in Seq(Xsession) /\ Added(f) \in Xsession
    BY <1>1, <1>6 DEF XsessionsTypeOK, Added, Xsession, File, IsWayland
  <2> DEFINE t == xsessions'
  <2>3. /\ DOMAIN t = 1 .. Len(xsessions) + 1
        /\ t[k + 1] = Added(f)
        /\ \A i \in 1 .. k : t[i] = xsessions[i]
        /\ \A i \in k + 2 .. Len(xsessions) + 1 : i - 1 \in DOMAIN xsessions /\ t[i] = xsessions[i - 1]
        /\ \A i \in DOMAIN xsessions : \E j \in DOMAIN t : t[j] = xsessions[i]
    <3>1. PICK x \in Xsession : x = Added(f)
      BY <2>2
    <3>2. LET u == Inserted(xsessions, k, x) IN
          /\ DOMAIN u = 1 .. Len(xsessions) + 1
          /\ u[k + 1] = x
          /\ \A i \in 1 .. k : u[i] = xsessions[i]
          /\ \A i \in k + 2 .. Len(xsessions) + 1 : i - 1 \in DOMAIN xsessions /\ u[i] = xsessions[i - 1]
          /\ \A i \in DOMAIN xsessions : \E j \in DOMAIN u : u[j] = xsessions[i]
      BY <2>2, InsertedEntries
    <3> QED
      BY <3>1, <3>2, <2>1, Zenon
  <2>4. DOMAIN xsessions = 1 .. Len(xsessions) /\ Len(xsessions) \in Nat
    BY <2>2
  <2>5. \A i \in DOMAIN t : i \in 1 .. k \/ i = k + 1 \/ i \in k + 2 .. Len(xsessions) + 1
    BY <2>3, <2>4
  <2>6. k + 1 \in DOMAIN t
    BY <2>3, <2>4
  <2>7. MenuInOrder'
    <3>1. \A i \in DOMAIN xsessions : Key[xsessions[i].name] \in Nat /\ xsessions[i].name # f.name
      <4>1. \A i \in DOMAIN xsessions : xsessions[i] \in Xsession
        BY <2>2, <2>4
      <4>2. \A i \in DOMAIN xsessions : Key[xsessions[i].name] \in Nat
        BY <4>1, XsessionsAssumption DEF Xsession
      <4>3. \A i \in DOMAIN xsessions : xsessions[i].name # f.name
        BY <1>6 DEF InList
      <4> QED
        BY <4>2, <4>3
    <3>2. Added(f).name = f.name /\ Key[f.name] \in Nat
      BY <1>1, XsessionsAssumption DEF Added, File
    <3>3. \A i \in 1 .. k : Key[xsessions[i].name] <= Key[f.name]
      BY <2>1, <3>2 DEF InsertAt
    <3>4. \A i \in k + 1 .. Len(xsessions) : Key[f.name] <= Key[xsessions[i].name]
      BY <2>1, <3>2 DEF InsertAt
    <3>5. SUFFICES ASSUME NEW i \in DOMAIN t, NEW j \in DOMAIN t, i < j
                   PROVE  Key[t[i].name] <= Key[t[j].name] /\ t[i].name # t[j].name
      BY DEF MenuInOrder
    <3>6. CASE i \in 1 .. k /\ j \in 1 .. k
      BY <3>5, <3>6, <2>3, <2>4 DEF MenuInOrder
    <3>7. CASE i \in 1 .. k /\ j = k + 1
      BY <3>7, <3>1, <3>2, <3>3, <2>3, <2>4
    <3>8. CASE i \in 1 .. k /\ j \in k + 2 .. Len(xsessions) + 1
      <4>1. i \in DOMAIN xsessions /\ j - 1 \in DOMAIN xsessions /\ i < j - 1
        BY <3>8, <2>3, <2>4
      <4> QED
        BY <4>1, <3>8, <2>3 DEF MenuInOrder
    <3>9. CASE i = k + 1 /\ j \in k + 2 .. Len(xsessions) + 1
      <4>1. j - 1 \in k + 1 .. Len(xsessions) /\ j - 1 \in DOMAIN xsessions
        BY <3>9, <2>3, <2>4
      <4> QED
        BY <4>1, <3>9, <3>1, <3>2, <3>4, <2>3
    <3>10. CASE i \in k + 2 .. Len(xsessions) + 1 /\ j \in k + 2 .. Len(xsessions) + 1
      <4>1. i - 1 \in DOMAIN xsessions /\ j - 1 \in DOMAIN xsessions /\ i - 1 < j - 1
        BY <3>5, <3>10, <2>3, <2>4
      <4> QED
        BY <4>1, <3>10, <2>3 DEF MenuInOrder
    <3> QED
      BY <3>5, <3>6, <3>7, <3>8, <3>9, <3>10, <2>5, <2>4
  <2>8. OnlyFromFiles'
    <3>1. SUFFICES ASSUME NEW i \in DOMAIN t
                   PROVE  \E j \in 1 .. (next' - 1) : Usable(files[j]) /\ t[i] = Added(files[j])
      BY <1>1 DEF OnlyFromFiles, Usable, Added, IsWayland
    <3>2. CASE i = k + 1
      BY <3>2, <2>3, <1>4, <1>6 DEF Usable
    <3>3. CASE i # k + 1
      <4>1. PICK j \in DOMAIN xsessions : t[i] = xsessions[j]
        <5>1. CASE i \in 1 .. k
          BY <5>1, <2>3, <2>4
        <5>2. CASE i \in k + 2 .. Len(xsessions) + 1
          BY <5>2, <2>3
        <5> QED
          BY <3>3, <5>1, <5>2, <2>5
      <4> QED
        BY <4>1, <1>3 DEF OnlyFromFiles
    <3> QED
      BY <3>2, <3>3
  <2>9. AllOffered'
    <3>1. SUFFICES ASSUME NEW i \in 1 .. (next' - 1), Usable(files[i])
                   PROVE  \E j \in DOMAIN t : t[j].name = files[i].name
      BY <1>1 DEF AllOffered, Usable, InList
    <3>2. CASE i = next
      BY <3>2, <2>3, <2>6 DEF Added
    <3>3. CASE i \in 1 .. next - 1
      BY <3>1, <3>3, <2>3 DEF AllOffered, InList
    <3> QED
      BY <3>2, <3>3, <1>2
  <2>10. FirstUsable'
    <3>1. SUFFICES ASSUME NEW i \in 1 .. (next' - 1), Usable(files[i]),
                          \A j \in 1 .. i - 1 : Usable(files[j]) => files[j].name # files[i].name
                   PROVE  \E j \in DOMAIN t : t[j] = Added(files[i])
      BY <1>1 DEF FirstUsable, Usable, Added, IsWayland
    <3>2. CASE i = next
      BY <3>2, <2>3, <2>6
    <3>3. CASE i \in 1 .. next - 1
      <4>1. PICK j \in DOMAIN xsessions : xsessions[j] = Added(files[i])
        BY <3>1, <3>3 DEF FirstUsable
      <4> QED
        BY <4>1, <2>3
    <3> QED
      BY <3>2, <3>3, <1>2
  <2> QED
    BY <2>7, <2>8, <2>9, <2>10
<1> QED
  BY <1>5, <1>6

\* The menu is in order and complete in every reachable state.
THEOREM XsessionsInvariance == XsessionsSpec => []XsessionsInv
<1>1. XsessionsInit => XsessionsInv
  <2> SUFFICES ASSUME XsessionsInit PROVE XsessionsInv
    OBVIOUS
  <2>1. PICK n \in 0 .. MaxFiles : files \in [1 .. n -> File]
    BY DEF XsessionsInit
  <2>2. files \in Seq(File) /\ 1 \in 1 .. Len(files) + 1
    BY <2>1, XsessionsAssumption
  <2>3. XsessionsTypeOK
    BY <2>2 DEF XsessionsInit, XsessionsTypeOK
  <2>4. MenuInOrder /\ FirstUsable /\ OnlyFromFiles /\ AllOffered
    BY DEF XsessionsInit, MenuInOrder, FirstUsable, OnlyFromFiles, AllOffered
  <2> QED
    BY <2>3, <2>4 DEF XsessionsInv
<1>2. XsessionsInv /\ [XsessionsNext]_vars => XsessionsInv'
  <2> SUFFICES ASSUME XsessionsInv, [XsessionsNext]_vars PROVE XsessionsInv'
    OBVIOUS
  <2>1. XsessionsTypeOK'
    BY TypesHold DEF XsessionsInv
  <2>2. CASE ScanFile
    BY <2>1, <2>2, ScanKeepsMenu DEF XsessionsInv
  <2>3. CASE ~ScanFile
    <3>1. files' = files /\ next' = next /\ xsessions' = xsessions
      BY <2>3 DEF XsessionsNext, Login, ScriptChange, vars
    <3>2. MenuInOrder'
      BY <3>1 DEF XsessionsInv, MenuInOrder
    <3>3. (FirstUsable /\ OnlyFromFiles /\ AllOffered)'
      BY <3>1 DEF XsessionsInv, FirstUsable, OnlyFromFiles, AllOffered, Usable, Added, IsWayland, InList
    <3> QED
      BY <2>1, <3>2, <3>3 DEF XsessionsInv
  <2> QED
    BY <2>2, <2>3
<1> QED
  BY <1>1, <1>2, PTL DEF XsessionsSpec

\* A login runs the command and the session type of one desktop file.
THEOREM LoginRunsOneFile == XsessionsSpec => []RunsOneFile
<1>1. XsessionsInit => RunsOneFile
  BY DEF XsessionsInit, RunsOneFile
<1>2. XsessionsInv /\ RunsOneFile /\ [XsessionsNext]_vars => RunsOneFile'
  <2> SUFFICES ASSUME XsessionsInv, RunsOneFile, [XsessionsNext]_vars PROVE RunsOneFile'
    OBVIOUS
  <2>1. ASSUME NEW s \in Sessions \cup {NoSession}, Login(s)
        PROVE  RunsOneFile'
    <3>1. next = Len(files) + 1 /\ DOMAIN files = 1 .. next - 1 /\ files' = files
      BY <2>1 DEF Login, XsessionsInv, XsessionsTypeOK
    <3>2. runs'.session = s /\ runs'.command = FindCommand(s) /\ runs'.wayland = RunsWayland(s)
      BY <2>1 DEF Login
    <3>3. CASE Named(s) # {}
      <4> DEFINE i == CHOOSE i \in Named(s) : TRUE
      <4>1. i \in DOMAIN xsessions /\ xsessions[i].name = s
        BY <3>3 DEF Named
      <4>2. PICK j \in 1 .. next - 1 : Usable(files[j]) /\ xsessions[i] = Added(files[j])
        BY <4>1 DEF XsessionsInv, OnlyFromFiles
      <4>3. FindCommand(s) = files[j].command /\ files[j].name = s
        BY <4>1, <4>2, <3>3 DEF FindCommand, Added
      <4>4. \A m \in Named(s) : m = i
        <5>1. \A m \in Named(s) : m \in Nat /\ i \in Nat /\ ~(m < i) /\ ~(i < m)
          BY <4>1 DEF XsessionsInv, XsessionsTypeOK, MenuInOrder, Named
        <5> QED
          BY <5>1
      <4>5. RunsWayland(s) <=> xsessions[i].wayland
        BY <4>4, <3>3 DEF RunsWayland
      <4>6. RunsWayland(s) <=> Dirs[files[j].dir] = "wayland-sessions"
        <5>1. xsessions[i].wayland = IsWayland(files[j])
          BY <4>2 DEF Added
        <5>2. IsWayland(files[j]) <=> Dirs[files[j].dir] = "wayland-sessions"
          BY DEF IsWayland
        <5> HIDE DEF i
        <5> QED
          BY <4>5, <5>1, <5>2, Zenon
      <4> QED
        BY <3>1, <3>2, <4>3, <4>6 DEF RunsOneFile
    <3>4. CASE Named(s) = {}
      <4>1. ~RunsWayland(s)
        BY <3>4 DEF RunsWayland
      <4>2. FindCommand(s) \notin Commands
        BY <3>4, XsessionsAssumption DEF FindCommand, Fallback, Scripts, Programs
      <4>3. \A j \in DOMAIN files : files[j].name = s => ~Usable(files[j])
        BY <3>1, <3>4 DEF XsessionsInv, AllOffered, InList, Named
      <4> QED
        BY <3>1, <3>2, <4>1, <4>2, <4>3 DEF RunsOneFile, Usable
    <3> QED
      BY <3>3, <3>4
  <2>2. CASE ScanFile \/ (\E x \in Scripts : ScriptChange(x)) \/ UNCHANGED vars
    <3>1. files' = files /\ runs' = runs
      BY <2>2 DEF ScanFile, ScriptChange, vars
    <3> QED
      BY <3>1 DEF RunsOneFile, Usable
  <2> QED
    BY <2>1, <2>2 DEF XsessionsNext
<1> QED
  BY <1>1, <1>2, XsessionsInvariance, PTL DEF XsessionsSpec
=============================================================================
