----------------------------- MODULE AreasProofs ------------------------------
(* What HttpGateService and CenterService guarantee about areas for any      *)
(* number of areas, edits, loads, logins and characters.                     *)
EXTENDS Areas, SequenceTheorems, TLAPS

----------------------------------------------------------------------------
(* Type correctness.                                                        *)

Gates   == {NoRow, NoGates} \cup 0 .. MaxEdits
ShowRow == [name : Names \cup {NoName}, real : RealAreas]

LEMMA JoinType ==
    ASSUME NEW r \in [RealAreas -> Gates], NEW s \in [ShowAreas -> ShowRow]
    PROVE  /\ DOMAIN Join(r, s) \subseteq ShowAreas
           /\ \A a \in DOMAIN Join(r, s) :
                Join(r, s)[a] \in [name : Names, gates : {NoGates} \cup 0 .. MaxEdits]
BY AreasAssumption DEF Join, Gates, ShowRow

LEMMA InitData == Init => DataOK
<1> SUFFICES ASSUME Init PROVE DataOK
    OBVIOUS
<1>1. real \in [RealAreas -> {NoRow, NoGates} \cup 0 .. MaxEdits]
    BY AreasAssumption DEF Init
<1>2. show \in [ShowAreas -> [name : Names \cup {NoName}, real : RealAreas]]
    BY AreasAssumption DEF Init
<1>3. DOMAIN mapAreaGate = {}
    BY DEF Init
<1> QED BY <1>1, <1>2, <1>3, AreasAssumption DEF Init, DataOK, AllLoadCount

LEMMA EditData == DataOK /\ Edit => DataOK'
<1> SUFFICES ASSUME DataOK, Edit PROVE DataOK'
    OBVIOUS
<1>1. edits' \in 0 .. MaxEdits
    BY AreasAssumption DEF Edit, DataOK
<1>2. real' \in [RealAreas -> {NoRow, NoGates} \cup 0 .. MaxEdits]
    BY <1>1 DEF Edit, DataOK
<1>3. show' \in [ShowAreas -> [name : Names \cup {NoName}, real : RealAreas]]
    BY DEF Edit, DataOK
<1> QED BY <1>1, <1>2, <1>3 DEF Edit, DataOK, centerVars

LEMMA BeginData == DataOK /\ loadAreaInfoFromDB => DataOK'
<1> SUFFICES ASSUME DataOK, loadAreaInfoFromDB PROVE DataOK'
    OBVIOUS
<1>1. began' \in 1 .. MaxLoads
    BY AreasAssumption DEF loadAreaInfoFromDB, DataOK
<1>2. NotRead \in [RealAreas -> {NoRow, NoGates} \cup 0 .. MaxEdits]
    BY DEF NotRead
<1>3. NoneShown \in [ShowAreas -> [name : Names \cup {NoName}, real : RealAreas]]
    BY AreasAssumption DEF NoneShown
<1>4. loads' \subseteq Load
    BY <1>1, <1>2, <1>3 DEF loadAreaInfoFromDB, DataOK, Load
<1> QED BY <1>1, <1>4 DEF loadAreaInfoFromDB, DataOK, listVars, othersOfGate, tables, centerVars

LEMMA LoadData ==
    ASSUME DataOK, NEW l \in loads,
           LoadFails(l) \/ RealAnswers(l) \/ ShowIsRead(l) \/ queryShowAreaCallBack(l)
    PROVE  DataOK'
<1> USE DEF listVars, othersOfGate, tables, centerVars
<1>0. l \in Load
    BY DEF DataOK
<1>1. CASE LoadFails(l)
    BY <1>1 DEF LoadFails, DataOK
<1>2. CASE RealAnswers(l)
    <2>1. [l EXCEPT !.stage = "show", !.real = real] \in Load
        BY <1>0 DEF Load, DataOK
    <2> QED BY <1>2, <2>1 DEF RealAnswers, DataOK
<1>3. CASE ShowIsRead(l)
    <2>1. [l EXCEPT !.stage = "answer", !.show = show] \in Load
        BY <1>0 DEF Load, DataOK
    <2> QED BY <1>3, <2>1 DEF ShowIsRead, DataOK
<1>4. CASE queryShowAreaCallBack(l)
    <2>1. /\ DOMAIN Listed(l) \subseteq ShowAreas
          /\ \A a \in DOMAIN Listed(l) :
                Listed(l)[a] \in [name : Names, gates : {NoGates} \cup 0 .. MaxEdits]
        BY <1>0, JoinType DEF Listed, Load, Gates, ShowRow
    <2>2. l.id \in 0 .. MaxLoads
        BY <1>0 DEF Load
    <2> QED BY <1>4, <2>1, <2>2 DEF queryShowAreaCallBack, DataOK, AllLoadCount
<1> QED BY <1>1, <1>2, <1>3, <1>4

LEMMA LoginData ==
    ASSUME DataOK, NEW c \in Requests, Login(c) \/ AuthAnswers(c) \/ DBAnswers(c)
    PROVE  DataOK'
<1>1. PICK state \in {"none", "auth", "db", "refused", "error", "areas", "nothing"} : Logged(c, state)
    BY DEF Login, AuthAnswers, DBAnswers
<1>2. login' \in [Requests -> {"none", "auth", "db", "refused", "error", "areas", "nothing"}]
    BY <1>1 DEF Logged, DataOK
<1> QED BY <1>1, <1>2 DEF Logged, DataOK, tables, centerVars

Counting ==
    \/ RPC_CreateCharacterInfo \/ CountUserInfoBy \/ CountAnswers
    \/ SyncAreaBalance \/ CenterRestarts
    \/ \E i \in DOMAIN upserts : CountIsStored(i) \/ CountIsLost(i)

\* Taking a count out leaves the last one where it was, unless it is that.
LEMMA CountTaken ==
    ASSUME NEW s \in Seq(Nat), NEW i \in DOMAIN s
    PROVE  /\ s[i] \in Nat /\ i \in 1 .. Len(s)
           /\ RemoveAt(s, i) \in Seq(Nat)
           /\ Len(RemoveAt(s, i)) = Len(s) - 1
           /\ i # Len(s) => RemoveAt(s, i)[Len(s) - 1] = s[Len(s)]
<1> DEFINE n == Len(s)
           a == SubSeq(s, 1, i - 1)
           b == SubSeq(s, i + 1, n)
<1>1. i \in 1 .. n /\ n \in Nat /\ s[i] \in Nat /\ \A k \in 1 .. n : s[k] \in Nat
    OBVIOUS
<1> HIDE DEF n
<1>2. a \in Seq(Nat) /\ Len(a) = i - 1
    <2>1. \A k \in 1 .. i - 1 : s[k] \in Nat
        BY <1>1
    <2> QED BY <1>1, <2>1, SubSeqProperties
<1>3. b \in Seq(Nat) /\ Len(b) = n - i /\ (i # n => b[n - i] = s[n])
    <2>1. \A k \in i + 1 .. n : s[k] \in Nat
        BY <1>1
    <2>2. PICK m \in Int : m = i + 1
        BY <1>1
    <2>3. /\ b \in Seq(Nat)
          /\ Len(b) = IF i + 1 <= n THEN n - (i + 1) + 1 ELSE 0
          /\ \A k \in 1 .. n - (i + 1) + 1 : b[k] = s[(i + 1) + k - 1]
        <3>1. \A k \in m .. n : s[k] \in Nat
            BY <2>1, <2>2
        <3>2. /\ SubSeq(s, m, n) \in Seq(Nat)
              /\ Len(SubSeq(s, m, n)) = IF m <= n THEN n - m + 1 ELSE 0
              /\ \A k \in 1 .. n - m + 1 : SubSeq(s, m, n)[k] = s[m + k - 1]
            BY <1>1, <3>1, SubSeqProperties
        <3> QED BY <2>2, <3>2
    <2> HIDE DEF b
    <2>4. Len(b) = n - i
        BY <1>1, <2>3
    <2>5. ASSUME i # n PROVE b[n - i] = s[n]
        <3>1. n - i \in 1 .. n - (i + 1) + 1 /\ (i + 1) + (n - i) - 1 = n
            BY <1>1, <2>5
        <3>2. b[n - i] = s[(i + 1) + (n - i) - 1]
            BY <2>3, <3>1
        <3> QED BY <3>1, <3>2
    <2> QED BY <2>3, <2>4, <2>5
<1>4. RemoveAt(s, i) = a \o b
    BY DEF RemoveAt, n
<1> HIDE DEF a, b
<1>5. /\ a \o b \in Seq(Nat)
      /\ Len(a \o b) = Len(a) + Len(b)
      /\ \A k \in 1 .. Len(a) + Len(b) :
            (a \o b)[k] = IF k <= Len(a) THEN a[k] ELSE b[k - Len(a)]
    BY <1>2, <1>3, ConcatProperties
<1>6. Len(a) + Len(b) = n - 1
    BY <1>1, <1>2, <1>3
<1>7. i # n => (a \o b)[n - 1] = b[n - i]
    <2>1. i # n => n - 1 \in 1 .. n - 1 /\ ~(n - 1 <= i - 1) /\ (n - 1) - (i - 1) = n - i
        BY <1>1
    <2> QED BY <1>2, <1>5, <1>6, <2>1
<1> QED BY <1>1, <1>3, <1>4, <1>5, <1>6, <1>7 DEF n

LEMMA CountingData == DataOK /\ Counting => DataOK'
<1> SUFFICES ASSUME DataOK, Counting PROVE DataOK'
    OBVIOUS
<1> USE DEF othersOfCenter, tables, gateVars, listVars
<1>1. CASE RPC_CreateCharacterInfo
    BY <1>1, AreasAssumption DEF RPC_CreateCharacterInfo, DataOK
<1>2. CASE CountUserInfoBy
    BY <1>2, AreasAssumption DEF CountUserInfoBy, DataOK
<1>3. CASE CountAnswers
    BY <1>3, AreasAssumption DEF CountAnswers, DataOK
<1>4. CASE SyncAreaBalance
    <2>1. NewCharacterNum + DBCharacterNum \in Nat
        BY DEF DataOK
    <2>2. upserts \in Seq(Nat)
        BY DEF DataOK
    <2>3. upserts' \in Seq(Nat)
        <3>1. CASE upserts' = Append(upserts, NewCharacterNum + DBCharacterNum)
            BY <2>1, <2>2, <3>1
        <3>2. CASE upserts' = upserts
            BY <2>2, <3>2
        <3> QED BY <1>4, <3>1, <3>2 DEF SyncAreaBalance
    <2> QED BY <1>4, <2>3 DEF SyncAreaBalance, DataOK
<1>5. ASSUME NEW i \in DOMAIN upserts, CountIsStored(i) PROVE DataOK'
    <2>1. upserts[i] \in Nat /\ RemoveAt(upserts, i) \in Seq(Nat)
        BY CountTaken DEF DataOK
    <2>2. real' \in [RealAreas -> {NoRow, NoGates} \cup 0 .. MaxEdits]
        BY <1>5 DEF CountIsStored, DataOK
    <2>3. edited' \in 0 .. MaxLoads
        BY <1>5 DEF CountIsStored, DataOK
    <2>4. registerCount' \in Nat /\ upserts' \in Seq(Nat)
        BY <1>5, <2>1 DEF CountIsStored
    <2> QED BY <1>5, <2>2, <2>3, <2>4 DEF CountIsStored, DataOK
<1>6. ASSUME NEW i \in DOMAIN upserts, CountIsLost(i) PROVE DataOK'
    <2>1. upserts' \in Seq(Nat)
        BY <1>6, CountTaken DEF CountIsLost, DataOK
    <2> QED BY <1>6, <2>1 DEF CountIsLost, DataOK
<1>7. CASE CenterRestarts
    BY <1>7, AreasAssumption DEF CenterRestarts, DataOK
<1> QED BY <1>1, <1>2, <1>3, <1>4, <1>5, <1>6, <1>7 DEF Counting

\* RPC_ReLoadAreaInfo and loadAreaInfo both begin a load.
LEMMA NextCases ==
    ASSUME Next
    PROVE  \/ Edit \/ loadAreaInfoFromDB \/ Counting
           \/ \E l \in loads :
                LoadFails(l) \/ RealAnswers(l) \/ ShowIsRead(l) \/ queryShowAreaCallBack(l)
           \/ \E c \in Requests : Login(c) \/ AuthAnswers(c) \/ DBAnswers(c)
BY DEF Next, loadAreaInfo, RPC_ReLoadAreaInfo, Counting

LEMMA FlagsKept == FlagsOK /\ Next => FlagsOK'
<1> SUFFICES ASSUME FlagsOK, Next PROVE FlagsOK'
    OBVIOUS
<1> USE DEF FlagsOK
<1>1. CASE Edit
    BY <1>1 DEF Edit, centerVars
<1>2. CASE loadAreaInfoFromDB
    BY <1>2 DEF loadAreaInfoFromDB, listVars, othersOfGate, centerVars
<1>3. ASSUME NEW l \in loads,
             LoadFails(l) \/ RealAnswers(l) \/ ShowIsRead(l) \/ queryShowAreaCallBack(l)
      PROVE  FlagsOK'
    BY <1>3 DEF LoadFails, RealAnswers, ShowIsRead, queryShowAreaCallBack, listVars,
        othersOfGate, centerVars
<1>4. ASSUME NEW c \in Requests, Login(c) \/ AuthAnswers(c) \/ DBAnswers(c)
      PROVE  FlagsOK'
    BY <1>4 DEF Login, AuthAnswers, DBAnswers, Logged, centerVars
<1>5. CASE Counting
    BY <1>5 DEF Counting, RPC_CreateCharacterInfo, CountUserInfoBy,
        CountAnswers, SyncAreaBalance, CountIsStored, CountIsLost, CenterRestarts, othersOfCenter,
        gateVars, listVars
<1> QED BY <1>1, <1>2, <1>3, <1>4, <1>5, NextCases

\* The state of HttpGateService, of CenterService's counters and of the tables
\* keeps its types; what is listed has a name and known gates.
THEOREM TypeCorrect == Spec => []TypeOK
<1>1. Init => TypeOK
    BY InitData DEF Init, TypeOK, FlagsOK
<1>2. TypeOK /\ [Next]_vars => TypeOK'
    <2> SUFFICES ASSUME TypeOK, [Next]_vars PROVE FlagsOK' /\ DataOK'
        BY DEF TypeOK
    <2>1. CASE Next
        <3>1. DataOK'
            BY <2>1, NextCases, EditData, BeginData, LoadData, LoginData, CountingData DEF TypeOK
        <3>2. FlagsOK'
            BY <2>1, NextCases, FlagsKept DEF TypeOK
        <3> QED BY <3>1, <3>2
    <2>2. CASE UNCHANGED vars
        BY <2>2 DEF vars, tables, gateVars, centerVars, TypeOK, FlagsOK, DataOK
    <2> QED BY <2>1, <2>2
<1> QED BY <1>1, <1>2, PTL DEF Spec

----------------------------------------------------------------------------
(* The list of areas.                                                       *)

\* Nobody logs in before the web server runs.
ServedLater == \A c \in Requests : login[c] # "none" => startListenCount = AllLoadCount

\* Whoever logs in over HTTP is given areas, whatever loads fail or overlap.
THEOREM LoginsHaveAreas == Spec => []LoginHasAreas
<1> DEFINE Inv == LoginHasAreas /\ ServedLater
<1>1. Init => Inv
    BY DEF Init, LoginHasAreas, ServedLater
<1>2. TypeOK /\ Inv /\ [Next]_vars => Inv'
    <2> SUFFICES ASSUME TypeOK, Inv, [Next]_vars PROVE Inv'
        OBVIOUS
    <2> USE DEF LoginHasAreas, ServedLater, AllLoadCount
    <2>1. CASE Edit
        BY <2>1 DEF Edit
    <2>2. CASE loadAreaInfoFromDB
        BY <2>2 DEF loadAreaInfoFromDB, listVars, othersOfGate
    <2>3. ASSUME NEW l \in loads,
                 LoadFails(l) \/ RealAnswers(l) \/ ShowIsRead(l) \/ queryShowAreaCallBack(l)
          PROVE  Inv'
        <3>1. CASE queryShowAreaCallBack(l)
            BY <3>1 DEF queryShowAreaCallBack, othersOfGate
        <3>2. CASE LoadFails(l) \/ RealAnswers(l) \/ ShowIsRead(l)
            BY <3>2 DEF LoadFails, RealAnswers, ShowIsRead, listVars, othersOfGate
        <3> QED BY <2>3, <3>1, <3>2
    <2>4. ASSUME NEW c \in Requests, Login(c) \/ AuthAnswers(c) \/ DBAnswers(c)
          PROVE  Inv'
        <3>1. CASE Login(c)
            BY <3>1 DEF Login, Logged, TypeOK, DataOK
        <3>2. CASE AuthAnswers(c)
            BY <3>2 DEF AuthAnswers, Logged, TypeOK, DataOK
        <3>3. CASE DBAnswers(c)
            BY <3>3 DEF DBAnswers, Logged, TypeOK, DataOK
        <3> QED BY <2>4, <3>1, <3>2, <3>3
    <2>5. CASE Counting
        BY <2>5 DEF Counting, RPC_CreateCharacterInfo, CountUserInfoBy,
            CountAnswers, SyncAreaBalance, CountIsStored, CountIsLost, CenterRestarts, othersOfCenter,
            gateVars, listVars
    <2>6. CASE UNCHANGED vars
        BY <2>6 DEF vars, gateVars
    <2> QED BY <2>1, <2>2, <2>3, <2>4, <2>5, <2>6, NextCases
<1> QED BY <1>1, <1>2, TypeCorrect, PTL DEF Spec

\* Until the web server runs, HttpGateService is loading or about to load,
\* unless the tables had nothing to show.
THEOREM AlwaysTrying == Spec => []KeepsTrying
<1>1. Init => KeepsTrying
    BY DEF Init, KeepsTrying
<1>2. KeepsTrying /\ [Next]_vars => KeepsTrying'
    <2> SUFFICES ASSUME KeepsTrying, [Next]_vars PROVE KeepsTrying'
        OBVIOUS
    <2> USE DEF KeepsTrying
    <2>1. CASE Edit
        BY <2>1 DEF Edit
    <2>2. CASE loadAreaInfoFromDB
        BY <2>2 DEF loadAreaInfoFromDB
    <2>3. ASSUME NEW l \in loads,
                 LoadFails(l) \/ RealAnswers(l) \/ ShowIsRead(l) \/ queryShowAreaCallBack(l)
          PROVE  KeepsTrying'
        <3>1. CASE queryShowAreaCallBack(l)
            BY <3>1 DEF queryShowAreaCallBack, AllLoadCount
        <3>2. CASE LoadFails(l) \/ RealAnswers(l) \/ ShowIsRead(l)
            BY <3>2 DEF LoadFails, RealAnswers, ShowIsRead
        <3> QED BY <2>3, <3>1, <3>2
    <2>4. ASSUME NEW c \in Requests, Login(c) \/ AuthAnswers(c) \/ DBAnswers(c)
          PROVE  KeepsTrying'
        BY <2>4 DEF Login, AuthAnswers, DBAnswers, Logged
    <2>5. CASE Counting
        BY <2>5 DEF Counting, RPC_CreateCharacterInfo, CountUserInfoBy,
            CountAnswers, SyncAreaBalance, CountIsStored, CountIsLost, CenterRestarts, othersOfCenter,
            gateVars, listVars
    <2>6. CASE UNCHANGED vars
        BY <2>6 DEF vars, gateVars
    <2> QED BY <2>1, <2>2, <2>3, <2>4, <2>5, <2>6, NextCases
<1> QED BY <1>1, <1>2, PTL DEF Spec

\* What a load in flight has read is still so, if it began after the last
\* edit, and so is what the one installed last had read.
ReadIsFresh ==
    /\ edited <= began /\ installed <= began /\ \A l \in loads : l.id <= began
    /\ \A l \in loads : l.id > edited =>
            /\ l.stage \in {"show", "answer"} => l.real = real
            /\ l.stage = "answer" => l.show = show
    /\ ReloadTakesEffect

\* The list handed out is that of the tables, as soon as a load begun after
\* the last edit has been the last to end.
THEOREM ReloadsTakeEffect == Spec => []ReloadTakesEffect
<1>1. Init => ReadIsFresh
    BY DEF Init, ReadIsFresh, ReloadTakesEffect
<1>2. TypeOK /\ ReadIsFresh /\ [Next]_vars => ReadIsFresh'
    <2> SUFFICES ASSUME DataOK, ReadIsFresh, [Next]_vars PROVE ReadIsFresh'
        BY DEF TypeOK
    <2> USE DEF ReadIsFresh, ReloadTakesEffect
    <2>1. CASE Edit
        BY <2>1 DEF Edit, DataOK, Load
    <2>2. CASE loadAreaInfoFromDB
        BY <2>2 DEF loadAreaInfoFromDB, listVars, othersOfGate, tables, DataOK, Load
    <2>3. ASSUME NEW l \in loads,
                 LoadFails(l) \/ RealAnswers(l) \/ ShowIsRead(l) \/ queryShowAreaCallBack(l)
          PROVE  ReadIsFresh'
        <3> USE DEF listVars, othersOfGate, tables
        <3>1. CASE LoadFails(l)
            BY <3>1 DEF LoadFails
        <3>2. CASE RealAnswers(l)
            BY <3>2 DEF RealAnswers, DataOK, Load
        <3>3. CASE ShowIsRead(l)
            BY <3>3 DEF ShowIsRead, DataOK, Load
        <3>4. CASE queryShowAreaCallBack(l)
            BY <3>4 DEF queryShowAreaCallBack, Listed
        <3> QED BY <2>3, <3>1, <3>2, <3>3, <3>4
    <2>4. ASSUME NEW c \in Requests, Login(c) \/ AuthAnswers(c) \/ DBAnswers(c)
          PROVE  ReadIsFresh'
        BY <2>4 DEF Login, AuthAnswers, DBAnswers, Logged, tables
    <2>5. CASE Counting
        <3>1. ASSUME NEW i \in DOMAIN upserts, CountIsStored(i) PROVE ReadIsFresh'
            <4>1. UNCHANGED <<show, loads, began, installed, mapAreaGate>>
                BY <3>1 DEF CountIsStored, listVars
            <4>2. CASE real[AreaId] = NoRow
                <5>1. edited' = began
                    BY <3>1, <4>2 DEF CountIsStored
                <5>2. began \in Nat /\ installed \in Nat /\ \A l \in loads : l.id \in Nat
                    BY DEF DataOK, Load
                <5>3. /\ ~(installed' > edited') /\ \A l \in loads' : ~(l.id > edited')
                    BY <4>1, <5>1, <5>2
                <5> QED BY <4>1, <5>1, <5>2, <5>3
            <4>3. CASE real[AreaId] # NoRow
                <5>1. real' = real
                    BY <3>1, <4>3, AreasAssumption DEF CountIsStored, DataOK
                <5>2. edited' = edited
                    BY <3>1, <4>3 DEF CountIsStored
                <5> QED BY <4>1, <5>1, <5>2
            <4> QED BY <4>2, <4>3
        <3>2. CASE UNCHANGED <<tables, gateVars>>
            BY <3>2 DEF tables, gateVars
        <3> QED BY <2>5, <3>1, <3>2 DEF Counting, RPC_CreateCharacterInfo, CountUserInfoBy,
            CountAnswers, SyncAreaBalance, CountIsLost, CenterRestarts, othersOfCenter
    <2>6. CASE UNCHANGED vars
        BY <2>6 DEF vars, tables, gateVars
    <2> QED BY <2>1, <2>2, <2>3, <2>4, <2>5, <2>6, NextCases
<1>3. ReadIsFresh => ReloadTakesEffect
    BY DEF ReadIsFresh
<1> QED BY <1>1, <1>2, <1>3, TypeCorrect, PTL DEF Spec

----------------------------------------------------------------------------
(* The number of characters.                                                *)

\* The other steps leave the counters alone.
LEMMA CountersKept ==
    ASSUME Next, ~Counting
    PROVE  UNCHANGED <<registerCount, centerVars>>
<1>1. CASE Edit
    BY <1>1 DEF Edit
<1>2. CASE loadAreaInfoFromDB
    BY <1>2 DEF loadAreaInfoFromDB, othersOfGate
<1>3. ASSUME NEW l \in loads,
             LoadFails(l) \/ RealAnswers(l) \/ ShowIsRead(l) \/ queryShowAreaCallBack(l)
      PROVE  UNCHANGED <<registerCount, centerVars>>
    BY <1>3 DEF LoadFails, RealAnswers, ShowIsRead, queryShowAreaCallBack, othersOfGate
<1>4. ASSUME NEW c \in Requests, Login(c) \/ AuthAnswers(c) \/ DBAnswers(c)
      PROVE  UNCHANGED <<registerCount, centerVars>>
    BY <1>4 DEF Login, AuthAnswers, DBAnswers, Logged
<1> QED BY <1>1, <1>2, <1>3, <1>4, NextCases

\* As long as no count is lost or overtaken on its way, the row of the area has
\* the number CenterService knows, or will have it when the last count sent is
\* stored; no change is left out, whatever overlaps, fails or restarts.
THEOREM CountsAreSynced == Spec => []CountIsSynced
<1>1. Init => CountIsSynced
    BY DEF Init, CountIsSynced
<1>2. TypeOK /\ CountIsSynced /\ [Next]_vars => CountIsSynced'
    <2> SUFFICES ASSUME DataOK, CountIsSynced, [Next]_vars PROVE CountIsSynced'
        BY DEF TypeOK
    <2> DEFINE n == Len(upserts)
    <2>0. n \in Nat /\ upserts \in Seq(Nat) /\ (upserts = <<>> <=> n = 0)
        BY DEF DataOK
    <2> USE DEF CountIsSynced
    <2>1. CASE RPC_CreateCharacterInfo
        BY <2>1 DEF RPC_CreateCharacterInfo
    <2>2. CASE CountUserInfoBy
        BY <2>2 DEF CountUserInfoBy
    <2>3. CASE CountAnswers
        BY <2>3 DEF CountAnswers
    <2>4. CASE SyncAreaBalance
        <3>1. CASE countLost' = TRUE
            BY <3>1
        <3>2. CASE upserts' = Append(upserts, NewCharacterNum + DBCharacterNum)
            <4>1. /\ upserts' # <<>>
                  /\ upserts'[Len(upserts')] = NewCharacterNum + DBCharacterNum
                BY <3>2 DEF DataOK
            <4>2. NewCharacterNum + DBCharacterNum = DBCharacterNum + NewCharacterNum
                BY DEF DataOK
            <4> QED BY <2>4, <4>1, <4>2 DEF SyncAreaBalance
        <3> QED BY <2>4, <3>1, <3>2 DEF SyncAreaBalance
    \* A count that is not the last leaves the last where it is.
    <2>5. ASSUME NEW i \in DOMAIN upserts, i # n, upserts' = RemoveAt(upserts, i)
          PROVE  upserts' # <<>> /\ upserts # <<>> /\ upserts'[Len(upserts')] = upserts[n]
        <3>1. /\ i \in 1 .. n /\ upserts' \in Seq(Nat) /\ Len(upserts') = n - 1
              /\ upserts'[n - 1] = upserts[n]
            BY <2>0, <2>5, CountTaken
        <3>2. n - 1 # 0
            BY <2>0, <2>5, <3>1
        <3> QED BY <2>0, <3>1, <3>2
    <2>6. ASSUME NEW i \in DOMAIN upserts, CountIsStored(i) PROVE CountIsSynced'
        <3>1. CASE i # n
            BY <2>5, <2>6, <3>1 DEF CountIsStored
        <3>2. CASE i = n /\ i > 1
            BY <2>6, <3>2 DEF CountIsStored
        <3>3. CASE i = n /\ i = 1
            <4>1. upserts' \in Seq(Nat) /\ Len(upserts') = 0
                <5>1. upserts' \in Seq(Nat) /\ Len(upserts') = n - 1
                    BY <2>0, <2>6, CountTaken DEF CountIsStored
                <5>2. n - 1 = 0
                    BY <3>3
                <5> QED BY <5>1, <5>2
            <4>2. upserts' = <<>> /\ upserts # <<>>
                BY <2>0, <3>3, <4>1
            <4>3. registerCount' = upserts[n]
                BY <2>6, <3>3 DEF CountIsStored
            <4> QED BY <2>6, <4>2, <4>3 DEF CountIsStored
        <3>4. i \in 1 .. n
            BY <2>0
        <3> QED BY <2>0, <3>1, <3>2, <3>3, <3>4
    <2>7. ASSUME NEW i \in DOMAIN upserts, CountIsLost(i) PROVE CountIsSynced'
        BY <2>5, <2>7 DEF CountIsLost
    <2>8. CASE CenterRestarts
        BY <2>8 DEF CenterRestarts
    <2>9. CASE UNCHANGED <<registerCount, centerVars>>
        BY <2>9 DEF centerVars
    <2> QED BY <2>1, <2>2, <2>3, <2>4, <2>6, <2>7, <2>8, <2>9, CountersKept
        DEF Counting, vars
<1> QED BY <1>1, <1>2, TypeCorrect, PTL DEF Spec
=============================================================================
