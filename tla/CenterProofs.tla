---------------------------- MODULE CenterProofs ----------------------------
(* What CenterService guarantees for every set of users and GameServices.  *)
EXTENDS Center, FiniteSetTheorems, TLAPS

----------------------------------------------------------------------------
(* The helpers stay within their types.                                     *)

BalanceMap == [GameServices -> BalanceInfo \cup {NoBalance}]

LEMMA RefreshType ==
    ASSUME NEW b \in BalanceMap, NEW d \in [GameServices -> Int]
    PROVE  /\ refreshBalance(b, d) \in BalanceMap
           /\ \A g \in GameServices :
                refreshBalance(b, d)[g] = NoBalance <=> b[g] = NoBalance
BY CenterAssumption DEF refreshBalance, BalanceMap, BalanceInfo

LEMMA FreedType ==
    ASSUME NEW D \in SUBSET Users
    PROVE  Freed(D) \in [GameServices -> Int]
<1> SUFFICES ASSUME NEW g \in GameServices
             PROVE  Cardinality({u \in D : mapUserInfo[u].gs = g}) \in Int
    BY DEF Freed
<1>1. IsFiniteSet({u \in D : mapUserInfo[u].gs = g})
    BY FS_Subset, CenterAssumption
<1> QED BY <1>1, FS_CardinalityType

LEMMA ChargedType ==
    ASSUME NEW h, NEW n \in Nat
    PROVE  Charged(h, n) \in [GameServices -> Int]
BY DEF Charged

\* What the proofs below use of each handler: the maps keep their types, and
\* the same GameServices are registered unless the handler says otherwise.
SameRegistered == \A g \in GameServices : Registered(g)' <=> Registered(g)

LEMMA RefreshKeeps ==
    ASSUME NEW d \in [GameServices -> Int], mapBalance \in BalanceMap,
           mapBalance' = refreshBalance(mapBalance, d)
    PROVE  mapBalance' \in BalanceMap /\ SameRegistered
BY RefreshType DEF SameRegistered, Registered

----------------------------------------------------------------------------
(* Type correctness.                                                        *)

LEMMA InitType == Init => TypeOK
BY DEF Init, TypeOK, Timer

LEMMA LoginType ==
    ASSUME TypeOK, NEW u \in Users, NEW g \in GameServices \cup {NoGS}, RPC_Login(u, g)
    PROVE  TypeOK'
<1>1. CASE LoginKnown(u, g)
    BY <1>1 DEF LoginKnown, TypeOK, addUserInfo, UserInfo, Status, Known, Timer
<1>2. CASE LoginNew(u, g)
    <2>1. PICK dropped \in SUBSET priorityQueue :
             /\ getBestGameServiceNodeId(g, dropped)
             /\ priorityQueue' = priorityQueue \ dropped
             /\ mapBalance' = refreshBalance(RemoveBalance(mapBalance, dropped), Charged(g, 1))
        BY <1>2 DEF LoginNew
    <2>2. RemoveBalance(mapBalance, dropped) \in BalanceMap
        BY DEF RemoveBalance, BalanceMap, TypeOK
    <2>3. mapBalance' \in BalanceMap
        BY <2>1, <2>2, RefreshType, ChargedType
    <2>4. mapUserInfo' \in [Users -> UserInfo \cup {NoUser}] /\ mapLogining' \in [Users -> Timer]
        BY <1>2 DEF LoginNew, TypeOK, addUserInfo, UserInfo, Status, Timer
    <2> QED BY <1>2, <2>1, <2>3, <2>4 DEF LoginNew, TypeOK, BalanceMap
<1> QED BY <1>1, <1>2 DEF RPC_Login

LEMMA StatusType ==
    ASSUME TypeOK, NEW u \in Users, NEW st \in Reports, NEW g \in GameServices,
           RPC_UpdateStatus(u, st, g)
    PROVE  TypeOK'
<1>1. CASE st = "LoginOuted"
    <2>1. mapBalance' \in BalanceMap
        <3>1. Freed({u}) \in [GameServices -> Int]
            BY FreedType
        <3> QED BY <1>1, <3>1, RefreshType DEF RPC_UpdateStatus, LogOuted, TypeOK, BalanceMap
    <2> QED BY <1>1, <2>1 DEF RPC_UpdateStatus, LogOuted, TypeOK, delUserInfo, Timer, BalanceMap
<1>2. CASE st # "LoginOuted"
    <2>1. mapBalance' \in BalanceMap
        <3>1. Charged(g, 1) \in [GameServices -> Int]
            BY ChargedType
        <3> QED BY <1>2, <3>1, RefreshType DEF RPC_UpdateStatus, StoreStatus, TypeOK, BalanceMap
    <2>2. st \in Status
        BY <1>2, CenterAssumption DEF ReportStatus, Status
    <2> QED BY <1>2, <2>1, <2>2
            DEF RPC_UpdateStatus, StoreStatus, TypeOK, addUserInfo, UserInfo, Timer, BalanceMap
<1> QED BY <1>1, <1>2

LEMMA BalanceType ==
    ASSUME TypeOK, NEW g \in GameServices, NEW w \in Weighs, RPC_UpdateBalance(g, w)
    PROVE  TypeOK'
<1>1. -w \in Int
    BY CenterAssumption
<1>2. CASE Registered(g)
    BY <1>2 DEF RPC_UpdateBalance, Registered, TypeOK, BalanceInfo
<1>3. CASE ~Registered(g)
    BY <1>1, <1>3 DEF RPC_UpdateBalance, Registered, TypeOK, BalanceInfo
<1> QED BY <1>2, <1>3

LEMMA UserListType ==
    ASSUME TypeOK, NEW g \in GameServices, NEW list \in SUBSET Users,
           RPC_UpdateUserList(g, list)
    PROVE  TypeOK'
<1> DEFINE old == UsersOfNode(g[1])
<1>1. Freed(old) \in [GameServices -> Int]
    BY FreedType DEF UsersOfNode
<1>2. Cardinality(list) \in Nat
    BY FS_Subset, FS_CardinalityType, CenterAssumption
<1>3. Charged(g, Cardinality(list)) \in [GameServices -> Int]
    BY <1>2, ChargedType
<1>4. mapBalance' = refreshBalance(refreshBalance(mapBalance, Freed(old)),
                                   Charged(g, Cardinality(list)))
    BY DEF RPC_UpdateUserList, EnterList
<1>5. mapBalance' \in BalanceMap
    BY <1>1, <1>3, <1>4, RefreshType DEF TypeOK, BalanceMap
<1>6. mapUserInfo' \in [Users -> UserInfo \cup {NoUser}]
    BY DEF RPC_UpdateUserList, EnterList, TypeOK, delUserInfo, UserInfo, Status
<1>7. mapLogining' \in [Users -> Timer]
    BY DEF RPC_UpdateUserList, TypeOK, Timer
<1> QED BY <1>5, <1>6, <1>7 DEF RPC_UpdateUserList, EnterList, TypeOK, BalanceMap

LEMMA TimeoutType ==
    ASSUME TypeOK, CheckLoginTimeout
    PROVE  TypeOK'
<1> DEFINE deleted == LoginingTimedOut \cup OutingTimedOut
<1>1. Freed(deleted) \in [GameServices -> Int]
    BY FreedType DEF LoginingTimedOut, OutingTimedOut
<1>2. mapBalance' \in BalanceMap
    BY <1>1, RefreshType DEF CheckLoginTimeout, TypeOK, BalanceMap
<1>3. mapUserInfo' \in [Users -> UserInfo \cup {NoUser}]
    BY DEF CheckLoginTimeout, delUserInfo, TypeOK
<1>4. mapLogining' \in [Users -> Timer] /\ mapOuting' \in [Users -> Timer]
    BY DEF CheckLoginTimeout, TypeOK, Timer
<1> QED BY <1>2, <1>3, <1>4 DEF CheckLoginTimeout, TypeOK, BalanceMap

LEMMA EnvironmentType ==
    ASSUME TypeOK,
           \/ \E u \in Users : LoginingExpires(u) \/ OutingExpires(u)
           \/ \E g \in GameServices : BalanceExpires(g)
           \/ ClusterChange
           \/ UNCHANGED vars
    PROVE  TypeOK'
<1>1. ASSUME NEW u \in Users, LoginingExpires(u) PROVE TypeOK'
    BY <1>1 DEF LoginingExpires, TypeOK, Timer
<1>2. ASSUME NEW u \in Users, OutingExpires(u) PROVE TypeOK'
    BY <1>2 DEF OutingExpires, TypeOK, Timer
<1>3. ASSUME NEW g \in GameServices, BalanceExpires(g) PROVE TypeOK'
    BY <1>3 DEF BalanceExpires, Registered, TypeOK, BalanceInfo
<1>4. CASE ClusterChange
    BY <1>4 DEF ClusterChange, centerVars, TypeOK
<1>5. CASE UNCHANGED vars
    BY <1>5 DEF vars, centerVars, TypeOK
<1> QED BY <1>1, <1>2, <1>3, <1>4, <1>5

LEMMA StepType == TypeOK /\ [Next]_vars => TypeOK'
<1> SUFFICES ASSUME TypeOK, [Next]_vars PROVE TypeOK'
    OBVIOUS
<1> QED BY LoginType, StatusType, BalanceType, UserListType, TimeoutType,
           EnvironmentType DEF Next

\* The maps of CenterService keep their types: in particular only the statuses
\* Logining, Logined and LoginOuting are ever stored.
THEOREM TypeCorrect == Spec => []TypeOK
<1>1. TypeOK /\ [Next]_vars => TypeOK'
    BY StepType
<1> QED BY InitType, <1>1, PTL DEF Spec

----------------------------------------------------------------------------
(* Login timers.                                                            *)

LEMMA InitTimed == Init => LoginingIsTimed
BY DEF Init, LoginingIsTimed, HasStatus, Known

LEMMA LoginTimed ==
    ASSUME TypeOK, LoginingIsTimed,
           NEW u \in Users, NEW g \in GameServices \cup {NoGS}, RPC_Login(u, g)
    PROVE  LoginingIsTimed'
<1>1. CASE mapUserInfo' = mapUserInfo /\ mapLogining' = mapLogining
    BY <1>1 DEF LoginingIsTimed, HasStatus, Known
<1>2. CASE /\ mapUserInfo' = addUserInfo(u, "Logining", g)
           /\ mapLogining' = [mapLogining EXCEPT ![u] = "fresh"]
    BY <1>2 DEF TypeOK, LoginingIsTimed, HasStatus, Known, addUserInfo
<1> QED BY <1>1, <1>2 DEF RPC_Login, LoginKnown, LoginNew

LEMMA StatusTimed ==
    ASSUME TypeOK, LoginingIsTimed,
           NEW u \in Users, NEW st \in Reports, NEW g \in GameServices,
           RPC_UpdateStatus(u, st, g)
    PROVE  LoginingIsTimed'
<1>1. CASE st = "LoginOuted"
    BY <1>1 DEF RPC_UpdateStatus, LogOuted, delUserInfo, TypeOK, LoginingIsTimed,
                HasStatus, Known
<1>2. CASE st # "LoginOuted"
    \* st # "Logining": that report is rejected
    <2>1. st # "Logining"
        BY CenterAssumption DEF ReportStatus
    <2> QED BY <1>2, <2>1 DEF RPC_UpdateStatus, StoreStatus, addUserInfo, TypeOK,
                              LoginingIsTimed, HasStatus, Known
<1> QED BY <1>1, <1>2

LEMMA UserListTimed ==
    ASSUME TypeOK, LoginingIsTimed,
           NEW g \in GameServices, NEW list \in SUBSET Users, RPC_UpdateUserList(g, list)
    PROVE  LoginingIsTimed'
<1> SUFFICES ASSUME NEW u \in Users, HasStatus(u, "Logining")'
             PROVE  mapLogining[u]' # "none"
    BY DEF LoginingIsTimed
<1>1. u \notin list /\ u \notin UsersOfNode(g[1]) /\ mapUserInfo'[u] = mapUserInfo[u]
    BY DEF HasStatus, Known, RPC_UpdateUserList, EnterList, delUserInfo
<1> QED BY <1>1 DEF RPC_UpdateUserList, LoginingIsTimed, HasStatus, Known

LEMMA TimeoutTimed ==
    ASSUME TypeOK, LoginingIsTimed, CheckLoginTimeout
    PROVE  LoginingIsTimed'
<1> SUFFICES ASSUME NEW u \in Users, HasStatus(u, "Logining")'
             PROVE  mapLogining[u]' # "none"
    BY DEF LoginingIsTimed
<1>1. u \notin LoginingTimedOut /\ mapUserInfo'[u] = mapUserInfo[u]
    BY DEF HasStatus, Known, CheckLoginTimeout, delUserInfo
<1>2. HasStatus(u, "Logining")
    BY <1>1 DEF HasStatus, Known
<1>3. mapLogining[u] # "none" /\ mapLogining[u] # "expired"
    BY <1>1, <1>2 DEF LoginingTimedOut, LoginingIsTimed, HasStatus
<1> QED BY <1>3 DEF CheckLoginTimeout

LEMMA StepTimed == TypeOK /\ LoginingIsTimed /\ [Next]_vars => LoginingIsTimed'
<1> SUFFICES ASSUME TypeOK, LoginingIsTimed, [Next]_vars PROVE LoginingIsTimed'
    OBVIOUS
<1> USE DEF LoginingIsTimed, HasStatus, Known
<1>1. ASSUME NEW g \in GameServices, NEW w \in Weighs, RPC_UpdateBalance(g, w)
      PROVE  LoginingIsTimed'
    BY <1>1 DEF RPC_UpdateBalance
<1>2. ASSUME NEW u \in Users, LoginingExpires(u) PROVE LoginingIsTimed'
    BY <1>2 DEF LoginingExpires, TypeOK
<1>3. ASSUME NEW u \in Users, OutingExpires(u) PROVE LoginingIsTimed'
    BY <1>3 DEF OutingExpires
<1>4. ASSUME NEW g \in GameServices, BalanceExpires(g) PROVE LoginingIsTimed'
    BY <1>4 DEF BalanceExpires
<1>5. CASE ClusterChange
    BY <1>5 DEF ClusterChange, centerVars
<1>6. CASE UNCHANGED vars
    BY <1>6 DEF vars, centerVars
<1> QED BY <1>1, <1>2, <1>3, <1>4, <1>5, <1>6, LoginTimed, StatusTimed, UserListTimed,
           TimeoutTimed DEF Next

\* No user is ever in status Logining without a running login timer.
THEOREM LoginsAreTimed == Spec => []LoginingIsTimed
<1>1. TypeOK /\ LoginingIsTimed /\ [Next]_vars => LoginingIsTimed'
    BY StepTimed
<1> QED BY InitTimed, <1>1, TypeCorrect, PTL DEF Spec

----------------------------------------------------------------------------
(* The queue and the balance map.                                           *)

LEMMA QueueKept ==
    ASSUME QueueIsBalance, SameRegistered, UNCHANGED priorityQueue
    PROVE  QueueIsBalance'
BY DEF QueueIsBalance, SameRegistered

LEMMA LoginQueue ==
    ASSUME TypeOK, QueueIsBalance,
           NEW u \in Users, NEW g \in GameServices \cup {NoGS}, RPC_Login(u, g)
    PROVE  QueueIsBalance'
<1>1. CASE LoginKnown(u, g)
    BY <1>1 DEF LoginKnown, QueueIsBalance, Registered
<1>2. CASE LoginNew(u, g)
    <2>1. PICK dropped \in SUBSET priorityQueue :
             /\ priorityQueue' = priorityQueue \ dropped
             /\ mapBalance' = refreshBalance(RemoveBalance(mapBalance, dropped), Charged(g, 1))
        BY <1>2 DEF LoginNew
    <2>2. RemoveBalance(mapBalance, dropped) \in BalanceMap
        BY DEF RemoveBalance, BalanceMap, TypeOK
    <2>3. \A h \in GameServices : Registered(h)' <=> Registered(h) /\ h \notin dropped
        BY <2>1, <2>2, RefreshType, ChargedType DEF RemoveBalance, Registered
    <2> QED BY <2>1, <2>3 DEF QueueIsBalance
<1> QED BY <1>1, <1>2 DEF RPC_Login

LEMMA StepQueue == TypeOK /\ QueueIsBalance /\ [Next]_vars => QueueIsBalance'
<1> SUFFICES ASSUME TypeOK, QueueIsBalance, [Next]_vars PROVE QueueIsBalance'
    OBVIOUS
<1>0. mapBalance \in BalanceMap
    BY DEF TypeOK, BalanceMap
<1>1. ASSUME NEW u \in Users, NEW st \in Reports, NEW g \in GameServices,
             RPC_UpdateStatus(u, st, g)
      PROVE  QueueIsBalance'
    <2>1. Freed({u}) \in [GameServices -> Int] /\ Charged(g, 1) \in [GameServices -> Int]
        BY FreedType, ChargedType
    <2>2. SameRegistered
        BY <1>0, <1>1, <2>1, RefreshKeeps
           DEF RPC_UpdateStatus, LogOuted, StoreStatus, SameRegistered, Registered
    <2> QED BY <1>1, <2>2, QueueKept DEF RPC_UpdateStatus, LogOuted, StoreStatus
<1>2. ASSUME NEW g \in GameServices, NEW w \in Weighs, RPC_UpdateBalance(g, w)
      PROVE  QueueIsBalance'
    <2>1. [priority |-> -w, refresh |-> "fresh"] # NoBalance
        BY CenterAssumption DEF BalanceInfo
    <2>2. Registered(g) => [mapBalance[g] EXCEPT !.refresh = "fresh"] # NoBalance
        BY <1>0, CenterAssumption DEF BalanceMap, BalanceInfo, Registered
    <2>3. \A h \in GameServices : Registered(h)' <=> Registered(h) \/ h = g
        BY <1>0, <1>2, <2>1, <2>2 DEF RPC_UpdateBalance, Registered, BalanceMap
    <2> QED BY <1>2, <2>3 DEF RPC_UpdateBalance, QueueIsBalance
<1>3. ASSUME NEW g \in GameServices, NEW list \in SUBSET Users, RPC_UpdateUserList(g, list)
      PROVE  QueueIsBalance'
    <2> DEFINE b == refreshBalance(mapBalance, Freed(UsersOfNode(g[1])))
               d == Charged(g, Cardinality(list))
    <2>1. Cardinality(list) \in Nat
        BY FS_Subset, FS_CardinalityType, CenterAssumption
    <2>2. d \in [GameServices -> Int]
        BY <2>1, ChargedType
    <2>3. Freed(UsersOfNode(g[1])) \in [GameServices -> Int]
        BY FreedType DEF UsersOfNode
    <2>4. /\ b \in BalanceMap
          /\ \A h \in GameServices : b[h] = NoBalance <=> mapBalance[h] = NoBalance
        BY <1>0, <2>3, RefreshType
    <2>5. mapBalance' = refreshBalance(b, d)
        BY <1>3 DEF RPC_UpdateUserList, EnterList
    <2> HIDE DEF b, d
    <2>6. SameRegistered
        BY <2>2, <2>4, <2>5, RefreshType DEF SameRegistered, Registered
    <2> QED BY <1>3, <2>6, QueueKept DEF RPC_UpdateUserList, EnterList
<1>4. CASE CheckLoginTimeout
    <2>1. Freed(LoginingTimedOut \cup OutingTimedOut) \in [GameServices -> Int]
        BY FreedType DEF LoginingTimedOut, OutingTimedOut
    <2>2. SameRegistered
        BY <1>0, <1>4, <2>1, RefreshKeeps DEF CheckLoginTimeout
    <2> QED BY <1>4, <2>2, QueueKept DEF CheckLoginTimeout
<1>5. ASSUME NEW g \in GameServices, BalanceExpires(g) PROVE QueueIsBalance'
    <2>1. SameRegistered
        BY <1>0, <1>5, CenterAssumption
           DEF BalanceExpires, SameRegistered, Registered, BalanceMap, BalanceInfo
    <2> QED BY <1>5, <2>1, QueueKept DEF BalanceExpires
<1>6. CASE \/ \E u \in Users : LoginingExpires(u) \/ OutingExpires(u)
           \/ ClusterChange
           \/ UNCHANGED vars
    BY <1>6 DEF LoginingExpires, OutingExpires, ClusterChange, vars, centerVars,
                QueueIsBalance, Registered
<1> QED BY <1>1, <1>2, <1>3, <1>4, <1>5, <1>6, LoginQueue DEF Next

\* Exactly the registered GameServices are in the queue.
THEOREM QueueCorrect == Spec => []QueueIsBalance
<1>1. Init => QueueIsBalance
    BY DEF Init, QueueIsBalance, Registered
<1>2. TypeOK /\ QueueIsBalance /\ [Next]_vars => QueueIsBalance'
    BY StepQueue
<1> QED BY <1>1, <1>2, TypeCorrect, PTL DEF Spec

----------------------------------------------------------------------------
(* GameServices that report no logout in progress.                          *)

NoOuting == \A u \in Users : mapOuting[u] = "none"
TimerInv == TypeOK /\ NoOuting /\ TimerHasUser

LEMMA StepTimer ==
    ASSUME "LoginOuting" \notin Reports, TimerInv, [Next]_vars
    PROVE  NoOuting' /\ TimerHasUser'
<1> USE DEF TimerInv, NoOuting, TimerHasUser, Known
<1>1. ASSUME NEW u \in Users, NEW g \in GameServices \cup {NoGS}, RPC_Login(u, g)
      PROVE  NoOuting' /\ TimerHasUser'
    <2>1. CASE LoginKnown(u, g)
        BY <1>1, <2>1, CenterAssumption DEF LoginKnown, addUserInfo, TypeOK, UserInfo, Status
    <2>2. CASE LoginNew(u, g)
        <3>1. CASE g = NoGS
            BY <2>2, <3>1 DEF LoginNew
        <3>2. CASE g # NoGS
            BY <2>2, <3>2, CenterAssumption DEF LoginNew, addUserInfo, TypeOK, UserInfo, Status
        <3> QED BY <3>1, <3>2
    <2> QED BY <1>1, <2>1, <2>2 DEF RPC_Login
<1>2. ASSUME NEW u \in Users, NEW st \in Reports, NEW g \in GameServices,
             RPC_UpdateStatus(u, st, g)
      PROVE  NoOuting' /\ TimerHasUser'
    <2>1. CASE st = "LoginOuted"
        BY <1>2, <2>1 DEF RPC_UpdateStatus, LogOuted, delUserInfo, TypeOK
    <2>2. CASE st # "LoginOuted"
        BY <1>2, <2>2, CenterAssumption DEF RPC_UpdateStatus, StoreStatus, addUserInfo, TypeOK,
                                            UserInfo, Status
    <2> QED BY <2>1, <2>2
<1>3. ASSUME NEW g \in GameServices, NEW list \in SUBSET Users, RPC_UpdateUserList(g, list)
      PROVE  NoOuting' /\ TimerHasUser'
    BY <1>3, CenterAssumption DEF RPC_UpdateUserList, EnterList, delUserInfo, UserInfo, Status
<1>4. CASE CheckLoginTimeout
    <2>1. OutingTimedOut = {}
        BY DEF OutingTimedOut
    <2>2. \A u \in Users : u \in LoginingTimedOut => mapLogining'[u] = "none"
        BY <1>4 DEF CheckLoginTimeout, LoginingTimedOut
    <2>3. \A u \in Users : mapLogining'[u] # "none" =>
              mapLogining[u] # "none" /\ mapUserInfo'[u] = mapUserInfo[u]
        BY <1>4, <2>1, <2>2 DEF CheckLoginTimeout, delUserInfo
    <2> QED BY <1>4, <2>3 DEF CheckLoginTimeout
<1>5. ASSUME NEW u \in Users, LoginingExpires(u) PROVE NoOuting' /\ TimerHasUser'
    BY <1>5 DEF LoginingExpires, TypeOK
<1>6. ASSUME NEW u \in Users, OutingExpires(u) PROVE NoOuting' /\ TimerHasUser'
    BY <1>6 DEF OutingExpires
<1>7. CASE \/ \E g \in GameServices, w \in Weighs : RPC_UpdateBalance(g, w)
           \/ \E g \in GameServices : BalanceExpires(g)
           \/ ClusterChange
           \/ UNCHANGED vars
    BY <1>7 DEF RPC_UpdateBalance, BalanceExpires, ClusterChange, vars, centerVars
<1> QED BY <1>1, <1>2, <1>3, <1>4, <1>5, <1>6, <1>7 DEF Next

\* When no logout in progress is reported, every login timer belongs to a
\* registered user.
THEOREM TimersHaveUsers ==
    ASSUME "LoginOuting" \notin Reports
    PROVE  Spec => []TimerHasUser
<1>1. Init => NoOuting /\ TimerHasUser
    BY DEF Init, NoOuting, TimerHasUser
<1>2. TypeOK /\ (NoOuting /\ TimerHasUser) /\ [Next]_vars => (NoOuting /\ TimerHasUser)'
    BY StepTimer DEF TimerInv
<1> QED BY <1>1, <1>2, TypeCorrect, PTL DEF Spec

----------------------------------------------------------------------------
(* Logins never move a registered user.                                     *)

Sticky == \A u \in Users :
    (Known(u) /\ Known(u)' /\ mapUserInfo[u].gs # mapUserInfo'[u].gs)
        => mapUserInfo'[u].status # "Logining"

LEMMA StepSticky == TypeOK /\ [Next]_vars => [Sticky]_vars
<1> SUFFICES ASSUME TypeOK, Next PROVE Sticky
    OBVIOUS
<1> SUFFICES ASSUME NEW u \in Users, Known(u), Known(u)',
                    mapUserInfo[u].gs # mapUserInfo'[u].gs
             PROVE  mapUserInfo'[u].status # "Logining"
    BY DEF Sticky
<1>1. ASSUME NEW v \in Users, NEW g \in GameServices \cup {NoGS}, RPC_Login(v, g)
      PROVE  FALSE
    BY <1>1 DEF RPC_Login, LoginKnown, LoginNew, addUserInfo, Known, TypeOK
<1>2. ASSUME NEW v \in Users, NEW st \in Reports, NEW g \in GameServices,
             RPC_UpdateStatus(v, st, g)
      PROVE  mapUserInfo'[u].status # "Logining"
    BY <1>2, CenterAssumption DEF RPC_UpdateStatus, LogOuted, StoreStatus, addUserInfo,
                                  delUserInfo, TypeOK, Known, ReportStatus
<1>3. ASSUME NEW g \in GameServices, NEW list \in SUBSET Users, RPC_UpdateUserList(g, list)
      PROVE  mapUserInfo'[u].status # "Logining"
    BY <1>3 DEF RPC_UpdateUserList, EnterList, delUserInfo, Known
<1>4. CASE CheckLoginTimeout
    BY <1>4 DEF CheckLoginTimeout, delUserInfo, Known
<1>5. CASE \/ \E g \in GameServices, w \in Weighs : RPC_UpdateBalance(g, w)
           \/ \E v \in Users : LoginingExpires(v)
           \/ \E v \in Users : OutingExpires(v)
           \/ \E g \in GameServices : BalanceExpires(g)
           \/ ClusterChange
    BY <1>5 DEF RPC_UpdateBalance, LoginingExpires, OutingExpires, BalanceExpires,
                ClusterChange, centerVars
<1> QED BY <1>1, <1>2, <1>3, <1>4, <1>5 DEF Next

\* A login never moves a registered user to another GameService.
THEOREM LoginsAreSticky == Spec => AssignmentSticky
<1>1. TypeOK /\ [Next]_vars => [Sticky]_vars
    BY StepSticky
<1>2. Spec => [][Sticky]_vars
    BY <1>1, TypeCorrect, PTL DEF Spec
<1> QED BY <1>2 DEF AssignmentSticky, Sticky
=============================================================================
