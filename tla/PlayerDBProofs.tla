--------------------------- MODULE PlayerDBProofs ----------------------------
(* What the Players of a GameService keep of the users' documents, for any   *)
(* number of users, objects, tables, lives and changes.                      *)
EXTENDS PlayerRows, FiniteSetTheorems, TLAPS

----------------------------------------------------------------------------
(* Tables and queues.                                                        *)

LEMMA Totals ==
    /\ IsFiniteSet(Tables) /\ totalProgress \in Nat
    /\ totalProgress = Cardinality(MultiTables) + 1
    /\ Cardinality(MultiTables) \in Nat
<1>1. Tables = MultiTables \cup {UserInfo}
    BY DEF Tables
<1>2. IsFiniteSet(MultiTables) /\ UserInfo \notin MultiTables
    BY PlayerDBAssumption
<1> QED BY <1>1, <1>2, FS_AddElement, FS_CardinalityType DEF totalProgress

\* What the queue of a user will have made of the row r.
Value(q, r) == IF Upsets(q) = {} THEN r ELSE q[Max(Upsets(q))].data

LEMMA RequestFacts ==
    /\ \A r \in Request : r.op = "upset" => r.data \in Data
    /\ \A r \in Request : r.op = "find" => r.key \in Lives /\ r = Find(r.key)
    /\ \A r \in Request : r.op \in {"find", "upset"}
    /\ \A k \in Lives : Find(k) \in Request /\ Find(k).op = "find" /\ Find(k).key = k
    /\ \A d \in Data : Upset(d) \in Request /\ Upset(d).op = "upset" /\ Upset(d).data = d
BY DEF Request, Find, Upset

\* A nonempty set of places has a last one.
LEMMA LastPlace ==
    ASSUME NEW n \in Nat, NEW S \in SUBSET (1 .. n), S # {}
    PROVE  Max(S) \in S /\ \A j \in S : j <= Max(S)
<1> DEFINE R == OpToRel(<, Nat)
           T == {n - i : i \in S}
<1>1. IsWellFoundedOn(R, Nat)
    BY NatLessThanWellFounded
<1>2. \A x, y \in Nat : x < y => <<x, y>> \in R
    BY DEF OpToRel
<1>3. T \subseteq Nat /\ T # {}
    OBVIOUS
<1> HIDE DEF R
<1>4. PICK x \in T : \A y \in T : ~(<<y, x>> \in R)
    <2> HIDE DEF T
    <2> QED BY <1>1, <1>3, WFMin
<1>5. \A y \in T : ~(y < x)
    <2> HIDE DEF T
    <2> QED BY <1>2, <1>3, <1>4
<1>6. PICK i \in S : x = n - i
    BY <1>4
<1>7. \A j \in S : j <= i
    <2> SUFFICES ASSUME NEW j \in S PROVE j <= i
        OBVIOUS
    <2>1. ~(n - j < x)
        BY <1>5
    <2> QED BY <2>1, <1>6
<1>8. \E m \in S : \A j \in S : m >= j
    BY <1>7
<1>9. Max(S) \in S /\ \A j \in S : Max(S) >= j
    BY <1>8 DEF Max
<1> QED BY <1>9

LEMMA LastPlaceIs ==
    ASSUME NEW S \in SUBSET Nat, NEW i \in S, \A j \in S : j <= i
    PROVE  Max(S) = i
<1>1. \E m \in S : \A j \in S : m >= j
    OBVIOUS
<1>2. Max(S) \in S /\ \A j \in S : Max(S) >= j
    BY <1>1 DEF Max
<1> DEFINE m == Max(S)
<1> HIDE DEF m
<1>3. m \in Nat /\ i \in Nat /\ m >= i /\ m <= i
    BY <1>2 DEF m
<1>4. m = i
    BY <1>3
<1> QED BY <1>4 DEF m

LEMMA UpsetsType ==
    ASSUME NEW q \in Seq(Request)
    PROVE  Upsets(q) \in SUBSET (1 .. Len(q)) /\ Upsets(q) \in SUBSET Nat
BY DEF Upsets

LEMMA ValueIs ==
    ASSUME NEW q \in Seq(Request), NEW r
    PROVE  \/ Upsets(q) = {} /\ Value(q, r) = r
           \/ \E i \in Upsets(q) :
                /\ \A j \in Upsets(q) : j <= i
                /\ Value(q, r) = q[i].data
<1>1. CASE Upsets(q) = {}
    BY <1>1 DEF Value
<1>2. CASE Upsets(q) # {}
    <2>1. Max(Upsets(q)) \in Upsets(q) /\ \A j \in Upsets(q) : j <= Max(Upsets(q))
        <3>1. Len(q) \in Nat /\ Upsets(q) \in SUBSET (1 .. Len(q))
            BY UpsetsType
        <3> QED BY <1>2, <3>1, LastPlace
    <2> QED BY <1>2, <2>1 DEF Value
<1> QED BY <1>1, <1>2

LEMMA ValueLast ==
    ASSUME NEW q \in Seq(Request), NEW r, NEW i \in Upsets(q), \A j \in Upsets(q) : j <= i
    PROVE  Value(q, r) = q[i].data
<1>1. Max(Upsets(q)) = i
    BY UpsetsType, LastPlaceIs
<1> QED BY <1>1 DEF Value

LEMMA AppendFind ==
    ASSUME NEW q \in Seq(Request), NEW k \in Lives, NEW r
    PROVE  LET p == Append(q, Find(k)) IN
           /\ p \in Seq(Request)
           /\ \A i \in DOMAIN q : p[i] = q[i]
           /\ \A i \in DOMAIN p :
                \/ i \in DOMAIN q /\ p[i] = q[i]
                \/ i = Len(q) + 1 /\ p[i] = Find(k)
           /\ Upsets(p) = Upsets(q) /\ Value(p, r) = Value(q, r)
<1> DEFINE p == Append(q, Find(k))
<1>1. Find(k) \in Request /\ Find(k).op # "upset"
    BY RequestFacts
<1>2. /\ p \in Seq(Request) /\ DOMAIN p = 1 .. Len(q) + 1 /\ DOMAIN q = 1 .. Len(q)
      /\ \A i \in DOMAIN q : p[i] = q[i]
      /\ p[Len(q) + 1] = Find(k)
    BY <1>1
<1> HIDE DEF p
<1>3. Upsets(p) = Upsets(q)
    BY <1>1, <1>2 DEF Upsets
<1>4. Value(p, r) = Value(q, r)
    BY <1>2, <1>3, ValueIs, ValueLast, UpsetsType
<1>5. \A i \in DOMAIN p :
        \/ i \in DOMAIN q /\ p[i] = q[i]
        \/ i = Len(q) + 1 /\ p[i] = Find(k)
    BY <1>2
<1> QED BY <1>2, <1>3, <1>4, <1>5 DEF p

LEMMA TailPlaces ==
    ASSUME NEW q \in Seq(Request), q # <<>>
    PROVE  /\ Tail(q) \in Seq(Request) /\ Head(q) = q[1] /\ 1 \in DOMAIN q
           /\ q[1] \in Request
           /\ \A i \in DOMAIN Tail(q) : i + 1 \in DOMAIN q /\ Tail(q)[i] = q[i + 1]
           /\ \A i \in Upsets(Tail(q)) : i + 1 \in Upsets(q) /\ Tail(q)[i] = q[i + 1]
           /\ \A i \in Upsets(q) : i # 1 => i - 1 \in Upsets(Tail(q))
<1>1. /\ Tail(q) \in Seq(Request) /\ Head(q) = q[1] /\ 1 \in DOMAIN q /\ q[1] \in Request
      /\ DOMAIN Tail(q) = 1 .. Len(q) - 1 /\ DOMAIN q = 1 .. Len(q) /\ Len(q) \in Nat
    OBVIOUS
<1>2. \A i \in DOMAIN Tail(q) : i + 1 \in DOMAIN q /\ Tail(q)[i] = q[i + 1]
    BY <1>1
<1>3. \A i \in Upsets(Tail(q)) : i + 1 \in Upsets(q) /\ Tail(q)[i] = q[i + 1]
    BY <1>2 DEF Upsets
<1>4. ASSUME NEW i \in Upsets(q), i # 1 PROVE i - 1 \in Upsets(Tail(q))
    <2>1. i \in 1 .. Len(q) /\ q[i].op = "upset"
        BY <1>1 DEF Upsets
    <2>2. i - 1 \in DOMAIN Tail(q) /\ i - 1 + 1 = i
        BY <1>1, <1>4, <2>1
    <2>3. Tail(q)[i - 1] = q[i]
        BY <1>2, <2>2
    <2> QED BY <2>1, <2>2, <2>3 DEF Upsets
<1> QED BY <1>1, <1>2, <1>3, <1>4

\* Executing the first request leaves what the queue will have stored.
LEMMA ValueTail ==
    ASSUME NEW q \in Seq(Request), q # <<>>, NEW r
    PROVE  /\ q[1].op # "upset" => Value(Tail(q), r) = Value(q, r)
           /\ q[1].op = "upset" => Value(Tail(q), q[1].data) = Value(q, r)
<1> DEFINE s == IF q[1].op = "upset" THEN q[1].data ELSE r
           t == Tail(q)
<1>1. /\ t \in Seq(Request) /\ 1 \in DOMAIN q
      /\ \A i \in Upsets(t) : i + 1 \in Upsets(q) /\ t[i] = q[i + 1]
      /\ \A i \in Upsets(q) : i # 1 => i - 1 \in Upsets(t)
    BY TailPlaces
<1>2. Upsets(t) \in SUBSET Nat /\ Upsets(q) \in SUBSET Nat
    BY <1>1, UpsetsType
<1> SUFFICES Value(t, s) = Value(q, r)
    OBVIOUS
<1>3. CASE Upsets(t) = {}
    <2>1. Value(t, s) = s
        BY <1>3 DEF Value
    <2>2. CASE q[1].op = "upset"
        <3>1. 1 \in Upsets(q)
            BY <1>1, <2>2 DEF Upsets
        <3>2. \A j \in Upsets(q) : j <= 1
            BY <1>1, <1>3
        <3>3. Value(q, r) = q[1].data
            BY <3>1, <3>2, ValueLast
        <3> QED BY <2>1, <2>2, <3>3
    <2>3. CASE q[1].op # "upset"
        <3>1. Upsets(q) = {}
            BY <1>1, <1>3, <2>3 DEF Upsets
        <3> QED BY <2>1, <2>3, <3>1 DEF Value
    <2> QED BY <2>2, <2>3
<1>4. CASE Upsets(t) # {}
    <2> HIDE DEF t, s
    <2>1. PICK i \in Upsets(t) : (\A j \in Upsets(t) : j <= i) /\ Value(t, s) = t[i].data
        BY <1>1, <1>4, ValueIs
    <2>2. i + 1 \in Upsets(q) /\ t[i] = q[i + 1]
        BY <1>1
    <2>3. ASSUME NEW j \in Upsets(q) PROVE j <= i + 1
        <3>1. CASE j = 1
            BY <3>1, <1>2
        <3>2. CASE j # 1
            <4>1. j - 1 \in Upsets(t)
                BY <3>2, <1>1
            <4>2. j - 1 <= i
                BY <4>1, <2>1
            <4> QED BY <4>2, <1>2
        <3> QED BY <3>1, <3>2
    <2>4. Value(q, r) = q[i + 1].data
        BY <2>2, <2>3, ValueLast
    <2> QED BY <2>1, <2>2, <2>4
<1> QED BY <1>3, <1>4

\* The queue with n saves of the document d.
Saved(q, n, d) == q \o [i \in 1 .. n |-> Upset(d)]

\* A save, sent once or twice, is the last that the queue stores.
LEMMA ValueSaved ==
    ASSUME NEW q \in Seq(Request), NEW d \in Data, NEW n \in 0 .. 2, NEW r
    PROVE  LET p == Saved(q, n, d) IN
           /\ p \in Seq(Request) /\ (n # 0 => Value(p, r) = d)
           /\ \A i \in DOMAIN p : (i \in DOMAIN q /\ p[i] = q[i]) \/ p[i] = Upset(d)
<1> DEFINE s == [i \in 1 .. n |-> Upset(d)]
           p == q \o s
<1>1. Upset(d) \in Request /\ Upset(d).op = "upset" /\ Upset(d).data = d
    BY RequestFacts
<1>2. s \in Seq(Request) /\ Len(s) = n
    BY <1>1
<1>3. \A i \in 1 .. n : s[i] = Upset(d)
    OBVIOUS
<1> HIDE DEF s
<1>4. /\ p \in Seq(Request) /\ Len(p) = Len(q) + n /\ DOMAIN p = 1 .. Len(q) + n
      /\ Len(q) \in Nat /\ DOMAIN q = 1 .. Len(q)
      /\ \A i \in 1 .. Len(q) : p[i] = q[i]
      /\ \A i \in Len(q) + 1 .. Len(q) + n : p[i] = s[i - Len(q)]
    BY <1>2
<1> HIDE DEF p
<1>5. \A i \in DOMAIN p : (i \in DOMAIN q /\ p[i] = q[i]) \/ p[i] = Upset(d)
    BY <1>3, <1>4
<1>6. n # 0 => Len(q) + n \in Upsets(p) /\ p[Len(q) + n] = Upset(d)
    BY <1>1, <1>3, <1>4 DEF Upsets
<1>7. \A j \in Upsets(p) : j <= Len(q) + n
    BY <1>4 DEF Upsets
<1>8. n # 0 => Value(p, r) = d
    BY <1>1, <1>4, <1>6, <1>7, ValueLast
<1> QED BY <1>4, <1>5, <1>8 DEF p, s, Saved

----------------------------------------------------------------------------
(* The inductive invariant.                                                  *)

\* The calls an object has yet to hear of.
Own(o) == {c \in calls : c.key = player[o].key}

\* A key is given to one life only: no answer and no request can be taken
\* for one of the life that is to come, or of another user.
Keys ==
    /\ IsFiniteSet(calls) /\ \A c \in calls : c.key <= lives
    /\ \A o \in Objs : player[o].key <= lives
    /\ \A o \in Objs : player[o].key # 0 =>
        player[o].id \in Users /\ player[o].errProgress <= player[o].loadProgress

Finds ==
    \A u \in Users : \A i \in DOMAIN queue[u] : queue[u][i].op = "find" =>
        /\ queue[u][i].key <= lives
        /\ \A o \in Objs : player[o].key = queue[u][i].key => player[o].id = u

\* The document of the user with the last change.
Latest(d, u) == d.owner = u /\ (u \notin excused => d.n = truth[u])

\* An answer on its way has the last change.
Answers ==
    \A c \in calls, o \in Objs :
        c.key = player[o].key /\ c.table = UserInfo /\ c.state = "ok"
        => Latest(c.data, player[o].id)

\* A load that has asked for every table and had no error yet has the
\* document, unless its answer is still to come.
Loads ==
    \A o \in Objs :
        /\ player[o].key # 0 /\ player[o].errProgress = 0
        /\ player[o].loadProgress + Cardinality(Own(o)) = totalProgress
        /\ \A c \in Own(o) : c.table # UserInfo
        => Latest(player[o].data, player[o].id)

\* Rows and what is to be written to them.
Rows ==
    /\ \A u \in Users : row[u].owner = u
    /\ \A u \in Users : \A i \in Upsets(queue[u]) : queue[u][i].data.owner = u
    /\ \A u \in Users : ~Loaded(u) /\ u \notin excused => Stored(u).n = truth[u]

\* Nothing is saved behind the find of a Player that still waits for it.
FindIsLast ==
    \A u \in Users : Live(u) /\ u \notin excused =>
        \A i \in DOMAIN queue[u], j \in Upsets(queue[u]) :
            queue[u][i] = Find(Object(u).key) => j < i

PlayerInv ==
    MapIsPool /\ ProgressIsOwn /\ Keys /\ Finds /\ Answers /\ Loads /\ Rows /\ FindIsLast

----------------------------------------------------------------------------
(* What it says of one object and of one user.                               *)

PlayerSet == [key : Lives \cup {0}, id : Users \cup {"nobody"},
              loadProgress : 0 .. totalProgress, errProgress : 0 .. totalProgress,
              data : Data \cup {NoData}, ping : {"fresh", "old"}]

LEMMA Types ==
    ASSUME TypeOK
    PROVE  /\ mapPlayer \in [Users -> Objs \cup {NoObj}] /\ player \in [Objs -> PlayerSet]
           /\ calls \in SUBSET Call /\ queue \in [Users -> Seq(Request)]
           /\ row \in [Users -> Data] /\ lives \in Nat /\ lives <= MaxLives
           /\ truth \in [Users -> 0 .. MaxChanges] /\ excused \in SUBSET Users
BY PlayerDBAssumption DEF TypeOK, PlayerSet, Lives

LEMMA PlayerTypes ==
    /\ Free \in PlayerSet /\ Free.key = 0
    /\ \A p \in PlayerSet :
        /\ p.key \in Nat /\ (p.key # 0 => p.key \in Lives)
        /\ p.id \in Users \cup {"nobody"}
        /\ p.loadProgress \in Nat /\ p.errProgress \in Nat
        /\ p.loadProgress <= totalProgress /\ p.errProgress <= totalProgress
        /\ p.data \in Data \cup {NoData} /\ p.ping \in {"fresh", "old"}
BY Totals, PlayerDBAssumption DEF PlayerSet, Free, Lives

LEMMA OwnType ==
    ASSUME TypeOK, Keys, NEW o \in Objs
    PROVE  /\ IsFiniteSet(Own(o)) /\ Cardinality(Own(o)) \in Nat
           /\ Cardinality(Own(o)) = 0 <=> Own(o) = {}
<1>1. Own(o) \in SUBSET calls
    BY DEF Own
<1> QED BY <1>1, FS_Subset, FS_CardinalityType, FS_EmptySet DEF Keys

LEMMA LiveFacts ==
    ASSUME TypeOK, MapIsPool, NEW u \in Users, Live(u)
    PROVE  /\ mapPlayer[u] \in Objs /\ Object(u) = player[mapPlayer[u]]
           /\ Object(u) \in PlayerSet /\ Object(u).key \in Lives /\ Object(u).id = u
<1>1. mapPlayer[u] \in Objs /\ player[mapPlayer[u]] \in PlayerSet
    BY Types DEF Live
<1>2. player[mapPlayer[u]].key # 0 /\ player[mapPlayer[u]].id = u
    BY DEF MapIsPool, Object
<1> QED BY <1>1, <1>2, PlayerTypes DEF Object

LEMMA UsedFacts ==
    ASSUME TypeOK, MapIsPool, Keys, NEW o \in Objs, player[o].key # 0
    PROVE  /\ player[o].id \in Users /\ mapPlayer[player[o].id] = o
           /\ Live(player[o].id) /\ Object(player[o].id) = player[o]
BY PlayerDBAssumption DEF MapIsPool, Keys, Live, Object

\* A load is over when every answer is in, and then the document is there.
LEMMA LoadedFacts ==
    ASSUME TypeOK, PlayerInv, NEW u \in Users, Loaded(u)
    PROVE  /\ Object(u).loadProgress = totalProgress /\ Object(u).errProgress = 0
           /\ Own(mapPlayer[u]) = {}
           /\ Latest(Object(u).data, u) /\ Object(u).data \in Data
<1> DEFINE o == mapPlayer[u]
<1>1. Live(u) /\ IsLoadFinish(Object(u))
    BY DEF Loaded
<1>2. /\ o \in Objs /\ Object(u) = player[o]
      /\ Object(u) \in PlayerSet /\ Object(u).key \in Lives /\ Object(u).id = u
    BY <1>1, LiveFacts DEF PlayerInv
<1>3. player[o].loadProgress = totalProgress /\ player[o].errProgress = 0 /\ player[o].key # 0
    BY <1>1, <1>2, PlayerTypes, Totals DEF IsLoadFinish
<1>4. Cardinality(Own(o)) \in Nat /\ (Cardinality(Own(o)) = 0 <=> Own(o) = {})
    BY <1>2, OwnType DEF PlayerInv
<1>5. player[o].loadProgress + Cardinality(Own(o)) <= totalProgress
    BY <1>2, <1>3 DEF PlayerInv, ProgressIsOwn, Own
<1>6. Cardinality(Own(o)) = 0
    BY <1>3, <1>4, <1>5, Totals
<1>7. Own(o) = {}
    BY <1>4, <1>6
<1>8. player[o].loadProgress + Cardinality(Own(o)) = totalProgress
    BY <1>3, <1>6, Totals
<1>9. Latest(player[o].data, player[o].id)
    BY <1>2, <1>3, <1>7, <1>8 DEF PlayerInv, Loads
<1>10. player[o].data \in Data
    <2>1. player[o].data # NoData
        BY <1>2, <1>9, PlayerDBAssumption DEF Latest, NoData
    <2> QED BY <1>2, <2>1, PlayerTypes
<1> QED BY <1>2, <1>3, <1>7, <1>9, <1>10

----------------------------------------------------------------------------
(* Objects that go back to the pool, calls that end and answers that come.   *)

\* No object begins a life, and no call is sent.
Quiet ==
    /\ player' \in [Objs -> PlayerSet] /\ calls' \in SUBSET calls
    /\ \A o \in Objs : player'[o] = player[o] \/ player'[o] = Free
    /\ lives' = lives /\ truth' = truth /\ excused \subseteq excused'

LEMMA LatestStays ==
    ASSUME truth' = truth, excused \subseteq excused'
    PROVE  \A d, u : Latest(d, u) => d.owner = u /\ (u \notin excused' => d.n = truth'[u])
BY DEF Latest

LEMMA QuietKeeps ==
    ASSUME TypeOK, PlayerInv, Quiet
    PROVE  ProgressIsOwn' /\ Keys' /\ Answers' /\ Loads'
<1>1. \A o \in Objs : player'[o].key # 0 => player'[o] = player[o]
    BY PlayerTypes DEF Quiet
<1>2. /\ calls' \in SUBSET calls /\ lives' = lives
      /\ \A d, u : Latest(d, u) => d.owner = u /\ (u \notin excused' => d.n = truth'[u])
    BY LatestStays DEF Quiet
<1>3. IsFiniteSet(calls) /\ IsFiniteSet(calls')
    BY <1>2, FS_Subset DEF PlayerInv, Keys
<1>4. Keys'
    <2>1. \A c \in calls' : c.key <= lives'
        BY <1>2 DEF PlayerInv, Keys
    <2>2. \A o \in Objs : player'[o].key <= lives'
        <3> SUFFICES ASSUME NEW o \in Objs PROVE player'[o].key <= lives
            BY <1>2
        <3>1. lives \in Nat /\ player[o].key <= lives
            BY Types DEF PlayerInv, Keys
        <3> QED BY <1>1, <3>1
    <2> QED BY <1>1, <1>3, <2>1, <2>2 DEF PlayerInv, Keys
<1>5. ASSUME NEW o \in Objs, player'[o].key # 0
      PROVE  /\ player'[o] = player[o] /\ Own(o)' \in SUBSET Own(o) /\ IsFiniteSet(Own(o))
             /\ Cardinality(Own(o)') \in Nat /\ Cardinality(Own(o)) \in Nat
             /\ Cardinality(Own(o)') <= Cardinality(Own(o))
             /\ Cardinality(Own(o)') = Cardinality(Own(o)) => Own(o)' = Own(o)
    <2>1. player'[o] = player[o]
        BY <1>1, <1>5
    <2>2. Own(o)' \in SUBSET Own(o)
        BY <1>2, <2>1 DEF Own
    <2>3. IsFiniteSet(Own(o)) /\ Cardinality(Own(o)) \in Nat
        BY OwnType DEF PlayerInv
    <2> QED BY <2>1, <2>2, <2>3, FS_Subset, FS_CardinalityType
<1>6. ASSUME NEW o \in Objs, player'[o].key # 0
      PROVE  /\ player[o].loadProgress \in Nat /\ totalProgress \in Nat
             /\ player[o].loadProgress + Cardinality(Own(o)) <= totalProgress
    <2>1. player[o] \in PlayerSet /\ player[o].key # 0
        BY <1>1, <1>6, Types
    <2> QED BY <2>1, PlayerTypes, Totals DEF PlayerInv, ProgressIsOwn, Own
<1>7. ProgressIsOwn'
    <2> SUFFICES ASSUME NEW o \in Objs, player'[o].key # 0
                 PROVE  player'[o].loadProgress + Cardinality(Own(o)') <= totalProgress
        BY DEF ProgressIsOwn, Own, totalProgress
    <2> DEFINE l == player[o].loadProgress
               m == Cardinality(Own(o))
               n == Cardinality(Own(o)')
    <2>1. /\ l \in Nat /\ m \in Nat /\ n \in Nat /\ totalProgress \in Nat
          /\ l + m <= totalProgress /\ n <= m /\ player'[o].loadProgress = l
        BY <1>5, <1>6
    <2> HIDE DEF l, m, n
    <2>2. l + n <= totalProgress
        BY <2>1
    <2> QED BY <2>1, <2>2 DEF n
<1>8. Answers'
    <2> SUFFICES ASSUME NEW c \in calls', NEW o \in Objs,
                        c.key = player'[o].key, c.table = UserInfo, c.state = "ok"
                 PROVE  /\ c.data.owner = player'[o].id
                        /\ player'[o].id \notin excused' => c.data.n = truth'[player'[o].id]
        BY DEF Answers, Latest
    <2>1. c \in Call /\ c \in calls
        BY <1>2, Types
    <2>2. player'[o].key # 0
        BY <2>1 DEF Call, Lives
    <2>3. Latest(c.data, player[o].id)
        BY <1>1, <2>1, <2>2 DEF PlayerInv, Answers
    <2> QED BY <1>1, <1>2, <2>2, <2>3
<1>9. Loads'
    <2> SUFFICES ASSUME NEW o \in Objs, player'[o].key # 0, player'[o].errProgress = 0,
                        player'[o].loadProgress + Cardinality(Own(o)') = totalProgress,
                        \A c \in Own(o)' : c.table # UserInfo
                 PROVE  /\ player'[o].data.owner = player'[o].id
                        /\ player'[o].id \notin excused' =>
                            player'[o].data.n = truth'[player'[o].id]
        BY DEF Loads, Latest, totalProgress
    <2> DEFINE l == player[o].loadProgress
               m == Cardinality(Own(o))
               n == Cardinality(Own(o)')
    <2>1. /\ l \in Nat /\ m \in Nat /\ n \in Nat /\ totalProgress \in Nat
          /\ l + m <= totalProgress /\ n <= m /\ l + n = totalProgress
        BY <1>5, <1>6
    <2>2. n = m => Own(o)' = Own(o)
        BY <1>5
    <2>3. m = n
        <3> HIDE DEF l, m, n
        <3> QED BY <2>1
    <2>4. player[o].loadProgress + Cardinality(Own(o)) = totalProgress
        BY <2>1, <2>3
    <2>5. Latest(player[o].data, player[o].id)
        BY <1>1, <2>2, <2>3, <2>4 DEF PlayerInv, Loads
    <2> QED BY <1>1, <1>2, <2>5
<1> QED BY <1>4, <1>7, <1>8, <1>9

LEMMA FindsKept ==
    ASSUME TypeOK, PlayerInv, Quiet,
           \A u \in Users : \A i \in DOMAIN queue'[u] :
                \/ queue'[u][i].op = "upset"
                \/ \E j \in DOMAIN queue[u] : queue'[u][i] = queue[u][j]
    PROVE  Finds'
<1> SUFFICES ASSUME NEW u \in Users, NEW i \in DOMAIN queue'[u], queue'[u][i].op = "find"
             PROVE  /\ queue'[u][i].key <= lives'
                    /\ \A o \in Objs : player'[o].key = queue'[u][i].key => player'[o].id = u
    BY DEF Finds
<1>1. PICK j \in DOMAIN queue[u] : queue'[u][i] = queue[u][j]
    OBVIOUS
<1>2. /\ queue[u][j].key <= lives
      /\ \A o \in Objs : player[o].key = queue[u][j].key => player[o].id = u
    BY <1>1 DEF PlayerInv, Finds
<1>3. queue[u][j].key \in Lives
    <2>1. queue[u] \in Seq(Request)
        BY Types
    <2> QED BY <1>1, <2>1, RequestFacts
<1>4. \A o \in Objs : player'[o].key = queue'[u][i].key => player'[o] = player[o]
    BY <1>1, <1>3, PlayerTypes DEF Quiet, Lives
<1> QED BY <1>1, <1>2, <1>4 DEF Quiet

LEMMA ReleaseFacts ==
    ASSUME TypeOK, PlayerInv, NEW o \in Objs, player[o].key # 0, ReleasePlayer(o)
    PROVE  /\ mapPlayer' \in [Users -> Objs \cup {NoObj}] /\ player' \in [Objs -> PlayerSet]
           /\ \A x \in Objs : player'[x] = player[x] \/ player'[x] = Free
           /\ MapIsPool' /\ mapPlayer'[player[o].id] = NoObj
           /\ \A u \in Users : u # player[o].id =>
                /\ mapPlayer'[u] = mapPlayer[u]
                /\ Live(u) => player'[mapPlayer[u]] = player[mapPlayer[u]]
<1> DEFINE v == player[o].id
<1>1. v \in Users /\ mapPlayer[v] = o
    BY UsedFacts DEF PlayerInv
<1>2. /\ mapPlayer \in [Users -> Objs \cup {NoObj}] /\ player \in [Objs -> PlayerSet]
      /\ Free \in PlayerSet /\ Free.key = 0
    BY Types, PlayerTypes
<1>3. /\ mapPlayer' = [mapPlayer EXCEPT ![v] = NoObj]
      /\ player' = [player EXCEPT ![o] = Free]
    BY DEF ReleasePlayer
<1> HIDE DEF v
<1>4. /\ mapPlayer' \in [Users -> Objs \cup {NoObj}] /\ player' \in [Objs -> PlayerSet]
      /\ \A x \in Objs : x # o => player'[x] = player[x]
      /\ player'[o] = Free /\ mapPlayer'[v] = NoObj
      /\ \A u \in Users : u # v => mapPlayer'[u] = mapPlayer[u]
    BY <1>1, <1>2, <1>3
<1>5. \A u \in Users : Live(u) => mapPlayer[u] \in Objs /\ player[mapPlayer[u]].id = u
    BY LiveFacts DEF PlayerInv
<1>6. \A u \in Users : u # v /\ Live(u) => player'[mapPlayer[u]] = player[mapPlayer[u]]
    BY <1>4, <1>5 DEF v
<1>7. MapIsPool'
    <2>1. ASSUME NEW u \in Users, Live(u)' PROVE Object(u)'.key # 0 /\ Object(u)'.id = u
        <3>1. u # v /\ Live(u) /\ mapPlayer'[u] = mapPlayer[u]
            BY <1>4, <2>1 DEF Live
        <3>2. Object(u)' = Object(u)
            BY <1>6, <3>1 DEF Object
        <3> QED BY <3>1, <3>2 DEF PlayerInv, MapIsPool
    <2>2. ASSUME NEW x \in Objs, player'[x].key # 0 PROVE mapPlayer'[player'[x].id] = x
        <3>1. x # o /\ player'[x] = player[x]
            BY <1>2, <1>4, <2>2
        <3>2. player[x].id \in Users /\ mapPlayer[player[x].id] = x
            BY <2>2, <3>1, UsedFacts DEF PlayerInv
        <3> QED BY <1>1, <1>4, <3>1, <3>2
    <2> QED BY <2>1, <2>2 DEF MapIsPool
<1> QED BY <1>4, <1>6, <1>7 DEF v

\* What the user's save leaves in the queue of DBService.
LEMMA SaveFacts ==
    ASSUME TypeOK, PlayerInv, NEW u \in Users, Live(u), SaveToDB(Object(u))
    PROVE  /\ queue' \in [Users -> Seq(Request)]
           /\ \A v \in Users : v # u => queue'[v] = queue[v]
           /\ excused' \in {excused, excused \cup {u}}
           /\ \A i \in DOMAIN queue'[u] :
                \/ i \in DOMAIN queue[u] /\ queue'[u][i] = queue[u][i]
                \/ queue'[u][i].op = "upset" /\ queue'[u][i].data.owner = u
           /\ u \notin excused' => Value(queue'[u], row[u]).n = truth[u]
<1> DEFINE p == Object(u)
<1>1. p.id = u
    BY LiveFacts DEF PlayerInv
<1>2. queue \in [Users -> Seq(Request)]
    BY Types
<1>3. IsLoadFinish(p) => Latest(p.data, u) /\ p.data \in Data
    BY LoadedFacts DEF Loaded
<1>4. ~IsLoadFinish(p) /\ u \notin excused => Value(queue[u], row[u]).n = truth[u]
    BY DEF PlayerInv, Rows, Loaded, Stored, Value
<1>5. Stored(u) = Value(queue[u], row[u])
    BY DEF Stored, Value
<1>6. CASE ~Savable(p)
    <2>1. /\ excused' = IF IsLoadFinish(p) /\ p.data # Stored(u) THEN excused \cup {u} ELSE excused
          /\ queue' = queue
        BY <1>1, <1>6 DEF SaveToDB
    <2> HIDE DEF p
    <2>2. u \notin excused' => Value(queue[u], row[u]).n = truth[u]
        BY <1>3, <1>4, <1>5, <2>1 DEF Latest
    <2> QED BY <1>2, <2>1, <2>2
<1>7. CASE Savable(p)
    <2>1. Latest(p.data, u) /\ p.data \in Data
        BY <1>3, <1>7 DEF Savable
    <2>2. PICK n \in 0 .. 2 :
            /\ queue' = [queue EXCEPT ![u] = @ \o [i \in 1 .. n |-> Upset(p.data)]]
            /\ excused' = IF n = 0 THEN excused \cup {u} ELSE excused
        BY <1>1, <1>7 DEF SaveToDB
    <2> DEFINE d == p.data
               q == Saved(queue[u], n, d)
    <2>3. queue' = [queue EXCEPT ![u] = q]
        BY <1>2, <2>2 DEF Saved
    <2> HIDE DEF d, p
    <2>4. /\ q \in Seq(Request) /\ (n # 0 => Value(q, row[u]) = d)
          /\ \A i \in DOMAIN q :
                (i \in DOMAIN queue[u] /\ q[i] = queue[u][i]) \/ q[i] = Upset(d)
        <3>1. queue[u] \in Seq(Request) /\ d \in Data
            BY <1>2, <2>1 DEF d
        <3> DEFINE a == queue[u]
        <3> HIDE DEF a
        <3>2. Saved(a, n, d) \in Seq(Request)
            BY <3>1, ValueSaved DEF a
        <3>3. n # 0 => Value(Saved(a, n, d), row[u]) = d
            BY <3>1, ValueSaved DEF a
        <3>4. \A i \in DOMAIN Saved(a, n, d) :
                \/ i \in DOMAIN a /\ Saved(a, n, d)[i] = a[i]
                \/ Saved(a, n, d)[i] = Upset(d)
            BY <3>1, ValueSaved DEF a
        <3> QED BY <3>2, <3>3, <3>4 DEF a
    <2> HIDE DEF q
    <2>5. /\ queue' \in [Users -> Seq(Request)] /\ queue'[u] = q
          /\ \A v \in Users : v # u => queue'[v] = queue[v]
        BY <1>2, <2>3, <2>4
    <2>6. Upset(d).op = "upset" /\ Upset(d).data.owner = u
        BY <2>1 DEF d, Latest, Upset
    <2>7. u \notin excused' => Value(q, row[u]).n = truth[u]
        BY <2>1, <2>2, <2>4 DEF d, Latest
    <2> QED BY <2>2, <2>4, <2>5, <2>6, <2>7
<1> QED BY <1>6, <1>7

----------------------------------------------------------------------------
(* The steps.                                                                *)

LEMMA PingKeeps ==
    ASSUME TypeOK, PlayerInv, NEW u \in Users, Live(u), NEW age \in {"fresh", "old"},
           player' = [player EXCEPT ![mapPlayer[u]].ping = age],
           UNCHANGED <<mapPlayer, calls, queue, row, lives, truth, excused>>
    PROVE  TypeOK' /\ PlayerInv'
<1> DEFINE x == mapPlayer[u]
<1>1. x \in Objs /\ player \in [Objs -> PlayerSet]
    BY LiveFacts, Types DEF PlayerInv
<1>2. /\ player' \in [Objs -> PlayerSet]
      /\ \A o \in Objs :
            /\ player'[o].key = player[o].key /\ player'[o].id = player[o].id
            /\ player'[o].loadProgress = player[o].loadProgress
            /\ player'[o].errProgress = player[o].errProgress
            /\ player'[o].data = player[o].data
    <2> HIDE DEF x
    <2>1. player' = [player EXCEPT ![x] = [player[x] EXCEPT !.ping = age]]
        BY <1>1 DEF x
    <2>2. /\ [player[x] EXCEPT !.ping = age] \in PlayerSet
          /\ [player[x] EXCEPT !.ping = age].key = player[x].key
          /\ [player[x] EXCEPT !.ping = age].id = player[x].id
          /\ [player[x] EXCEPT !.ping = age].loadProgress = player[x].loadProgress
          /\ [player[x] EXCEPT !.ping = age].errProgress = player[x].errProgress
          /\ [player[x] EXCEPT !.ping = age].data = player[x].data
        BY <1>1 DEF PlayerSet
    <2> DEFINE y == [player[x] EXCEPT !.ping = age]
    <2> HIDE DEF y
    <2>3. player' = [player EXCEPT ![x] = y]
        BY <2>1 DEF y
    <2>4. /\ y \in PlayerSet /\ y.key = player[x].key /\ y.id = player[x].id
          /\ y.loadProgress = player[x].loadProgress
          /\ y.errProgress = player[x].errProgress /\ y.data = player[x].data
        BY <2>2 DEF y
    <2> QED BY <1>1, <2>3, <2>4
<1>3. \A o \in Objs : Own(o)' = Own(o)
    BY <1>2 DEF Own
<1>4. \A v \in Users : Live(v)' = Live(v) /\ (Live(v) => mapPlayer[v] \in Objs)
    BY LiveFacts DEF Live, PlayerInv
<1>5. \A v \in Users : Loaded(v)' = Loaded(v)
    BY <1>2, <1>4 DEF Loaded, IsLoadFinish, Object, totalProgress
<1>6. \A v \in Users : Live(v) => Object(v)'.key = Object(v).key /\ Object(v)'.id = Object(v).id
    BY <1>2, <1>4 DEF Object
<1>7. TypeOK'
    BY <1>2 DEF TypeOK, PlayerSet, totalProgress
<1>8. MapIsPool'
    BY <1>2, <1>4, <1>6 DEF PlayerInv, MapIsPool
<1>9. ProgressIsOwn'
    BY <1>2, <1>3 DEF PlayerInv, ProgressIsOwn, Own, totalProgress
<1>10. Keys' /\ Finds'
    BY <1>2 DEF PlayerInv, Keys, Finds
<1>11. Answers'
    BY <1>2 DEF PlayerInv, Answers, Latest
<1>12. Loads'
    BY <1>2, <1>3 DEF PlayerInv, Loads, Latest, totalProgress
<1>13. Rows'
    BY <1>5 DEF PlayerInv, Rows, Stored
<1>14. FindIsLast'
    BY <1>4, <1>6 DEF PlayerInv, FindIsLast
<1> QED BY <1>7, <1>8, <1>9, <1>10, <1>11, <1>12, <1>13, <1>14 DEF PlayerInv

LEMMA ChangeKeeps ==
    ASSUME TypeOK, PlayerInv, NEW u \in Users, Change(u)
    PROVE  TypeOK' /\ PlayerInv'
<1> DEFINE x == mapPlayer[u]
<1>1. Loaded(u) /\ Live(u) /\ truth[u] < MaxChanges
    BY DEF Change, Loaded
<1>2. x \in Objs /\ player[x].id = u /\ Object(u) = player[x] /\ player[x].key # 0
    BY <1>1, LiveFacts DEF PlayerInv, Lives
<1>3. Own(x) = {} /\ Latest(player[x].data, u) /\ player[x].data \in Data
    BY <1>1, <1>2, LoadedFacts
<1>4. player \in [Objs -> PlayerSet] /\ truth \in [Users -> 0 .. MaxChanges]
    BY Types
<1>5. PICK named \in BOOLEAN :
        player' = [player EXCEPT ![x].data =
                        [owner |-> @.owner, n |-> truth[u] + 1, named |-> named]]
    BY <1>2, <1>3 DEF Change, Data
<1> DEFINE d == [owner |-> player[x].data.owner, n |-> truth[u] + 1, named |-> named]
           y == [player[x] EXCEPT !.data = d]
<1>6. truth[u] + 1 \in 0 .. MaxChanges
    BY <1>1, <1>4, PlayerDBAssumption
<1>7. d \in Data /\ d.owner = u /\ d.n = truth[u] + 1
    BY <1>3, <1>6 DEF Data, Latest
<1>8. player' = [player EXCEPT ![x] = y]
    BY <1>2, <1>4, <1>5
<1> HIDE DEF d
<1>9. /\ y \in PlayerSet /\ y.key = player[x].key /\ y.id = player[x].id /\ y.data = d
      /\ y.loadProgress = player[x].loadProgress /\ y.errProgress = player[x].errProgress
    BY <1>2, <1>4, <1>7 DEF PlayerSet
<1> HIDE DEF y, x
<1>10. /\ player' \in [Objs -> PlayerSet] /\ player'[x] = y
       /\ \A o \in Objs : o # x => player'[o] = player[o]
       /\ \A o \in Objs :
            /\ player'[o].key = player[o].key /\ player'[o].id = player[o].id
            /\ player'[o].loadProgress = player[o].loadProgress
            /\ player'[o].errProgress = player[o].errProgress
    BY <1>2, <1>4, <1>8, <1>9
<1>11. /\ truth' = [truth EXCEPT ![u] = truth[u] + 1] /\ truth' \in [Users -> 0 .. MaxChanges]
       /\ UNCHANGED <<mapPlayer, calls, queue, row, lives, excused>>
    BY <1>4, <1>6 DEF Change
<1>12. truth'[u] = truth[u] + 1 /\ \A v \in Users : v # u => truth'[v] = truth[v]
    BY <1>4, <1>11
<1>13. \A o \in Objs : Own(o)' = Own(o)
    BY <1>10, <1>11 DEF Own
<1>14. \A v \in Users : Live(v)' = Live(v) /\ (Live(v) => mapPlayer[v] \in Objs)
    BY <1>11, LiveFacts DEF Live, PlayerInv
<1>15. \A v \in Users : Loaded(v)' = Loaded(v)
    BY <1>10, <1>11, <1>14 DEF Loaded, IsLoadFinish, Object, totalProgress
<1>16. \A v \in Users : Live(v) => Object(v)'.key = Object(v).key /\ Object(v)'.id = Object(v).id
    BY <1>10, <1>11, <1>14 DEF Object
<1>17. ASSUME NEW o \in Objs, player[o].key # 0, player[o].id = u PROVE o = x
    BY <1>17, UsedFacts DEF PlayerInv, x
<1>18. TypeOK'
    BY <1>10, <1>11 DEF TypeOK, PlayerSet, totalProgress
<1>19. MapIsPool'
    BY <1>10, <1>11, <1>14, <1>16 DEF PlayerInv, MapIsPool
<1>20. ProgressIsOwn'
    BY <1>10, <1>13 DEF PlayerInv, ProgressIsOwn, Own, totalProgress
<1>21. Keys'
    BY <1>10, <1>11 DEF PlayerInv, Keys
<1>22. Finds'
    BY <1>10, <1>11 DEF PlayerInv, Finds
<1>23. Answers'
    <2> SUFFICES ASSUME NEW c \in calls, NEW o \in Objs,
                        c.key = player[o].key, c.table = UserInfo, c.state = "ok"
                 PROVE  /\ c.data.owner = player[o].id
                        /\ player[o].id \notin excused => c.data.n = truth'[player[o].id]
        BY <1>10, <1>11 DEF Answers, Latest
    <2>1. player[o].key # 0
        BY Types DEF Call, Lives
    <2>2. o # x
        BY <1>3 DEF Own, x
    <2>3. player[o].id # u /\ player[o].id \in Users
        BY <1>17, <2>1, <2>2, UsedFacts DEF PlayerInv
    <2> QED BY <1>12, <2>3 DEF PlayerInv, Answers, Latest
<1>24. Loads'
    <2> SUFFICES ASSUME NEW o \in Objs, player[o].key # 0, player[o].errProgress = 0,
                        player[o].loadProgress + Cardinality(Own(o)) = totalProgress,
                        \A c \in Own(o) : c.table # UserInfo
                 PROVE  /\ player'[o].data.owner = player[o].id
                        /\ player[o].id \notin excused =>
                            player'[o].data.n = truth'[player[o].id]
        BY <1>10, <1>11, <1>13 DEF Loads, Latest, totalProgress
    <2>1. CASE o = x
        BY <1>2, <1>7, <1>9, <1>10, <1>12, <2>1 DEF x
    <2>2. CASE o # x
        <3>1. player[o].id # u /\ player[o].id \in Users
            BY <1>17, <2>2, UsedFacts DEF PlayerInv
        <3> QED BY <1>10, <1>12, <2>2, <3>1 DEF PlayerInv, Loads, Latest
    <2> QED BY <2>1, <2>2
<1>25. Rows'
    <2>1. \A v \in Users : ~Loaded(v)' => v # u
        BY <1>1, <1>15
    <2> QED BY <1>11, <1>12, <1>15, <2>1 DEF PlayerInv, Rows, Stored
<1>26. FindIsLast'
    BY <1>11, <1>14, <1>16 DEF PlayerInv, FindIsLast
<1> QED BY <1>18, <1>19, <1>20, <1>21, <1>22, <1>23, <1>24, <1>25, <1>26 DEF PlayerInv

LEMMA RestartKeeps == TypeOK /\ PlayerInv /\ Restart => TypeOK' /\ PlayerInv'
<1> SUFFICES ASSUME TypeOK, PlayerInv, Restart PROVE TypeOK' /\ PlayerInv'
    OBVIOUS
<1>1. /\ mapPlayer' = [u \in Users |-> NoObj] /\ player' = [o \in Objs |-> Free]
      /\ calls' = {} /\ UNCHANGED <<queue, row, lives, truth>>
      /\ excused' = excused \cup {u \in Users : Loaded(u) /\ Object(u).data # Stored(u)}
    BY DEF Restart
<1>2. player' \in [Objs -> PlayerSet] /\ \A o \in Objs : player'[o] = Free
    BY <1>1, PlayerTypes
<1>3. Quiet
    BY <1>1, <1>2 DEF Quiet
<1>4. \A u \in Users : ~Live(u)' /\ ~Loaded(u)'
    BY <1>1 DEF Live, Loaded
<1>5. TypeOK'
    <2>1. mapPlayer' \in [Users -> Objs \cup {NoObj}] /\ excused' \in SUBSET Users
        BY <1>1, Types
    <2> QED BY <1>1, <1>2, <2>1 DEF TypeOK, PlayerSet, totalProgress
<1>6. MapIsPool'
    BY <1>2, <1>4, PlayerTypes DEF MapIsPool
<1>7. Finds'
    BY <1>1, <1>3, FindsKept
<1>8. Rows'
    <2> SUFFICES ASSUME NEW u \in Users, u \notin excused' PROVE Stored(u).n = truth[u]
        BY <1>1 DEF PlayerInv, Rows, Stored
    <2>1. u \notin excused /\ (Loaded(u) => Object(u).data = Stored(u))
        BY <1>1
    <2>2. CASE Loaded(u)
        BY <2>1, <2>2, LoadedFacts DEF Latest
    <2>3. CASE ~Loaded(u)
        BY <2>1, <2>3 DEF PlayerInv, Rows
    <2> QED BY <2>2, <2>3
<1>9. FindIsLast'
    BY <1>4 DEF FindIsLast
<1> QED BY <1>3, <1>5, <1>6, <1>7, <1>8, <1>9, QuietKeeps DEF PlayerInv

LEMMA TimeoutKeeps ==
    ASSUME TypeOK, PlayerInv, NEW u \in Users, checkPingTimeout(u)
    PROVE  TypeOK' /\ PlayerInv'
<1> DEFINE o == mapPlayer[u]
<1>1. /\ Live(u) /\ SaveToDB(player[o]) /\ ReleasePlayer(o)
      /\ UNCHANGED <<calls, row, lives, truth>>
    BY DEF checkPingTimeout, Destroy
<1>2. o \in Objs /\ Object(u) = player[o] /\ player[o].key # 0 /\ player[o].id = u
    BY <1>1, LiveFacts DEF PlayerInv, Lives
<1>3. /\ mapPlayer' \in [Users -> Objs \cup {NoObj}] /\ player' \in [Objs -> PlayerSet]
      /\ \A x \in Objs : player'[x] = player[x] \/ player'[x] = Free
      /\ MapIsPool' /\ mapPlayer'[u] = NoObj
      /\ \A v \in Users : v # u =>
            /\ mapPlayer'[v] = mapPlayer[v]
            /\ Live(v) => player'[mapPlayer[v]] = player[mapPlayer[v]]
    BY <1>1, <1>2, ReleaseFacts
<1>4. /\ queue' \in [Users -> Seq(Request)]
      /\ \A v \in Users : v # u => queue'[v] = queue[v]
      /\ excused' \in {excused, excused \cup {u}}
      /\ \A i \in DOMAIN queue'[u] :
            \/ i \in DOMAIN queue[u] /\ queue'[u][i] = queue[u][i]
            \/ queue'[u][i].op = "upset" /\ queue'[u][i].data.owner = u
      /\ u \notin excused' => Value(queue'[u], row[u]).n = truth[u]
    BY <1>1, <1>2, SaveFacts
<1> HIDE DEF o
<1>5. Quiet
    BY <1>1, <1>3, <1>4 DEF Quiet
<1>6. TypeOK'
    <2>1. excused' \in SUBSET Users
        BY <1>4, Types
    <2> QED BY <1>1, <1>3, <1>4, <2>1 DEF TypeOK, PlayerSet, totalProgress
<1>7. Finds'
    <2> SUFFICES ASSUME NEW v \in Users, NEW i \in DOMAIN queue'[v]
                 PROVE  \/ queue'[v][i].op = "upset"
                        \/ \E j \in DOMAIN queue[v] : queue'[v][i] = queue[v][j]
        BY <1>5, FindsKept
    <2>1. CASE v = u
        BY <1>4, <2>1
    <2>2. CASE v # u
        BY <1>4, <2>2
    <2> QED BY <2>1, <2>2
<1>8. ~Live(u)' /\ ~Loaded(u)'
    BY <1>3 DEF Live, Loaded
<1>9. \A v \in Users : v # u =>
        /\ Live(v)' = Live(v) /\ (Live(v) => Object(v)' = Object(v)) /\ Loaded(v)' = Loaded(v)
    BY <1>3 DEF Live, Loaded, Object, IsLoadFinish, totalProgress
<1>10. Rows'
    <2>1. \A v \in Users : row'[v].owner = v
        BY <1>1 DEF PlayerInv, Rows
    <2>2. ASSUME NEW v \in Users, NEW i \in Upsets(queue'[v]) PROVE queue'[v][i].data.owner = v
        <3>1. CASE v = u
            BY <1>4, <2>2, <3>1 DEF PlayerInv, Rows, Upsets
        <3>2. CASE v # u
            BY <1>4, <2>2, <3>2 DEF PlayerInv, Rows
        <3> QED BY <3>1, <3>2
    <2>3. ASSUME NEW v \in Users, ~Loaded(v)', v \notin excused' PROVE Stored(v)'.n = truth'[v]
        <3>1. CASE v = u
            <4>1. Stored(u)' = Value(queue'[u], row[u])
                BY <1>1 DEF Stored, Value
            <4> QED BY <1>1, <1>4, <2>3, <3>1, <4>1
        <3>2. CASE v # u
            <4>1. ~Loaded(v) /\ v \notin excused /\ Stored(v)' = Stored(v)
                BY <1>1, <1>4, <1>9, <2>3, <3>2 DEF Stored
            <4> QED BY <1>1, <4>1 DEF PlayerInv, Rows
        <3> QED BY <3>1, <3>2
    <2> QED BY <2>1, <2>2, <2>3 DEF Rows
<1>11. FindIsLast'
    <2> SUFFICES ASSUME NEW v \in Users, Live(v)', v \notin excused',
                        NEW i \in DOMAIN queue'[v], NEW j \in Upsets(queue'[v]),
                        queue'[v][i] = Find(Object(v).key)'
                 PROVE  j < i
        BY DEF FindIsLast
    <2>1. v # u
        BY <1>8
    <2>2. /\ Live(v) /\ v \notin excused /\ queue'[v] = queue[v]
          /\ Find(Object(v).key)' = Find(Object(v).key)
        BY <1>4, <1>9, <2>1 DEF Find
    <2> QED BY <2>2 DEF PlayerInv, FindIsLast
<1> QED BY <1>3, <1>5, <1>6, <1>7, <1>10, <1>11, QuietKeeps DEF PlayerInv

\* An answer ends, and its object was not loaded and stays as it is or is
\* released.
LEMMA EndKeeps ==
    ASSUME TypeOK, PlayerInv, NEW c \in calls, calls' = calls \ {c},
           UNCHANGED <<queue, row, lives, truth, excused>>,
           \/ UNCHANGED <<mapPlayer, player>>
           \/ ~IsLate(c) /\ ReleasePlayer(c.obj)
    PROVE  TypeOK' /\ PlayerInv'
<1> DEFINE o == c.obj
<1>1. c \in Call /\ o \in Objs /\ c.key # 0
    BY Types DEF Call, Lives
<1>2. /\ mapPlayer' \in [Users -> Objs \cup {NoObj}] /\ player' \in [Objs -> PlayerSet]
      /\ \A x \in Objs : player'[x] = player[x] \/ player'[x] = Free
      /\ MapIsPool'
      /\ \A u \in Users :
            /\ Live(u)' => Live(u) /\ Object(u)' = Object(u)
            /\ Loaded(u) => Loaded(u)'
    <2>1. CASE UNCHANGED <<mapPlayer, player>>
        BY <2>1, Types
            DEF PlayerInv, MapIsPool, Live, Object, Loaded, IsLoadFinish, totalProgress
    <2>2. CASE ~IsLate(c) /\ ReleasePlayer(o)
        <3>1. player[o].key = c.key /\ player[o].key # 0
            BY <1>1, <2>2 DEF IsLate
        <3> DEFINE v == player[o].id
        <3>2. /\ mapPlayer' \in [Users -> Objs \cup {NoObj}] /\ player' \in [Objs -> PlayerSet]
              /\ \A x \in Objs : player'[x] = player[x] \/ player'[x] = Free
              /\ MapIsPool' /\ mapPlayer'[v] = NoObj
              /\ \A u \in Users : u # v =>
                    /\ mapPlayer'[u] = mapPlayer[u]
                    /\ Live(u) => player'[mapPlayer[u]] = player[mapPlayer[u]]
            BY <1>1, <2>2, <3>1, ReleaseFacts
        <3>3. v \in Users /\ mapPlayer[v] = o
            BY <1>1, <3>1, UsedFacts DEF PlayerInv
        <3>4. ~Loaded(v)
            <4>1. c \in Own(o)
                BY <3>1 DEF Own
            <4> QED BY <3>3, <4>1, LoadedFacts
        <3> HIDE DEF v
        <3>5. ASSUME NEW u \in Users
              PROVE  /\ Live(u)' => Live(u) /\ Object(u)' = Object(u)
                     /\ Loaded(u) => Loaded(u)'
            BY <3>2, <3>4 DEF Live, Object, Loaded, IsLoadFinish, totalProgress
        <3> QED BY <3>2, <3>5
    <2> QED BY <2>1, <2>2
<1>3. Quiet
    BY <1>2 DEF Quiet
<1>4. TypeOK'
    <2>1. calls' \in SUBSET Call
        BY Types
    <2> QED BY <1>2, <2>1 DEF TypeOK, PlayerSet, totalProgress, Call
<1>5. Finds'
    BY <1>3, FindsKept
<1>6. Rows'
    BY <1>2 DEF PlayerInv, Rows, Stored
<1>7. FindIsLast'
    BY <1>2 DEF PlayerInv, FindIsLast
<1> QED BY <1>2, <1>3, <1>4, <1>5, <1>6, <1>7, QuietKeeps DEF PlayerInv

\* An answer is counted, once.
LEMMA CountKeeps ==
    ASSUME TypeOK, PlayerInv, NEW c \in calls, calls' = calls \ {c}, ~IsLate(c),
           NEW state \in {"ok", "err"}, NEW decoded \in BOOLEAN,
           state = "ok" => c.state = "ok" \/ c.table # UserInfo,
           player' = [player EXCEPT ![c.obj] =
                        dbLoadCallBack(player[c.obj], [c EXCEPT !.state = state], decoded)],
           UNCHANGED <<mapPlayer, queue, row, lives, truth, excused>>
    PROVE  TypeOK' /\ PlayerInv'
<1> DEFINE o == c.obj
           b == player[o]
           p == dbLoadCallBack(b, [c EXCEPT !.state = state], decoded)
           bad == state = "err" \/ ~decoded
           takes == ~bad /\ c.table = UserInfo
<1>1. /\ c \in Call /\ o \in Objs /\ c.key # 0
      /\ b \in PlayerSet /\ b.key = c.key /\ c \in Own(o)
    BY Types DEF Call, Lives, IsLate, Own
<1>2. b.id \in Users /\ mapPlayer[b.id] = o /\ Live(b.id) /\ b.errProgress <= b.loadProgress
    BY <1>1, UsedFacts DEF PlayerInv, Keys
<1>3. /\ IsFiniteSet(Own(o)) /\ Cardinality(Own(o)) \in Nat
      /\ Cardinality(Own(o)) # 0
      /\ b.loadProgress + Cardinality(Own(o)) <= totalProgress
    BY <1>1, OwnType DEF PlayerInv, ProgressIsOwn, Own
<1>4. b.loadProgress \in Nat /\ b.errProgress \in Nat /\ totalProgress \in Nat
    BY <1>1, PlayerTypes, Totals
<1>5. b.loadProgress + 1 \in 0 .. totalProgress /\ b.errProgress + 1 \in 0 .. totalProgress
    <2> DEFINE l == b.loadProgress
               e == b.errProgress
               m == Cardinality(Own(o))
    <2>1. /\ l \in Nat /\ e \in Nat /\ m \in Nat /\ m # 0 /\ totalProgress \in Nat
          /\ l + m <= totalProgress /\ e <= l
        BY <1>2, <1>3, <1>4
    <2> HIDE DEF l, e, m
    <2>2. l + 1 \in 0 .. totalProgress /\ e + 1 \in 0 .. totalProgress
        BY <2>1
    <2> QED BY <2>2 DEF l, e
<1>6. p = [b EXCEPT !.loadProgress = b.loadProgress + 1,
                    !.errProgress = IF bad THEN b.errProgress + 1 ELSE b.errProgress,
                    !.data = IF takes THEN c.data ELSE b.data]
    BY <1>1 DEF dbLoadCallBack, Call, PlayerSet
<1>7. c.data \in Data \cup {NoData}
    BY <1>1 DEF Call
<1> HIDE DEF bad, takes, p
<1>8. /\ p \in PlayerSet /\ p.key = b.key /\ p.id = b.id
      /\ p.loadProgress = b.loadProgress + 1
      /\ p.errProgress = IF bad THEN b.errProgress + 1 ELSE b.errProgress
      /\ p.data = IF takes THEN c.data ELSE b.data
    BY <1>1, <1>5, <1>6, <1>7 DEF PlayerSet
<1>9. player' = [player EXCEPT ![o] = p] /\ player \in [Objs -> PlayerSet]
    BY Types DEF p
<1> HIDE DEF o
<1>10. /\ player' \in [Objs -> PlayerSet] /\ player'[o] = p
       /\ \A x \in Objs : x # o => player'[x] = player[x]
       /\ \A x \in Objs : player'[x].key = player[x].key /\ player'[x].id = player[x].id
    BY <1>1, <1>8, <1>9
<1>11. /\ Own(o)' = Own(o) \ {c}
       /\ Cardinality(Own(o)') = Cardinality(Own(o)) - 1
    <2>1. Own(o)' = Own(o) \ {c}
        BY <1>1, <1>10 DEF Own
    <2> QED BY <1>1, <1>3, <2>1, FS_RemoveElement
<1>12. ASSUME NEW x \in Objs, player[x].key # 0
       PROVE  /\ Own(x)' \in SUBSET Own(x)
              /\ Cardinality(Own(x)') \in Nat /\ Cardinality(Own(x)) \in Nat
              /\ Cardinality(Own(x)') <= Cardinality(Own(x))
              /\ Cardinality(Own(x)') = Cardinality(Own(x)) => Own(x)' = Own(x)
              /\ player[x].loadProgress \in Nat /\ totalProgress \in Nat
              /\ player[x].loadProgress + Cardinality(Own(x)) <= totalProgress
    <2>1. Own(x)' \in SUBSET Own(x)
        BY <1>10 DEF Own
    <2>2. IsFiniteSet(Own(x)) /\ Cardinality(Own(x)) \in Nat
        BY OwnType DEF PlayerInv
    <2>3. player[x].loadProgress \in Nat /\ totalProgress \in Nat
        BY Types, PlayerTypes, Totals
    <2>4. player[x].loadProgress + Cardinality(Own(x)) <= totalProgress
        BY <1>12 DEF PlayerInv, ProgressIsOwn, Own
    <2> QED BY <2>1, <2>2, <2>3, <2>4, FS_Subset, FS_CardinalityType
<1>13. \A u \in Users : Live(u)' = Live(u) /\ (Live(u) => mapPlayer[u] \in Objs)
    BY LiveFacts DEF Live, PlayerInv
<1>14. \A u \in Users : Live(u) => Object(u)'.key = Object(u).key /\ Object(u)'.id = Object(u).id
    BY <1>10, <1>13 DEF Object
<1>15. \A u \in Users : Loaded(u) => Loaded(u)'
    <2> SUFFICES ASSUME NEW u \in Users, Loaded(u) PROVE Loaded(u)'
        OBVIOUS
    <2>1. Own(mapPlayer[u]) = {}
        BY LoadedFacts
    <2>2. mapPlayer[u] # o
        BY <1>1, <2>1
    <2> QED BY <1>10, <1>13, <2>2 DEF Loaded, IsLoadFinish, Object, totalProgress
<1>16. TypeOK'
    <2>1. calls' \in SUBSET Call
        BY Types
    <2> QED BY <1>10, <2>1 DEF TypeOK, PlayerSet, totalProgress, Call
<1>17. MapIsPool'
    BY <1>10, <1>13, <1>14 DEF PlayerInv, MapIsPool
<1>18. ProgressIsOwn'
    <2> SUFFICES ASSUME NEW x \in Objs, player'[x].key # 0
                 PROVE  player'[x].loadProgress + Cardinality(Own(x)') <= totalProgress
        BY DEF ProgressIsOwn, Own, totalProgress
    <2>1. CASE x = o
        <3> DEFINE l == b.loadProgress
                   m == Cardinality(Own(o))
                   n == Cardinality(Own(o)')
        <3>1. /\ l \in Nat /\ m \in Nat /\ totalProgress \in Nat
              /\ l + m <= totalProgress /\ n = m - 1 /\ player'[o].loadProgress = l + 1
            BY <1>3, <1>4, <1>8, <1>10, <1>11
        <3> HIDE DEF l, m, n
        <3>2. l + 1 + n <= totalProgress
            BY <3>1
        <3> QED BY <2>1, <3>1, <3>2 DEF n
    <2>2. CASE x # o
        <3> DEFINE l == player[x].loadProgress
                   m == Cardinality(Own(x))
                   n == Cardinality(Own(x)')
        <3>1. /\ l \in Nat /\ m \in Nat /\ n \in Nat /\ totalProgress \in Nat
              /\ l + m <= totalProgress /\ n <= m /\ player'[x].loadProgress = l
            BY <1>10, <1>12, <2>2
        <3> HIDE DEF l, m, n
        <3>2. l + n <= totalProgress
            BY <3>1
        <3> QED BY <3>1, <3>2 DEF n
    <2> QED BY <2>1, <2>2
<1>19. Keys'
    <2>1. IsFiniteSet(calls')
        BY FS_Subset DEF PlayerInv, Keys
    <2>2. p.errProgress <= p.loadProgress
        BY <1>2, <1>4, <1>8
    <2> QED BY <1>2, <1>8, <1>10, <2>1, <2>2 DEF PlayerInv, Keys
<1>20. Finds'
    BY <1>10 DEF PlayerInv, Finds
<1>21. Answers'
    BY <1>10 DEF PlayerInv, Answers, Latest
<1>22. Loads'
    <2> SUFFICES ASSUME NEW x \in Objs, player'[x].key # 0, player'[x].errProgress = 0,
                        player'[x].loadProgress + Cardinality(Own(x)') = totalProgress,
                        \A a \in Own(x)' : a.table # UserInfo
                 PROVE  Latest(player'[x].data, player[x].id)
        BY <1>10 DEF Loads, Latest, totalProgress
    <2>1. CASE x = o
        <3>1. ~bad
            BY <1>4, <1>8, <1>10, <2>1
        <3>2. CASE takes
            <4>1. c.table = UserInfo /\ c.state = "ok"
                BY <3>2 DEF takes, bad
            <4>2. Latest(c.data, b.id)
                BY <1>1, <4>1 DEF PlayerInv, Answers, o
            <4> QED BY <1>8, <1>10, <2>1, <3>2, <4>2
        <3>3. CASE ~takes
            <4>1. c.table # UserInfo
                BY <3>1, <3>3 DEF takes
            <4>2. \A a \in Own(o) : a.table # UserInfo
                BY <1>11, <2>1, <4>1
            <4>3. b.errProgress = 0 /\ b.loadProgress + Cardinality(Own(o)) = totalProgress
                <5> DEFINE l == b.loadProgress
                           m == Cardinality(Own(o))
                           n == Cardinality(Own(o)')
                <5>1. /\ l \in Nat /\ m \in Nat /\ totalProgress \in Nat
                      /\ n = m - 1 /\ player'[o].loadProgress = l + 1
                      /\ player'[o].loadProgress + n = totalProgress
                    BY <1>3, <1>4, <1>8, <1>10, <1>11, <2>1
                <5>2. b.errProgress = 0
                    BY <1>8, <1>10, <2>1, <3>1
                <5> HIDE DEF l, m, n
                <5>3. l + m = totalProgress
                    BY <5>1
                <5> QED BY <5>2, <5>3 DEF l, m
            <4>4. Latest(b.data, b.id)
                BY <1>1, <4>2, <4>3 DEF PlayerInv, Loads
            <4> QED BY <1>8, <1>10, <2>1, <3>3, <4>4
        <3> QED BY <3>2, <3>3
    <2>2. CASE x # o
        <3> DEFINE l == player[x].loadProgress
                   m == Cardinality(Own(x))
                   n == Cardinality(Own(x)')
        <3>1. player'[x] = player[x] /\ player[x].key # 0
            BY <1>10, <2>2
        <3>2. /\ l \in Nat /\ m \in Nat /\ n \in Nat /\ totalProgress \in Nat
              /\ l + m <= totalProgress /\ n <= m /\ l + n = totalProgress
            BY <1>12, <3>1
        <3>3. m = n
            <4> HIDE DEF l, m, n
            <4> QED BY <3>2
        <3>4. Own(x)' = Own(x)
            BY <1>12, <3>1, <3>3
        <3> QED BY <3>1, <3>2, <3>3, <3>4 DEF PlayerInv, Loads
    <2> QED BY <2>1, <2>2
<1>23. Rows'
    BY <1>15 DEF PlayerInv, Rows, Stored
<1>24. FindIsLast'
    BY <1>13, <1>14 DEF PlayerInv, FindIsLast
<1> QED BY <1>16, <1>17, <1>18, <1>19, <1>20, <1>21, <1>22, <1>23, <1>24 DEF PlayerInv

LEMMA CallBackKeeps ==
    ASSUME TypeOK, PlayerInv, NEW c \in calls, Answer(c) \/ Fails(c) \/ MultiLoads(c)
    PROVE  TypeOK' /\ PlayerInv'
<1>1. PICK state \in {"ok", "err"}, decoded \in BOOLEAN :
        /\ CallBack(c, state, decoded)
        /\ state = "ok" => c.state = "ok" \/ c.table # UserInfo
    BY DEF Answer, Fails, MultiLoads
<1> DEFINE p == dbLoadCallBack(player[c.obj], [c EXCEPT !.state = state], decoded)
<1>2. calls' = calls \ {c} /\ UNCHANGED <<queue, row, lives, truth, excused>>
    BY <1>1 DEF CallBack
<1>3. \/ UNCHANGED <<mapPlayer, player>>
      \/ ~IsLate(c) /\ ReleasePlayer(c.obj)
      \/ ~IsLate(c) /\ player' = [player EXCEPT ![c.obj] = p] /\ UNCHANGED mapPlayer
    BY <1>1 DEF CallBack
<1> HIDE DEF p
<1>4. CASE \/ UNCHANGED <<mapPlayer, player>>
           \/ ~IsLate(c) /\ ReleasePlayer(c.obj)
    BY <1>2, <1>4, EndKeeps
<1>5. CASE ~IsLate(c) /\ player' = [player EXCEPT ![c.obj] = p] /\ UNCHANGED mapPlayer
    BY <1>1, <1>2, <1>5, CountKeeps DEF p
<1> QED BY <1>3, <1>4, <1>5

\* The queue of a user without its first request.
LEMMA TailKeeps ==
    ASSUME TypeOK, PlayerInv, NEW u \in Users, queue[u] # <<>>,
           queue' = [queue EXCEPT ![u] = Tail(@)], excused \subseteq excused',
           UNCHANGED <<mapPlayer, player, lives>>
    PROVE  /\ queue' \in [Users -> Seq(Request)] /\ queue'[u] = Tail(queue[u])
           /\ \A v \in Users : v # u => queue'[v] = queue[v]
           /\ \A v \in Users : Live(v)' = Live(v) /\ Object(v)' = Object(v)
           /\ \A v \in Users : Loaded(v)' = Loaded(v)
           /\ \A v \in Users : \A i \in Upsets(queue'[v]) : queue'[v][i].data.owner = v
           /\ Finds' /\ FindIsLast'
<1> DEFINE q == queue[u]
<1>1. q \in Seq(Request) /\ queue \in [Users -> Seq(Request)]
    BY Types
<1>2. /\ Tail(q) \in Seq(Request)
      /\ \A i \in DOMAIN Tail(q) : i + 1 \in DOMAIN q /\ Tail(q)[i] = q[i + 1]
      /\ \A i \in Upsets(Tail(q)) : i + 1 \in Upsets(q) /\ Tail(q)[i] = q[i + 1]
    BY <1>1, TailPlaces
<1>3. /\ queue' \in [Users -> Seq(Request)] /\ queue'[u] = Tail(q)
      /\ \A v \in Users : v # u => queue'[v] = queue[v]
    BY <1>1, <1>2
<1>4. /\ \A v \in Users : Live(v)' = Live(v) /\ Object(v)' = Object(v)
      /\ \A v \in Users : Loaded(v)' = Loaded(v)
    BY DEF Live, Object, Loaded, IsLoadFinish, totalProgress
<1>5. Finds'
    <2> SUFFICES ASSUME NEW v \in Users, NEW i \in DOMAIN queue'[v], queue'[v][i].op = "find"
                 PROVE  /\ queue'[v][i].key <= lives
                        /\ \A o \in Objs : player[o].key = queue'[v][i].key => player[o].id = v
        BY DEF Finds
    <2>1. PICK j \in DOMAIN queue[v] : queue'[v][i] = queue[v][j]
        BY <1>2, <1>3
    <2> QED BY <2>1 DEF PlayerInv, Finds
<1>6. FindIsLast'
    <2> SUFFICES ASSUME NEW v \in Users, Live(v), v \notin excused,
                        NEW i \in DOMAIN queue'[v], NEW j \in Upsets(queue'[v]),
                        queue'[v][i] = Find(Object(v).key)
                 PROVE  j < i
        BY <1>4 DEF FindIsLast, Find
    <2>1. CASE v = u
        <3>1. i \in DOMAIN Tail(q) /\ j \in Upsets(Tail(q))
            BY <1>3, <2>1
        <3>2. j + 1 < i + 1
            BY <1>2, <1>3, <2>1, <3>1 DEF PlayerInv, FindIsLast
        <3>3. i \in Nat /\ j \in Nat
            <4> DEFINE t == Tail(q)
            <4>1. t \in Seq(Request) /\ i \in DOMAIN t /\ j \in Upsets(t)
                BY <1>2, <3>1
            <4> HIDE DEF t
            <4> QED BY <4>1, UpsetsType
        <3> QED BY <3>2, <3>3
    <2>2. CASE v # u
        BY <1>3, <2>2 DEF PlayerInv, FindIsLast
    <2> QED BY <2>1, <2>2
<1>7. ASSUME NEW v \in Users, NEW i \in Upsets(queue'[v]) PROVE queue'[v][i].data.owner = v
    <2>1. CASE v = u
        <3>1. i + 1 \in Upsets(queue[u]) /\ queue'[v][i] = queue[u][i + 1]
            <4>1. i \in Upsets(Tail(q)) /\ queue'[v][i] = Tail(q)[i]
                BY <1>3, <1>7, <2>1
            <4> QED BY <1>2, <4>1
        <3>2. PICK j \in Upsets(queue[u]) : queue'[v][i] = queue[u][j]
            BY <3>1
        <3>3. queue[u][j].data.owner = u
            BY <3>2 DEF PlayerInv, Rows
        <3> QED BY <2>1, <3>2, <3>3
    <2>2. CASE v # u
        BY <1>3, <1>7, <2>2 DEF PlayerInv, Rows
    <2> QED BY <2>1, <2>2
<1> QED BY <1>3, <1>4, <1>5, <1>6, <1>7

LEMMA StoresKeeps ==
    ASSUME TypeOK, PlayerInv, NEW u \in Users, DBExecutes(u), Head(queue[u]).op = "upset"
    PROVE  TypeOK' /\ PlayerInv'
<1> DEFINE q == queue[u]
           d == q[1].data
<1>1. q \in Seq(Request) /\ q # <<>> /\ Head(q) = q[1] /\ q[1] \in Request /\ 1 \in DOMAIN q
    BY Types, TailPlaces DEF DBExecutes
<1>2. d.owner = u /\ d \in Data
    BY <1>1, RequestFacts DEF PlayerInv, Rows, Upsets
<1>3. /\ queue' = [queue EXCEPT ![u] = Tail(@)] /\ row' = [row EXCEPT ![u] = d]
      /\ UNCHANGED <<mapPlayer, player, calls, lives, truth, excused>>
    BY <1>1, <1>2 DEF DBExecutes
<1>4. /\ queue' \in [Users -> Seq(Request)] /\ queue'[u] = Tail(q)
      /\ \A v \in Users : v # u => queue'[v] = queue[v]
      /\ \A v \in Users : Loaded(v)' = Loaded(v)
      /\ \A v \in Users : \A i \in Upsets(queue'[v]) : queue'[v][i].data.owner = v
      /\ Finds' /\ FindIsLast'
    BY <1>1, <1>3, TailKeeps
<1> HIDE DEF d
<1>5. /\ row' \in [Users -> Data] /\ row'[u] = d
      /\ \A v \in Users : v # u => row'[v] = row[v]
    BY <1>2, <1>3, Types
<1>6. TypeOK'
    BY <1>3, <1>4, <1>5 DEF TypeOK, totalProgress, Call, Request
<1>7. MapIsPool' /\ ProgressIsOwn' /\ Keys' /\ Answers' /\ Loads'
    BY <1>3 DEF PlayerInv, MapIsPool, ProgressIsOwn, Keys, Answers, Loads,
        Latest, Own, Live, Object, totalProgress
<1>8. Rows'
    <2>1. \A v \in Users : row'[v].owner = v
        BY <1>2, <1>5 DEF PlayerInv, Rows
    <2>2. ASSUME NEW v \in Users PROVE Stored(v)' = Stored(v)
        <3>1. CASE v = u
            <4>1. Value(Tail(q), d) = Value(q, row[u])
                BY <1>1, ValueTail DEF d
            <4> QED BY <1>4, <1>5, <3>1, <4>1 DEF Stored, Value
        <3>2. CASE v # u
            BY <1>4, <1>5, <3>2 DEF Stored
        <3> QED BY <3>1, <3>2
    <2> QED BY <1>3, <1>4, <2>1, <2>2 DEF PlayerInv, Rows
<1> QED BY <1>4, <1>6, <1>7, <1>8 DEF PlayerInv

LEMMA LosesKeeps ==
    ASSUME TypeOK, PlayerInv, NEW u \in Users, DBLoses(u)
    PROVE  TypeOK' /\ PlayerInv'
<1> DEFINE q == queue[u]
<1>1. q \in Seq(Request) /\ q # <<>> /\ Head(q) = q[1] /\ q[1] \in Request
    BY Types, TailPlaces DEF DBLoses
<1>2. /\ queue' = [queue EXCEPT ![u] = Tail(@)]
      /\ excused' = IF q[1].op = "upset" THEN excused \cup {u} ELSE excused
      /\ UNCHANGED <<mapPlayer, player, calls, row, lives, truth>>
    BY <1>1 DEF DBLoses
<1>3. /\ queue' \in [Users -> Seq(Request)] /\ queue'[u] = Tail(q)
      /\ \A v \in Users : v # u => queue'[v] = queue[v]
      /\ \A v \in Users : Live(v)' = Live(v) /\ Object(v)' = Object(v)
      /\ \A v \in Users : Loaded(v)' = Loaded(v)
      /\ \A v \in Users : \A i \in Upsets(queue'[v]) : queue'[v][i].data.owner = v
      /\ Finds' /\ FindIsLast'
    BY <1>1, <1>2, TailKeeps
<1>4. Quiet
    BY <1>2, Types DEF Quiet
<1>5. TypeOK'
    <2>1. excused' \in SUBSET Users
        BY <1>2, Types
    <2> QED BY <1>2, <1>3, <2>1 DEF TypeOK, totalProgress, Call, Request
<1>6. MapIsPool'
    BY <1>2, <1>3 DEF PlayerInv, MapIsPool
<1>7. Rows'
    <2>1. ASSUME NEW v \in Users, v \notin excused' PROVE Stored(v)' = Stored(v)
        <3>1. CASE v = u
            <4>1. q[1].op # "upset"
                BY <1>2, <2>1, <3>1
            <4>2. Value(Tail(q), row[u]) = Value(q, row[u])
                BY <1>1, <4>1, ValueTail
            <4> QED BY <1>2, <1>3, <3>1, <4>2 DEF Stored, Value
        <3>2. CASE v # u
            BY <1>2, <1>3, <3>2 DEF Stored
        <3> QED BY <3>1, <3>2
    <2> QED BY <1>2, <1>3, <2>1 DEF PlayerInv, Rows
<1> QED BY <1>3, <1>4, <1>5, <1>6, <1>7, QuietKeeps DEF PlayerInv

LEMMA DBRestartsKeeps == TypeOK /\ PlayerInv /\ DBRestarts => TypeOK' /\ PlayerInv'
<1> SUFFICES ASSUME TypeOK, PlayerInv, DBRestarts PROVE TypeOK' /\ PlayerInv'
    OBVIOUS
<1>1. /\ queue' = [u \in Users |-> <<>>]
      /\ excused' = excused \cup {u \in Users : Upsets(queue[u]) # {}}
      /\ UNCHANGED <<mapPlayer, player, calls, row, lives, truth>>
    BY DEF DBRestarts
<1>2. /\ \A u \in Users : Live(u)' = Live(u) /\ Object(u)' = Object(u)
      /\ \A u \in Users : Loaded(u)' = Loaded(u)
      /\ \A u \in Users : Upsets(queue'[u]) = {} /\ DOMAIN queue'[u] = {}
    BY <1>1 DEF Live, Object, Loaded, IsLoadFinish, totalProgress, Upsets
<1>3. Quiet
    BY <1>1, Types DEF Quiet
<1>4. TypeOK'
    <2>1. excused' \in SUBSET Users /\ queue' \in [Users -> Seq(Request)]
        BY <1>1, Types
    <2> QED BY <1>1, <2>1 DEF TypeOK, totalProgress, Call, Request
<1>5. MapIsPool'
    BY <1>1, <1>2 DEF PlayerInv, MapIsPool
<1>6. Finds' /\ FindIsLast'
    BY <1>2 DEF Finds, FindIsLast
<1>7. Rows'
    <2>1. ASSUME NEW u \in Users, u \notin excused' PROVE u \notin excused /\ Stored(u)' = Stored(u)
        BY <1>1, <1>2, <2>1 DEF Stored
    <2> QED BY <1>1, <1>2, <2>1 DEF PlayerInv, Rows
<1> QED BY <1>3, <1>4, <1>5, <1>6, <1>7, QuietKeeps DEF PlayerInv

LEMMA DisturbKeeps ==
    ASSUME TypeOK, PlayerInv, NEW u \in Users, Disturb(u)
    PROVE  TypeOK' /\ PlayerInv'
<1>1. PICK d \in Past(u) \cup {row[u]} : row' = [row EXCEPT ![u] = d]
    BY DEF Disturb
<1>2. d \in Data /\ d.owner = u
    BY Types DEF Past, PlayerInv, Rows
<1>3. /\ row' \in [Users -> Data] /\ \A v \in Users : row'[v].owner = v
      /\ \A v \in Users : v # u => row'[v] = row[v]
    BY <1>1, <1>2, Types DEF PlayerInv, Rows
<1>4. excused' = excused \cup {u} /\ UNCHANGED <<mapPlayer, player, calls, queue, lives, truth>>
    BY DEF Disturb
<1>5. /\ \A v \in Users : Live(v)' = Live(v) /\ Object(v)' = Object(v)
      /\ \A v \in Users : Loaded(v)' = Loaded(v)
    BY <1>4 DEF Live, Object, Loaded, IsLoadFinish, totalProgress
<1>6. Quiet
    BY <1>4, Types DEF Quiet
<1>7. TypeOK'
    <2>1. excused' \in SUBSET Users
        BY <1>4, Types
    <2> QED BY <1>3, <1>4, <2>1 DEF TypeOK, totalProgress, Call, Request
<1>8. MapIsPool'
    BY <1>4, <1>5 DEF PlayerInv, MapIsPool
<1>9. Finds' /\ FindIsLast'
    BY <1>4, <1>5 DEF PlayerInv, Finds, FindIsLast, Find
<1>10. Rows'
    <2>1. ASSUME NEW v \in Users, v \notin excused' PROVE v \notin excused /\ Stored(v)' = Stored(v)
        BY <1>3, <1>4, <2>1 DEF Stored
    <2> QED BY <1>3, <1>4, <1>5, <2>1 DEF PlayerInv, Rows
<1> QED BY <1>6, <1>7, <1>8, <1>9, <1>10, QuietKeeps DEF PlayerInv

\* An answer changes no call but its own, and no call's key.
LEMMA AnsweredFacts ==
    ASSUME TypeOK, PlayerInv, NEW k \in Lives, NEW d \in Data, calls' = Answered(k, d),
           UNCHANGED player
    PROVE  /\ IsFiniteSet(calls') /\ calls' \in SUBSET Call
           /\ \A a \in calls' : \E c \in calls :
                /\ a.key = c.key
                /\ a = c \/ (c.key = k /\ c.table = UserInfo /\ a.data = d)
           /\ \A o \in Objs :
                /\ Cardinality(Own(o)') \in Nat
                /\ Cardinality(Own(o)') <= Cardinality(Own(o))
                /\ \A c \in Own(o) : \E a \in Own(o)' : a.table = c.table
<1> DEFINE U(c) == IF c.key = k /\ c.table = UserInfo /\ c.state = "sent"
                   THEN [c EXCEPT !.state = "ok", !.data = d] ELSE c
<1>1. \A c \in calls :
        /\ U(c) \in Call /\ U(c).key = c.key /\ U(c).table = c.table
        /\ U(c) = c \/ (c.key = k /\ c.table = UserInfo /\ U(c).data = d)
    BY Types DEF Call
<1>2. calls' = {U(c) : c \in calls}
    BY DEF Answered
<1>3. /\ IsFiniteSet(calls)
      /\ \A o \in Objs : IsFiniteSet(Own(o)) /\ Cardinality(Own(o)) \in Nat
    BY OwnType DEF PlayerInv, Keys
<1> HIDE DEF U
<1>4. \A c \in calls : U(c) \in calls'
    BY <1>2
<1>5. ASSUME NEW S \in SUBSET calls
      PROVE  /\ IsFiniteSet({U(c) : c \in S})
             /\ Cardinality({U(c) : c \in S}) \in Nat
             /\ Cardinality({U(c) : c \in S}) <= Cardinality(S)
    <2> DEFINE T == {U(c) : c \in S}
               f == [c \in S |-> U(c)]
    <2>1. f \in Surjection(S, T)
        BY DEF Surjection
    <2> HIDE DEF f, T
    <2>2. IsFiniteSet(S)
        BY <1>3, FS_Subset
    <2>3. IsFiniteSet(T) /\ Cardinality(T) <= Cardinality(S) /\ Cardinality(T) \in Nat
        BY <2>1, <2>2, FS_Surjection, FS_CardinalityType
    <2> QED BY <2>3 DEF T
<1>6. IsFiniteSet(calls')
    BY <1>2, <1>5
<1>7. ASSUME NEW o \in Objs
      PROVE  /\ Cardinality(Own(o)') \in Nat
             /\ Cardinality(Own(o)') <= Cardinality(Own(o))
             /\ \A c \in Own(o) : \E a \in Own(o)' : a.table = c.table
    <2>1. Own(o) \in SUBSET calls
        BY DEF Own
    <2>2. Own(o)' = {U(c) : c \in Own(o)}
        BY <1>1, <1>2 DEF Own
    <2>3. \A c \in Own(o) : U(c) \in Own(o)' /\ U(c).table = c.table
        BY <1>1, <2>1, <2>2
    <2> QED BY <1>5, <2>1, <2>2, <2>3
<1> QED BY <1>1, <1>2, <1>6, <1>7

LEMMA FindsKeeps ==
    ASSUME TypeOK, PlayerInv, NEW u \in Users, DBExecutes(u), Head(queue[u]).op = "find"
    PROVE  TypeOK' /\ PlayerInv'
<1> DEFINE q == queue[u]
           k == q[1].key
<1>1. /\ q \in Seq(Request) /\ q # <<>> /\ Head(q) = q[1] /\ q[1] \in Request
      /\ 1 \in DOMAIN q
    BY Types, TailPlaces DEF DBExecutes
<1>2. k \in Lives /\ q[1] = Find(k)
    BY <1>1, RequestFacts
<1>3. PICK d \in MayAnswer(u) :
      /\ queue' = [queue EXCEPT ![u] = Tail(@)] /\ calls' = Answered(k, d)
      /\ UNCHANGED <<mapPlayer, player, row, lives, truth, excused>>
    BY <1>1 DEF DBExecutes
<1>4. /\ queue' \in [Users -> Seq(Request)] /\ queue'[u] = Tail(q)
      /\ \A v \in Users : v # u => queue'[v] = queue[v]
      /\ \A v \in Users : Live(v)' = Live(v) /\ Object(v)' = Object(v)
      /\ \A v \in Users : Loaded(v)' = Loaded(v)
      /\ \A v \in Users : \A i \in Upsets(queue'[v]) : queue'[v][i].data.owner = v
      /\ Finds' /\ FindIsLast'
    BY <1>1, <1>3, TailKeeps
<1>doc. d \in Data /\ d.owner = u /\ (u \notin excused => d = row[u])
    BY <1>3, Types DEF MayAnswer, Past, PlayerInv, Rows
<1> HIDE DEF k
<1>5. /\ IsFiniteSet(calls') /\ calls' \in SUBSET Call
      /\ \A a \in calls' : \E c \in calls :
            /\ a.key = c.key
            /\ a = c \/ (c.key = k /\ c.table = UserInfo /\ a.data = d)
      /\ \A o \in Objs :
            /\ Cardinality(Own(o)') \in Nat
            /\ Cardinality(Own(o)') <= Cardinality(Own(o))
            /\ \A c \in Own(o) : \E a \in Own(o)' : a.table = c.table
    BY <1>1, <1>2, <1>3, <1>doc, AnsweredFacts
<1>6. ASSUME NEW o \in Objs, player[o].key # 0
      PROVE  /\ Cardinality(Own(o)') \in Nat /\ Cardinality(Own(o)) \in Nat
             /\ Cardinality(Own(o)') <= Cardinality(Own(o))
             /\ player[o].loadProgress \in Nat /\ totalProgress \in Nat
             /\ player[o].loadProgress + Cardinality(Own(o)) <= totalProgress
    <2>1. Cardinality(Own(o)) \in Nat
        BY OwnType DEF PlayerInv
    <2>2. player[o].loadProgress \in Nat /\ totalProgress \in Nat
        BY Types, PlayerTypes, Totals
    <2>3. player[o].loadProgress + Cardinality(Own(o)) <= totalProgress
        BY <1>6 DEF PlayerInv, ProgressIsOwn, Own
    <2> QED BY <1>5, <2>1, <2>2, <2>3
<1>7. TypeOK'
    BY <1>3, <1>4, <1>5 DEF TypeOK, totalProgress, Call, Request
<1>8. MapIsPool'
    BY <1>3, <1>4 DEF PlayerInv, MapIsPool
<1>9. ProgressIsOwn'
    <2> SUFFICES ASSUME NEW o \in Objs, player[o].key # 0
                 PROVE  player[o].loadProgress + Cardinality(Own(o)') <= totalProgress
        BY <1>3 DEF ProgressIsOwn, Own, totalProgress
    <2> DEFINE l == player[o].loadProgress
               m == Cardinality(Own(o))
               n == Cardinality(Own(o)')
    <2>1. /\ l \in Nat /\ m \in Nat /\ n \in Nat /\ totalProgress \in Nat
          /\ l + m <= totalProgress /\ n <= m
        BY <1>6
    <2> HIDE DEF l, m, n
    <2>2. l + n <= totalProgress
        BY <2>1
    <2> QED BY <2>2 DEF l, n
<1>10. Keys'
    BY <1>3, <1>5 DEF PlayerInv, Keys
<1>11. Answers'
    <2> SUFFICES ASSUME NEW a \in calls', NEW o \in Objs,
                        a.key = player[o].key, a.table = UserInfo, a.state = "ok"
                 PROVE  Latest(a.data, player[o].id)
        BY <1>3 DEF Answers, Latest
    <2>1. PICK c \in calls :
            /\ a.key = c.key
            /\ a = c \/ (c.key = k /\ c.table = UserInfo /\ a.data = d)
        BY <1>5
    <2>2. CASE a = c
        BY <2>2 DEF PlayerInv, Answers
    <2>3. CASE c.key = k /\ a.data = d
        <3>1. player[o].key = k /\ player[o].key # 0 /\ player[o].id = u
            <4>1. player[o].key = k /\ k # 0
                BY <1>2, <2>1, <2>3 DEF Lives
            <4>2. queue[u][1].op = "find" /\ queue[u][1].key = k /\ 1 \in DOMAIN queue[u]
                BY <1>1 DEF k
            <4>3. player[o].id = u
                BY <4>1, <4>2 DEF PlayerInv, Finds
            <4> QED BY <4>1, <4>3
        <3>2. Live(u) /\ mapPlayer[u] = o /\ Object(u).key = k
            BY <3>1, UsedFacts DEF PlayerInv
        <3>3. ~Loaded(u)
            <4>1. c \in Own(o)
                BY <2>3, <3>1 DEF Own
            <4> QED BY <3>2, <4>1, LoadedFacts
        <3>4. u \notin excused => Upsets(q) = {}
            <4> SUFFICES ASSUME u \notin excused, NEW j \in Upsets(q) PROVE FALSE
                OBVIOUS
            <4>1. j < 1
                BY <1>1, <1>2, <3>2 DEF PlayerInv, FindIsLast
            <4>2. j \in 1 .. Len(q)
                BY <1>1, UpsetsType
            <4> QED BY <4>1, <4>2
        <3>5. u \notin excused => d.n = truth[u]
            <4> SUFFICES ASSUME u \notin excused PROVE d.n = truth[u]
                OBVIOUS
            <4>1. Stored(u) = d
                BY <1>doc, <3>4 DEF Stored
            <4> QED BY <3>3, <4>1 DEF PlayerInv, Rows
        <3>6. d.owner = u
            BY <1>doc
        <3> QED BY <2>3, <3>1, <3>5, <3>6 DEF Latest
    <2> QED BY <2>1, <2>2, <2>3
<1>12. Loads'
    <2> SUFFICES ASSUME NEW o \in Objs, player[o].key # 0, player[o].errProgress = 0,
                        player[o].loadProgress + Cardinality(Own(o)') = totalProgress,
                        \A a \in Own(o)' : a.table # UserInfo
                 PROVE  Latest(player[o].data, player[o].id)
        BY <1>3 DEF Loads, Latest, totalProgress
    <2> DEFINE l == player[o].loadProgress
               m == Cardinality(Own(o))
               n == Cardinality(Own(o)')
    <2>1. /\ l \in Nat /\ m \in Nat /\ n \in Nat /\ totalProgress \in Nat
          /\ l + m <= totalProgress /\ n <= m /\ l + n = totalProgress
        BY <1>6
    <2>2. l + m = totalProgress
        <3> HIDE DEF l, m, n
        <3> QED BY <2>1
    <2>3. \A c \in Own(o) : c.table # UserInfo
        BY <1>5
    <2> QED BY <2>2, <2>3 DEF PlayerInv, Loads
<1>13. Rows'
    <2>1. ASSUME NEW v \in Users PROVE Stored(v)' = Stored(v)
        <3>1. CASE v = u
            <4>1. q[1].op # "upset"
                BY <1>1
            <4>2. Value(Tail(q), row[u]) = Value(q, row[u])
                BY <1>1, <4>1, ValueTail
            <4> QED BY <1>3, <1>4, <3>1, <4>2 DEF Stored, Value
        <3>2. CASE v # u
            BY <1>3, <1>4, <3>2 DEF Stored
        <3> QED BY <3>1, <3>2
    <2> QED BY <1>3, <1>4, <2>1 DEF PlayerInv, Rows
<1> QED BY <1>4, <1>7, <1>8, <1>9, <1>10, <1>11, <1>12, <1>13 DEF PlayerInv

\* The calls of a new life and those it could not send are as many as there
\* are tables; without the one of UserInfo they are fewer.
LEMMA SentTables ==
    ASSUME NEW sent \in SUBSET Tables
    PROVE  /\ IsFiniteSet(sent) /\ Cardinality(sent) \in Nat
           /\ Cardinality(MultiTables \ sent) \in Nat
           /\ Cardinality(MultiTables \ sent) + Cardinality(sent) <= totalProgress
           /\ UserInfo \notin sent =>
                Cardinality(MultiTables \ sent) + Cardinality(sent) < totalProgress
<1> DEFINE rest == MultiTables \ sent
<1>1. /\ IsFiniteSet(Tables) /\ totalProgress \in Nat /\ Cardinality(MultiTables) \in Nat
      /\ totalProgress = Cardinality(MultiTables) + 1 /\ IsFiniteSet(MultiTables)
    BY Totals, PlayerDBAssumption
<1>2. sent \subseteq Tables /\ rest \subseteq Tables /\ rest \cap sent = {}
    BY DEF Tables
<1>3. IsFiniteSet(sent) /\ Cardinality(sent) \in Nat /\ IsFiniteSet(rest) /\ Cardinality(rest) \in Nat
    BY <1>1, <1>2, FS_Subset, FS_CardinalityType
<1> HIDE DEF rest
<1>4. Cardinality(rest \cup sent) = Cardinality(rest) + Cardinality(sent)
    <2> DEFINE all == Cardinality(rest \cup sent)
               a == Cardinality(rest)
               b == Cardinality(sent)
    <2>1. Cardinality(rest \cap sent) = 0
        BY <1>2, FS_EmptySet
    <2>2. all = a + b - Cardinality(rest \cap sent)
        BY <1>3, FS_Union
    <2>3. a \in Nat /\ b \in Nat
        BY <1>3
    <2> HIDE DEF all, a, b
    <2>4. all = a + b
        BY <2>1, <2>2, <2>3
    <2> QED BY <2>4 DEF all, a, b
<1>5. Cardinality(rest \cup sent) <= totalProgress
    <2>1. rest \cup sent \in SUBSET Tables
        BY <1>2
    <2> QED BY <1>1, <2>1, FS_Subset DEF totalProgress
<1>6. UserInfo \notin sent => Cardinality(rest \cup sent) <= Cardinality(MultiTables)
    <2>1. UserInfo \notin sent => rest \cup sent \in SUBSET MultiTables
        BY DEF rest, Tables
    <2> QED BY <1>1, <2>1, FS_Subset
<1>7. UserInfo \notin sent => Cardinality(rest) + Cardinality(sent) < totalProgress
    BY <1>1, <1>3, <1>4, <1>6
<1> QED BY <1>3, <1>4, <1>5, <1>7 DEF rest

LEMMA LoginKeeps ==
    ASSUME TypeOK, PlayerInv, NEW u \in Users, mapPlayer[u] = NoObj, RPC_Login(u)
    PROVE  TypeOK' /\ PlayerInv'
<1>1. PICK o \in Objs :
        /\ player[o].key = 0 /\ lives < MaxLives /\ lives' = lives + 1
        /\ mapPlayer' = [mapPlayer EXCEPT ![u] = o]
        /\ LoadFromDB(o, lives + 1, u)
    BY DEF RPC_Login
<1> DEFINE k == lives + 1
           Ask(t) == [obj |-> o, key |-> k, table |-> t, state |-> "sent", data |-> NoData]
<1>2. PICK sent \in SUBSET Tables :
        /\ calls' = calls \cup {Ask(t) : t \in sent}
        /\ queue' = IF UserInfo \in sent
                    THEN [queue EXCEPT ![u] = Append(@, Find(k))] ELSE queue
        /\ player' = [player EXCEPT ![o] = [Free EXCEPT !.key = k, !.id = u,
                          !.loadProgress = Cardinality(MultiTables \ sent),
                          !.errProgress = Cardinality(MultiTables \ sent)]]
    BY <1>1 DEF LoadFromDB
<1> DEFINE failed == Cardinality(MultiTables \ sent)
           p == [Free EXCEPT !.key = k, !.id = u, !.loadProgress = failed,
                             !.errProgress = failed]
           news == {Ask(t) : t \in sent}
<1>3. /\ IsFiniteSet(sent) /\ Cardinality(sent) \in Nat /\ failed \in Nat
      /\ failed + Cardinality(sent) <= totalProgress
      /\ UserInfo \notin sent => failed + Cardinality(sent) < totalProgress
      /\ totalProgress \in Nat
    BY SentTables, Totals
<1>4. /\ lives \in Nat /\ k \in Lives /\ k # 0
      /\ mapPlayer \in [Users -> Objs \cup {NoObj}] /\ player \in [Objs -> PlayerSet]
    BY <1>1, Types, PlayerDBAssumption DEF Lives
<1>5. \A t \in sent : Ask(t) \in Call /\ Ask(t).key = k /\ Ask(t).state = "sent" /\ Ask(t).table = t
    BY <1>4 DEF Call
<1>6. /\ IsFiniteSet(news) /\ Cardinality(news) \in Nat /\ Cardinality(news) <= Cardinality(sent)
    <2> DEFINE f == [t \in sent |-> Ask(t)]
    <2>1. f \in Surjection(sent, news)
        BY DEF Surjection
    <2> HIDE DEF f, news
    <2> QED BY <1>3, <2>1, FS_Surjection, FS_CardinalityType
<1> HIDE DEF failed, Ask
<1>7. failed \in 0 .. totalProgress
    <2> DEFINE m == Cardinality(sent)
    <2>1. m \in Nat /\ failed \in Nat /\ failed + m <= totalProgress /\ totalProgress \in Nat
        BY <1>3
    <2> HIDE DEF m
    <2> QED BY <2>1
<1>8. /\ p \in PlayerSet /\ p.key = k /\ p.id = u /\ p.loadProgress = failed
      /\ p.errProgress = failed /\ p.data = NoData
    <2> HIDE DEF k
    <2> QED BY <1>4, <1>7 DEF PlayerSet, Free
<1>9. /\ player' = [player EXCEPT ![o] = p] /\ calls' = calls \cup news
      /\ UNCHANGED <<row, truth, excused>>
    BY <1>2 DEF failed, RPC_Login
<1> HIDE DEF p, news
<1>10. /\ player' \in [Objs -> PlayerSet] /\ player'[o] = p
       /\ \A x \in Objs : x # o => player'[x] = player[x]
       /\ mapPlayer' \in [Users -> Objs \cup {NoObj}] /\ mapPlayer'[u] = o
       /\ \A v \in Users : v # u => mapPlayer'[v] = mapPlayer[v]
    BY <1>1, <1>4, <1>8, <1>9
<1>11. \A c \in news : c \in Call /\ c.key = k /\ c.state = "sent"
    BY <1>5 DEF news
<1>12. \A c \in calls : c.key <= lives /\ c.key # k /\ c \in Call
    <2> SUFFICES ASSUME NEW c \in calls PROVE c.key <= lives /\ c.key # k /\ c \in Call
        OBVIOUS
    <2>1. c.key <= lives /\ c \in Call
        BY Types DEF PlayerInv, Keys
    <2>2. c.key \in Nat
        BY <2>1 DEF Call, Lives
    <2> QED BY <1>4, <2>1, <2>2
<1>13. \A x \in Objs : player[x].key \in Nat /\ player[x].key <= lives /\ player[x].key # k
    <2> SUFFICES ASSUME NEW x \in Objs
                 PROVE  player[x].key \in Nat /\ player[x].key <= lives /\ player[x].key # k
        OBVIOUS
    <2>1. player[x].key \in Nat /\ player[x].key <= lives
        BY <1>4, PlayerTypes DEF PlayerInv, Keys
    <2> QED BY <1>4, <2>1
<1>14. Own(o)' = news
    BY <1>8, <1>9, <1>10, <1>11, <1>12 DEF Own
<1>15. \A x \in Objs : x # o => Own(x)' = Own(x)
    BY <1>9, <1>10, <1>11, <1>13 DEF Own
<1>16. /\ queue' \in [Users -> Seq(Request)]
       /\ \A v \in Users : v # u => queue'[v] = queue[v]
       /\ Upsets(queue'[u]) = Upsets(queue[u])
       /\ Value(queue'[u], row[u]) = Value(queue[u], row[u])
       /\ \A i \in DOMAIN queue'[u] :
            \/ i \in DOMAIN queue[u] /\ queue'[u][i] = queue[u][i]
            \/ i = Len(queue[u]) + 1 /\ queue'[u][i] = Find(k)
       /\ \A i \in Upsets(queue[u]) : queue'[u][i] = queue[u][i]
    <2> DEFINE q == queue[u]
    <2>1. q \in Seq(Request) /\ queue \in [Users -> Seq(Request)]
        BY Types
    <2>2. \A i \in Upsets(q) : i \in DOMAIN q
        BY DEF Upsets
    <2>3. CASE UserInfo \in sent
        <3> DEFINE s == Append(q, Find(k))
        <3>1. queue' = [queue EXCEPT ![u] = s]
            BY <1>2, <2>3
        <3>2. /\ s \in Seq(Request)
              /\ \A i \in DOMAIN q : s[i] = q[i]
              /\ \A i \in DOMAIN s :
                    \/ i \in DOMAIN q /\ s[i] = q[i]
                    \/ i = Len(q) + 1 /\ s[i] = Find(k)
              /\ Upsets(s) = Upsets(q) /\ Value(s, row[u]) = Value(q, row[u])
            <4> HIDE DEF k, q
            <4> QED BY <1>4, <2>1, AppendFind
        <3> HIDE DEF s
        <3>3. queue' \in [Users -> Seq(Request)] /\ queue'[u] = s
            BY <2>1, <3>1, <3>2
        <3>4. \A v \in Users : v # u => queue'[v] = queue[v]
            BY <2>1, <3>1
        <3>5. Upsets(queue'[u]) = Upsets(q) /\ Value(queue'[u], row[u]) = Value(q, row[u])
            BY <3>2, <3>3
        <3>6. /\ \A i \in DOMAIN queue'[u] :
                    \/ i \in DOMAIN q /\ queue'[u][i] = q[i]
                    \/ i = Len(q) + 1 /\ queue'[u][i] = Find(k)
              /\ \A i \in Upsets(q) : queue'[u][i] = q[i]
            <4> HIDE DEF q, k
            <4> QED BY <2>2, <3>2, <3>3
        <3> QED BY <3>3, <3>4, <3>5, <3>6
    <2>4. CASE UserInfo \notin sent
        BY <1>2, <2>1, <2>4
    <2> QED BY <2>3, <2>4
<1>17. \A v \in Users : v # u =>
        /\ Live(v)' = Live(v) /\ Loaded(v)' = Loaded(v)
        /\ Live(v) => mapPlayer[v] # o /\ Object(v)' = Object(v)
    <2> SUFFICES ASSUME NEW v \in Users, v # u
                 PROVE  /\ Live(v)' = Live(v) /\ Loaded(v)' = Loaded(v)
                        /\ Live(v) => mapPlayer[v] # o /\ Object(v)' = Object(v)
        OBVIOUS
    <2>1. Live(v) => mapPlayer[v] # o /\ mapPlayer[v] \in Objs
        BY <1>1, LiveFacts DEF PlayerInv, Lives
    <2> QED BY <1>10, <2>1 DEF Live, Loaded, Object, IsLoadFinish, totalProgress
<1>18. ~Live(u) /\ ~Loaded(u) /\ Object(u)' = p
    BY <1>10 DEF Live, Loaded, Object
<1>19. failed + Cardinality(news) <= totalProgress
       /\ (UserInfo \notin sent => failed + Cardinality(news) < totalProgress)
    <2> DEFINE m == Cardinality(sent)
               n == Cardinality(news)
    <2>1. /\ m \in Nat /\ n \in Nat /\ failed \in Nat /\ totalProgress \in Nat /\ n <= m
          /\ failed + m <= totalProgress
          /\ UserInfo \notin sent => failed + m < totalProgress
        BY <1>3, <1>6
    <2> HIDE DEF m, n
    <2>2. /\ failed + n <= totalProgress
          /\ UserInfo \notin sent => failed + n < totalProgress
        BY <2>1
    <2> QED BY <2>2 DEF n
<1>20. TypeOK'
    <2>1. calls' \in SUBSET Call /\ lives' \in Lives \cup {0}
        BY <1>1, <1>4, <1>9, <1>11, <1>12
    <2> QED BY <1>9, <1>10, <1>16, <2>1 DEF TypeOK, PlayerSet, totalProgress, Call, Request
<1>21. MapIsPool'
    <2>1. ASSUME NEW v \in Users, Live(v)' PROVE Object(v)'.key # 0 /\ Object(v)'.id = v
        <3>1. CASE v = u
            BY <1>4, <1>8, <1>18, <3>1
        <3>2. CASE v # u
            BY <1>17, <2>1, <3>2 DEF PlayerInv, MapIsPool
        <3> QED BY <3>1, <3>2
    <2>2. ASSUME NEW x \in Objs, player'[x].key # 0 PROVE mapPlayer'[player'[x].id] = x
        <3>1. CASE x = o
            BY <1>8, <1>10, <3>1
        <3>2. CASE x # o
            <4>1. player'[x] = player[x] /\ player[x].key # 0
                BY <1>10, <2>2, <3>2
            <4>2. player[x].id \in Users /\ mapPlayer[player[x].id] = x /\ player[x].id # u
                BY <1>18, <4>1, UsedFacts DEF PlayerInv
            <4> QED BY <1>10, <4>1, <4>2
        <3> QED BY <3>1, <3>2
    <2> QED BY <2>1, <2>2 DEF MapIsPool
<1>22. ProgressIsOwn'
    <2> SUFFICES ASSUME NEW x \in Objs, player'[x].key # 0
                 PROVE  player'[x].loadProgress + Cardinality(Own(x)') <= totalProgress
        BY DEF ProgressIsOwn, Own, totalProgress
    <2>1. CASE x = o
        BY <1>8, <1>10, <1>14, <1>19, <2>1
    <2>2. CASE x # o
        BY <1>10, <1>15, <2>2 DEF PlayerInv, ProgressIsOwn, Own
    <2> QED BY <2>1, <2>2
<1>23. Keys'
    <2>1. IsFiniteSet(calls')
        BY <1>6, <1>9, FS_Union DEF PlayerInv, Keys
    <2>2. \A c \in calls' : c.key <= lives'
        <3>1. \A c \in calls : c.key \in Nat /\ c.key <= lives
            BY <1>12 DEF Call, Lives
        <3> QED BY <1>1, <1>4, <1>9, <1>11, <3>1
    <2>3. \A x \in Objs : player'[x].key <= lives'
        BY <1>1, <1>4, <1>8, <1>10, <1>13
    <2>4. ASSUME NEW x \in Objs, player'[x].key # 0
          PROVE  player'[x].id \in Users /\ player'[x].errProgress <= player'[x].loadProgress
        <3>1. CASE x = o
            BY <1>3, <1>8, <1>10, <3>1
        <3>2. CASE x # o
            BY <1>10, <2>4, <3>2 DEF PlayerInv, Keys
        <3> QED BY <3>1, <3>2
    <2> QED BY <2>1, <2>2, <2>3, <2>4 DEF Keys
<1>24. Finds'
    <2> SUFFICES ASSUME NEW v \in Users, NEW i \in DOMAIN queue'[v], queue'[v][i].op = "find"
                 PROVE  /\ queue'[v][i].key <= lives'
                        /\ \A x \in Objs : player'[x].key = queue'[v][i].key => player'[x].id = v
        BY DEF Finds
    <2>1. CASE i \in DOMAIN queue[v] /\ queue'[v][i] = queue[v][i]
        <3> DEFINE j == queue[v][i].key
        <3>1. j <= lives /\ \A x \in Objs : player[x].key = j => player[x].id = v
            BY <2>1 DEF PlayerInv, Finds
        <3>2. j \in Lives
            <4>1. queue[v] \in Seq(Request)
                BY Types
            <4> QED BY <2>1, <4>1, RequestFacts
        <3>3. queue'[v][i].key = j
            BY <2>1
        <3> HIDE DEF j
        <3>4. j <= lives' /\ j # k
            BY <1>1, <1>4, <3>1, <3>2 DEF Lives
        <3>5. \A x \in Objs : player'[x].key = j => player'[x].id = v
            BY <1>8, <1>10, <3>1, <3>4
        <3> QED BY <3>3, <3>4, <3>5
    <2>2. CASE v = u /\ queue'[v][i] = Find(k)
        <3>1. queue'[v][i].key = k
            BY <2>2 DEF Find
        <3>2. \A x \in Objs : player'[x].key = k => player'[x].id = v
            BY <1>8, <1>10, <1>13, <2>2
        <3> QED BY <1>1, <1>4, <3>1, <3>2
    <2>3. v # u => queue'[v] = queue[v]
        BY <1>16
    <2> QED BY <1>16, <2>1, <2>2, <2>3
<1>25. Answers'
    <2> SUFFICES ASSUME NEW c \in calls', NEW x \in Objs,
                        c.key = player'[x].key, c.table = UserInfo, c.state = "ok"
                 PROVE  Latest(c.data, player'[x].id)
        BY <1>9 DEF Answers, Latest
    <2>1. c \in calls /\ c.key # k
        BY <1>9, <1>11, <1>12
    <2>2. x # o
        BY <1>8, <1>10, <2>1
    <2> QED BY <1>10, <2>1, <2>2 DEF PlayerInv, Answers
<1>26. Loads'
    <2> SUFFICES ASSUME NEW x \in Objs, player'[x].key # 0, player'[x].errProgress = 0,
                        player'[x].loadProgress + Cardinality(Own(x)') = totalProgress,
                        \A c \in Own(x)' : c.table # UserInfo
                 PROVE  Latest(player'[x].data, player'[x].id)
        BY <1>9 DEF Loads, Latest, totalProgress
    <2>1. CASE x = o
        <3>1. UserInfo \in sent
            BY <1>3, <1>8, <1>10, <1>14, <1>19, <2>1
        <3>2. Ask(UserInfo) \in news /\ Ask(UserInfo).table = UserInfo
            BY <1>5, <3>1 DEF news
        <3> QED BY <1>14, <2>1, <3>2
    <2>2. CASE x # o
        BY <1>10, <1>15, <2>2 DEF PlayerInv, Loads
    <2> QED BY <2>1, <2>2
<1>27. Rows'
    <2>1. ASSUME NEW v \in Users, NEW i \in Upsets(queue'[v]) PROVE queue'[v][i].data.owner = v
        <3>1. CASE v = u
            BY <1>16, <2>1, <3>1 DEF PlayerInv, Rows
        <3>2. CASE v # u
            BY <1>16, <2>1, <3>2 DEF PlayerInv, Rows
        <3> QED BY <3>1, <3>2
    <2>2. ASSUME NEW v \in Users, ~Loaded(v)' PROVE ~Loaded(v) /\ Stored(v)' = Stored(v)
        <3>1. CASE v = u
            BY <1>9, <1>16, <1>18, <3>1 DEF Stored, Value
        <3>2. CASE v # u
            BY <1>9, <1>16, <1>17, <2>2, <3>2 DEF Stored
        <3> QED BY <3>1, <3>2
    <2> QED BY <1>9, <2>1, <2>2 DEF PlayerInv, Rows
<1>28. FindIsLast'
    <2> SUFFICES ASSUME NEW v \in Users, Live(v)', v \notin excused,
                        NEW i \in DOMAIN queue'[v], NEW j \in Upsets(queue'[v]),
                        queue'[v][i] = Find(Object(v)'.key)
                 PROVE  j < i
        BY <1>9 DEF FindIsLast, Find
    <2>1. CASE v = u
        <3>1. queue'[u][i].key = k /\ queue'[u][i].op = "find"
            BY <1>8, <1>18, <2>1 DEF Find
        <3>2. \A n \in DOMAIN queue[u] : queue[u][n].op = "find" => queue[u][n].key <= lives
            BY DEF PlayerInv, Finds
        <3>3. ~(i \in DOMAIN queue[u] /\ queue'[u][i] = queue[u][i])
            BY <1>4, <3>1, <3>2
        <3>4. i = Len(queue[u]) + 1
            BY <1>16, <2>1, <3>3
        <3>5. queue[u] \in Seq(Request) /\ j \in Upsets(queue[u])
            BY <1>16, <2>1, Types
        <3> DEFINE q == queue[u]
        <3>6. j \in 1 .. Len(q) /\ Len(q) \in Nat
            BY <3>5, UpsetsType
        <3> HIDE DEF q
        <3>7. i = Len(q) + 1
            BY <3>4 DEF q
        <3> QED BY <3>6, <3>7
    <2>2. CASE v # u
        BY <1>16, <1>17, <2>2 DEF PlayerInv, FindIsLast
    <2> QED BY <2>1, <2>2
<1> QED BY <1>20, <1>21, <1>22, <1>23, <1>24, <1>25, <1>26, <1>27, <1>28 DEF PlayerInv

----------------------------------------------------------------------------
(* The theorems.                                                             *)

LEMMA InitKeeps == Init => TypeOK /\ PlayerInv
<1> SUFFICES ASSUME Init PROVE TypeOK /\ PlayerInv
    OBVIOUS
<1>1. /\ mapPlayer = [u \in Users |-> NoObj] /\ player = [o \in Objs |-> Free]
      /\ calls = {} /\ queue = [u \in Users |-> <<>>] /\ lives = 0
      /\ truth = [u \in Users |-> 0] /\ excused = {}
      /\ row \in [Users -> Data] /\ \A u \in Users : row[u].owner = u /\ row[u].n = 0
    BY DEF Init
<1>2. \A o \in Objs : player[o] = Free /\ player[o].key = 0
    BY <1>1, PlayerTypes
<1>3. \A u \in Users : ~Live(u) /\ ~Loaded(u) /\ Upsets(queue[u]) = {}
    BY <1>1 DEF Live, Loaded, Upsets
<1>4. TypeOK
    <2>1. player \in [Objs -> PlayerSet]
        BY <1>1, PlayerTypes
    <2> QED BY <1>1, <2>1, PlayerDBAssumption DEF TypeOK, PlayerSet, Lives
<1>5. MapIsPool /\ ProgressIsOwn /\ Answers /\ Loads
    BY <1>1, <1>2, <1>3 DEF MapIsPool, ProgressIsOwn, Answers, Loads
<1>6. Keys
    BY <1>1, <1>2, FS_EmptySet DEF Keys
<1>7. Finds /\ FindIsLast
    BY <1>1, <1>3 DEF Finds, FindIsLast
<1>8. Rows
    BY <1>1, <1>3 DEF Rows, Stored
<1> QED BY <1>4, <1>5, <1>6, <1>7, <1>8 DEF PlayerInv

LEMMA StepKeeps == TypeOK /\ PlayerInv /\ [Next]_vars => TypeOK' /\ PlayerInv'
<1> SUFFICES ASSUME TypeOK, PlayerInv, [Next]_vars PROVE TypeOK' /\ PlayerInv'
    OBVIOUS
<1>1. ASSUME NEW u \in Users, RPC_Login(u) PROVE TypeOK' /\ PlayerInv'
    <2>1. CASE mapPlayer[u] = NoObj
        BY <1>1, <2>1, LoginKeeps
    <2>2. CASE mapPlayer[u] # NoObj
        BY <1>1, <2>2, PingKeeps DEF RPC_Login, Live
    <2> QED BY <2>1, <2>2
<1>2. ASSUME NEW u \in Users, Change(u) PROVE TypeOK' /\ PlayerInv'
    BY <1>2, ChangeKeeps
<1>3. ASSUME NEW u \in Users, Ping(u) PROVE TypeOK' /\ PlayerInv'
    BY <1>3, PingKeeps DEF Ping
<1>4. ASSUME NEW u \in Users, PingGetsOld(u) PROVE TypeOK' /\ PlayerInv'
    BY <1>4, PingKeeps DEF PingGetsOld
<1>5. ASSUME NEW u \in Users, checkPingTimeout(u) PROVE TypeOK' /\ PlayerInv'
    BY <1>5, TimeoutKeeps
<1>6. ASSUME NEW u \in Users, DBExecutes(u) PROVE TypeOK' /\ PlayerInv'
    <2>1. Head(queue[u]).op \in {"find", "upset"}
        <3>1. queue[u] \in Seq(Request) /\ queue[u] # <<>>
            BY <1>6, Types DEF DBExecutes
        <3> QED BY <3>1, TailPlaces, RequestFacts
    <2> QED BY <1>6, <2>1, FindsKeeps, StoresKeeps
<1>7. ASSUME NEW u \in Users, DBLoses(u) PROVE TypeOK' /\ PlayerInv'
    BY <1>7, LosesKeeps
<1>8. ASSUME NEW u \in Users, Disturb(u) PROVE TypeOK' /\ PlayerInv'
    BY <1>8, DisturbKeeps
<1>9. ASSUME NEW key \in Lives, CallBacks(key) PROVE TypeOK' /\ PlayerInv'
    BY <1>9, CallBackKeeps DEF CallBacks
<1>10. CASE Restart
    BY <1>10, RestartKeeps
<1>12. CASE DBRestarts
    BY <1>12, DBRestartsKeeps
<1>11. CASE UNCHANGED vars
    <2>1. UNCHANGED <<mapPlayer, player, calls, queue, row, lives, truth, excused>>
        BY <1>11 DEF vars
    <2>2. TypeOK'
        BY <2>1 DEF TypeOK, totalProgress, Call, Request
    <2>3. MapIsPool' /\ ProgressIsOwn'
        BY <2>1 DEF PlayerInv, MapIsPool, ProgressIsOwn, Live, Object, totalProgress
    <2>4. Keys' /\ Finds'
        BY <2>1 DEF PlayerInv, Keys, Finds
    <2>5. Answers' /\ Loads'
        BY <2>1 DEF PlayerInv, Answers, Loads, Latest, Own, totalProgress
    <2>6. Rows'
        BY <2>1 DEF PlayerInv, Rows, Stored, Loaded, Live, Object, IsLoadFinish, totalProgress
    <2>7. FindIsLast'
        BY <2>1 DEF PlayerInv, FindIsLast, Live, Object, Find
    <2> QED BY <2>2, <2>3, <2>4, <2>5, <2>6, <2>7 DEF PlayerInv
<1> QED BY <1>1, <1>2, <1>3, <1>4, <1>5, <1>6, <1>7, <1>8, <1>9, <1>10, <1>11, <1>12 DEF Next

LEMMA Kept == Spec => [](TypeOK /\ PlayerInv)
<1> QED BY InitKeeps, StepKeeps, PTL DEF Spec

\* The objects, calls, requests and rows are always as they are described:
\* no load counts beyond its tables, no change is numbered beyond the bound,
\* and no document without an owner is saved (PlayerDB, Player, ObjectFactory).
THEOREM TypeCorrect == Spec => []TypeOK
<1> QED BY Kept, PTL

\* An object serves one user, and the map of the GameService finds exactly
\* the objects that are not in the pool (ObjectFactory.ReleasePlayer).
THEOREM MapAgreesWithPool == Spec => []MapIsPool
<1>1. TypeOK /\ PlayerInv => MapIsPool
    BY DEF PlayerInv
<1> QED BY <1>1, Kept, PTL

\* However often an object is used again, and however late the answers of
\* its earlier lives come, a load counts its own tables only
\* (PlayerDB.AsyncCallNode, dbLoadCallBack).
THEOREM ProgressCountsOwn == Spec => []ProgressIsOwn
<1>1. TypeOK /\ PlayerInv => ProgressIsOwn
    BY DEF PlayerInv
<1> QED BY <1>1, Kept, PTL

\* A document stays with its owner, and a user who is not excused has the
\* last change in the loaded Player, or in the row once the queue of
\* DBService is empty (PlayerDB.SaveToDB, LoadFromDB).
THEOREM NoUpdateIsLost == Spec => []NoLostUpdate
<1>1. TypeOK /\ PlayerInv => NoLostUpdate
    <2> SUFFICES ASSUME TypeOK, PlayerInv, NEW u \in Users
                 PROVE  LET d == IF Loaded(u) THEN Object(u).data ELSE Stored(u) IN
                        /\ d.owner = u /\ row[u].owner = u
                        /\ u \notin excused => d.n = truth[u]
        BY DEF NoLostUpdate
    <2>1. row[u].owner = u /\ \A i \in Upsets(queue[u]) : queue[u][i].data.owner = u
        BY DEF PlayerInv, Rows
    <2>2. CASE Loaded(u)
        BY <2>1, <2>2, LoadedFacts DEF Latest
    <2>3. CASE ~Loaded(u)
        <3>1. u \notin excused => Stored(u).n = truth[u]
            BY <2>3 DEF PlayerInv, Rows
        <3>2. Stored(u).owner = u
            <4>1. Stored(u) = Value(queue[u], row[u])
                BY DEF Stored, Value
            <4>2. queue[u] \in Seq(Request)
                BY Types
            <4> DEFINE q == queue[u]
            <4> HIDE DEF q
            <4>3. Value(q, row[u]) = row[u] \/ \E i \in Upsets(q) : Value(q, row[u]) = q[i].data
                BY <4>2, ValueIs DEF q
            <4> QED BY <2>1, <4>1, <4>3 DEF q
        <3> QED BY <2>1, <2>3, <3>1, <3>2
    <2> QED BY <2>2, <2>3
<1> QED BY <1>1, Kept, PTL

----------------------------------------------------------------------------
(* Players over their RowServices.                                           *)

\* The tickets of a queue go up, and whose finds may be answered otherwise is
\* excused.
GoUp(u) ==
    /\ ticket[u] \in Seq(Nat) /\ Len(ticket[u]) = Len(queue[u])
    /\ \A n \in DOMAIN ticket[u] : ticket[u][n] \in Tickets
    /\ \A m, n \in DOMAIN ticket[u] : m < n => ticket[u][m] < ticket[u][n]

RowsInv ==
    /\ TypeOK /\ PlayerInv
    /\ ticket \in [Users -> Seq(Nat)] /\ \A u \in Users : GoUp(u)
    /\ unsure \in [Users -> BOOLEAN] /\ \A u \in Users : unsure[u] => u \in excused

LEMMA FirstRemoved ==
    ASSUME NEW S, NEW q \in Seq(S), q # <<>>
    PROVE  RemoveAt(q, 1) = Tail(q)
<1>1. Len(q) \in Nat /\ Len(q) > 0
    OBVIOUS
<1>2. 1 - 1 = 0 /\ 1 + 1 = 2 /\ SubSeq(q, 1, 0) = <<>>
    OBVIOUS
<1>3. SubSeq(q, 2, Len(q)) = Tail(q) /\ Tail(q) \in Seq(S)
    BY <1>1
<1>4. <<>> \o Tail(q) = Tail(q)
    BY <1>3
<1>5. RemoveAt(q, 1) = SubSeq(q, 1, 0) \o SubSeq(q, 2, Len(q))
    BY <1>2 DEF RemoveAt
<1> QED BY <1>2, <1>3, <1>4, <1>5

\* RowService serves the head of the queue.
LEMMA HeadIsServed ==
    ASSUME RowsInv, NEW u \in Users, NEW i \in Tickets, NEW n \in DOMAIN queue[u],
           ticket[u][n] = i, Row(u)!Finish(i)
    PROVE  /\ n = 1 /\ queue[u] \in Seq(Request) /\ queue[u] # <<>>
           /\ queue[u][1] = Head(queue[u]) /\ Head(queue[u]) \in Request
           /\ Pending(u)[i] = Plain(Head(queue[u]))
           /\ RemoveAt(queue[u], 1) = Tail(queue[u]) /\ RemoveAt(ticket[u], 1) = Tail(ticket[u])
<1> DEFINE q == queue[u]
           t == ticket[u]
<1>1. /\ q \in Seq(Request) /\ t \in Seq(Nat) /\ Len(t) = Len(q) /\ n \in DOMAIN q
      /\ \A k \in DOMAIN t : t[k] \in Tickets
      /\ \A j, k \in DOMAIN t : j < k => t[j] < t[k]
    BY Types DEF RowsInv, GoUp
<1>2. /\ DOMAIN t = DOMAIN q /\ DOMAIN q = 1 .. Len(q) /\ 1 \in DOMAIN q /\ q # <<>>
      /\ \A k \in DOMAIN t : t[k] \in Nat
      /\ q[1] = Head(q) /\ q[1] \in Request /\ t # <<>>
    <2> HIDE DEF q, t
    <2> QED BY <1>1
<1>3. \A k \in DOMAIN q : Pending(u)[t[k]] = Plain(q[k])
    <2> SUFFICES ASSUME NEW k \in DOMAIN q PROVE Pending(u)[t[k]] = Plain(q[k])
        OBVIOUS
    <2> DEFINE P == {j \in DOMAIN queue[u] : ticket[u][j] = t[k]}
    <2>1. P = {k}
        <3>1. \A j \in DOMAIN q : t[j] = t[k] => j = k
            <4> HIDE DEF q, t
            <4> QED BY <1>1, <1>2
        <3> QED BY <3>1
    <2>2. (CHOOSE j \in P : TRUE) = k
        BY <2>1
    <2> QED BY <1>1, <1>2, <2>1, <2>2 DEF Pending
<1>4. \A r : Plain(r) # NoRequest
    BY DEF Plain, NoRequest
<1>5. i <= t[1]
    <2>1. t[1] \in Tickets /\ Pending(u)[t[1]] # NoRequest
        BY <1>1, <1>2, <1>3, <1>4
    <2> QED BY <2>1 DEF Row!Finish, Row!Waits
<1>6. n = 1
    <2>1. t[n] <= t[1]
        BY <1>5
    <2>2. n # 1 => 1 < n
        <3> HIDE DEF q, t
        <3> QED BY <1>1, <1>2
    <2>3. n # 1 => t[1] < t[n]
        BY <1>1, <1>2, <2>2
    <2>4. t[1] \in Nat /\ t[n] \in Nat
        BY <1>1, <1>2
    <2> HIDE DEF t
    <2> QED BY <2>1, <2>3, <2>4
<1>7. Pending(u)[i] = Plain(q[1])
    BY <1>2, <1>3, <1>6
<1>8. RemoveAt(q, 1) = Tail(q) /\ RemoveAt(t, 1) = Tail(t)
    <2> HIDE DEF q, t
    <2> QED BY <1>1, <1>2, FirstRemoved
<1> QED BY <1>1, <1>2, <1>6, <1>7, <1>8

LEMMA ServesIsAllowed ==
    ASSUME RowsInv, NEW u \in Users, NEW i \in Tickets, Serves(u, i)
    PROVE  /\ DBExecutes(u) \/ DBLoses(u)
           /\ ticket' = [ticket EXCEPT ![u] = Tail(@)] /\ ticket[u] # <<>>
           /\ unsure' \in [Users -> BOOLEAN]
           /\ \A v \in Users : unsure'[v] => v \in excused'
<1>1. PICK n \in DOMAIN queue[u] :
        /\ ticket[u][n] = i
        /\ queue' = [queue EXCEPT ![u] = RemoveAt(@, n)]
        /\ ticket' = [ticket EXCEPT ![u] = RemoveAt(@, n)]
        /\ \E d \in Documents(u), b \in BOOLEAN :
            row' = [row EXCEPT ![u] = d] /\ unsure' = [unsure EXCEPT ![u] = b]
        /\ \/ \E d \in Past(u) \cup {row[u]} :
                /\ answer' = [how |-> "ok", row |-> d]
                /\ Row(u)!Find(i)
                /\ calls' = Answered(queue[u][n].key, d) /\ UNCHANGED excused
           \/ /\ answer' = [how |-> "ok", row |-> NoData]
              /\ Row(u)!Change(i)
              /\ UNCHANGED <<calls, excused>>
           \/ /\ answer' = [how |-> "error", row |-> NoData]
              /\ Row(u)!Fail(i)
              /\ excused' = IF queue[u][n].op = "upset" THEN excused \cup {u} ELSE excused
              /\ UNCHANGED calls
    BY DEF Serves
<1>2. UNCHANGED <<mapPlayer, player, lives, truth>>
    BY DEF Serves
<1>3. Row(u)!Finish(i)
    BY <1>1 DEF Row!Find, Row!Change, Row!Fail
<1>4. /\ n = 1 /\ queue[u] \in Seq(Request) /\ queue[u] # <<>>
      /\ queue[u][1] = Head(queue[u]) /\ Head(queue[u]) \in Request
      /\ Pending(u)[i] = Plain(Head(queue[u]))
      /\ RemoveAt(queue[u], 1) = Tail(queue[u]) /\ RemoveAt(ticket[u], 1) = Tail(ticket[u])
    BY <1>1, <1>3, HeadIsServed
<1> DEFINE r == Head(queue[u])
<1>5. queue' = [queue EXCEPT ![u] = Tail(@)] /\ ticket' = [ticket EXCEPT ![u] = Tail(@)]
    BY <1>1, <1>4
<1>6. ticket[u] # <<>>
    BY <1>4 DEF RowsInv, GoUp
<1>7. PICK d \in Documents(u), b \in BOOLEAN :
        row' = [row EXCEPT ![u] = d] /\ unsure' = [unsure EXCEPT ![u] = b]
    BY <1>1
<1>8. /\ row \in [Users -> Data] /\ unsure \in [Users -> BOOLEAN]
      /\ unsure' \in [Users -> BOOLEAN] /\ row'[u] = d /\ unsure'[u] = b
      /\ \A v \in Users : v # u => unsure'[v] = unsure[v]
    BY <1>7, Types DEF RowsInv
<1>9. CASE \E a \in Past(u) \cup {row[u]} :
                /\ answer' = [how |-> "ok", row |-> a]
                /\ Row(u)!Find(i)
                /\ calls' = Answered(queue[u][n].key, a) /\ UNCHANGED excused
    <2>1. PICK a \in Past(u) \cup {row[u]} :
                /\ answer' = [how |-> "ok", row |-> a]
                /\ Row(u)!Find(i)
                /\ calls' = Answered(queue[u][n].key, a) /\ UNCHANGED excused
        BY <1>9
    <2>2. /\ Pending(u)[i].op = "find"
          /\ unsure[u] \/ answer'.row = row[u]
          /\ row'[u] = row[u] /\ unsure'[u] = unsure[u]
        BY <2>1 DEF Row!Find
    <2>3. r.op = "find"
        <3>1. r.op # "upset"
            BY <1>4, <2>2 DEF Plain
        <3> QED BY <1>4, <3>1, RequestFacts
    <2>4. UNCHANGED row
        BY <1>7, <1>8, <2>2
    <2>5. a \in MayAnswer(u)
        BY <2>1, <2>2 DEF MayAnswer, RowsInv
    <2>6. DBExecutes(u)
        BY <1>2, <1>4, <1>5, <2>1, <2>3, <2>4, <2>5 DEF DBExecutes
    <2>7. \A v \in Users : unsure'[v] => v \in excused'
        BY <1>8, <2>1, <2>2 DEF RowsInv
    <2> QED BY <1>5, <1>6, <1>8, <2>6, <2>7
<1>10. CASE /\ answer' = [how |-> "ok", row |-> NoData]
            /\ Row(u)!Change(i)
            /\ UNCHANGED <<calls, excused>>
    <2>1. /\ Pending(u)[i].op \in {"upset", "set", "inc"} /\ unsure'[u] = unsure[u]
          /\ row'[u] = Row(u)!Stored(Pending(u)[i])
        BY <1>10 DEF Row!Change, Row!Changes
    <2>2. r.op = "upset" /\ Pending(u)[i] = [op |-> "upset", val |-> r.data]
        <3>1. r.op # "find"
            BY <1>4, <2>1 DEF Plain
        <3>2. r.op \in {"find", "upset"}
            BY <1>4, RequestFacts
        <3> QED BY <1>4, <3>1, <3>2 DEF Plain
    <2>3. row'[u] = r.data
        BY <2>1, <2>2 DEF Row!Stored
    <2>4. r.data.owner = u
        <3>1. 1 \in Upsets(queue[u])
            BY <1>1, <1>4, <2>2 DEF Upsets
        <3> QED BY <1>4, <3>1 DEF RowsInv, PlayerInv, Rows
    <2>5. DBExecutes(u)
        BY <1>2, <1>4, <1>5, <1>7, <1>8, <1>10, <2>2, <2>3, <2>4 DEF DBExecutes
    <2>6. \A v \in Users : unsure'[v] => v \in excused'
        BY <1>8, <1>10, <2>1 DEF RowsInv
    <2> QED BY <1>5, <1>6, <1>8, <2>5, <2>6
<1>11. CASE /\ answer' = [how |-> "error", row |-> NoData]
            /\ Row(u)!Fail(i)
            /\ excused' = IF queue[u][n].op = "upset" THEN excused \cup {u} ELSE excused
            /\ UNCHANGED calls
    <2>1. /\ row'[u] = row[u]
          /\ unsure'[u] \in {unsure[u], Pending(u)[i].op \in {"upset", "set", "inc"}}
        BY <1>11 DEF Row!Fail, Row!Changes
    <2>2. UNCHANGED row
        BY <1>7, <1>8, <2>1
    <2>3. excused' = IF r.op = "upset" THEN excused \cup {u} ELSE excused
        BY <1>4, <1>11
    <2>4. DBLoses(u)
        BY <1>2, <1>4, <1>5, <1>11, <2>2, <2>3 DEF DBLoses
    <2>5. \A v \in Users : unsure'[v] => v \in excused'
        <3> SUFFICES ASSUME NEW v \in Users, unsure'[v], v \notin excused' PROVE FALSE
            OBVIOUS
        <3>1. ~unsure[v] /\ v \notin excused
            BY <2>3 DEF RowsInv
        <3>2. v = u
            BY <1>8, <3>1
        <3>3. Pending(u)[i].op \in {"upset", "set", "inc"}
            BY <2>1, <3>1, <3>2
        <3>4. r.op = "upset"
            <4>1. r.op # "find"
                BY <1>4, <3>3 DEF Plain
            <4> QED BY <1>4, <4>1, RequestFacts
        <3> QED BY <2>3, <3>2, <3>4
    <2> QED BY <1>5, <1>6, <1>8, <2>4, <2>5
<1> QED BY <1>1, <1>9, <1>10, <1>11

\* The requests of a step come behind those that wait.
LEMMA QueuesGrow ==
    ASSUME TypeOK,
           \/ \E u \in Users : \/ RPC_Login(u) \/ Change(u) \/ Ping(u)
                               \/ PingGetsOld(u) \/ checkPingTimeout(u)
           \/ \E key \in Lives : CallBacks(key)
           \/ Restart
    PROVE  \A v \in Users : Len(queue'[v]) >= Len(queue[v])
<1>1. \A v \in Users : queue[v] \in Seq(Request) /\ Len(queue[v]) \in Nat
    BY Types
<1>2. ASSUME UNCHANGED queue PROVE \A v \in Users : Len(queue'[v]) >= Len(queue[v])
    BY <1>1, <1>2
<1>3. ASSUME NEW u \in Users, NEW s, s \in Seq(Request), Len(s) >= Len(queue[u]),
             queue' = [queue EXCEPT ![u] = s]
      PROVE  \A v \in Users : Len(queue'[v]) >= Len(queue[v])
    BY <1>1, <1>3, Types
<1>4. ASSUME NEW u \in Users, RPC_Login(u)
      PROVE  \A v \in Users : Len(queue'[v]) >= Len(queue[v])
    <2>1. CASE mapPlayer[u] # NoObj
        BY <1>2, <1>4, <2>1 DEF RPC_Login
    <2>2. CASE mapPlayer[u] = NoObj
        <3>1. \/ UNCHANGED queue
              \/ \E k : queue' = [queue EXCEPT ![u] = Append(@, Find(k))]
            BY <1>4, <2>2 DEF RPC_Login, LoadFromDB
        <3>2. ASSUME NEW k, queue' = [queue EXCEPT ![u] = Append(@, Find(k))]
              PROVE  \A v \in Users : Len(queue'[v]) >= Len(queue[v])
            <4>1. \A x : Len(Append(queue[u], x)) >= Len(queue[u])
                <5> DEFINE q == queue[u]
                <5>1. q \in Seq(Request)
                    BY <1>1
                <5> HIDE DEF q
                <5> QED BY <5>1 DEF q
            <4> QED BY <1>1, <3>2, <4>1, Types
        <3> QED BY <1>2, <3>1, <3>2
    <2> QED BY <2>1, <2>2
<1>5. ASSUME NEW u \in Users, checkPingTimeout(u)
      PROVE  \A v \in Users : Len(queue'[v]) >= Len(queue[v])
    <2> DEFINE p == player[mapPlayer[u]]
    <2>1. SaveToDB(p)
        BY <1>5 DEF checkPingTimeout, Destroy
    <2>2. CASE ~Savable(p)
        BY <1>2, <2>1, <2>2 DEF SaveToDB
    <2>3. CASE Savable(p)
        <3>1. PICK sent \in 0..2 :
                queue' = [queue EXCEPT ![p.id] = @ \o [i \in 1..sent |-> Upset(p.data)]]
            BY <2>1, <2>3 DEF SaveToDB
        <3> DEFINE t == [i \in 1..sent |-> Upset(p.data)]
        <3>2. t \in Seq({Upset(p.data)})
            OBVIOUS
        <3>3. ASSUME NEW v \in Users PROVE Len(queue[v] \o t) >= Len(queue[v])
            <4>1. queue[v] \in Seq(Request \cup {Upset(p.data)}) /\ t \in Seq(Request \cup {Upset(p.data)})
                BY <1>1, <3>2
            <4> HIDE DEF t
            <4>2. Len(queue[v] \o t) = Len(queue[v]) + Len(t) /\ Len(t) \in Nat /\ Len(queue[v]) \in Nat
                BY <4>1
            <4> QED BY <4>2
        <3> HIDE DEF t
        <3>4. queue' = [queue EXCEPT ![p.id] = queue[p.id] \o t]
            BY <3>1 DEF t
        <3>5. ASSUME NEW v \in Users PROVE queue'[v] = queue[v] \/ queue'[v] = queue[v] \o t
            BY <3>4, Types
        <3>6. \A v \in Users : Len(queue[v]) >= Len(queue[v])
            BY <1>1
        <3> QED BY <3>3, <3>5, <3>6
    <2> QED BY <2>2, <2>3
<1>6. ASSUME NEW u \in Users, Change(u) \/ Ping(u) \/ PingGetsOld(u) PROVE UNCHANGED queue
    BY <1>6 DEF Change, Ping, PingGetsOld
<1>7. ASSUME NEW key \in Lives, CallBacks(key) PROVE UNCHANGED queue
    BY <1>7 DEF CallBacks, Answer, Fails, MultiLoads, CallBack
<1>8. CASE Restart
    BY <1>2, <1>8 DEF Restart
<1> QED BY <1>2, <1>4, <1>5, <1>6, <1>7, <1>8

LEMMA Behind ==
    ASSUME NEW a \in Seq(Nat), NEW b \in Seq(Nat), NEW l \in Nat, NEW k \in Nat,
           Len(a) = l, Len(b) = k
    PROVE  /\ a \o b \in Seq(Nat) /\ Len(a \o b) = l + k /\ DOMAIN (a \o b) = 1 .. l + k
           /\ DOMAIN a = 1 .. l
           /\ \A n \in 1 .. l : (a \o b)[n] = a[n] /\ a[n] \in Nat
           /\ \A n \in 1 .. l + k : n > l => (a \o b)[n] = b[n - l]
OBVIOUS

\* What is drawn goes up from the last ticket.
LEMMA DrawnGoUp ==
    ASSUME Tickets \subseteq Nat, RowsInv, NEW u \in Users, Len(queue'[u]) \in Nat,
           Len(queue'[u]) >= Len(queue[u]), ticket'[u] = ticket[u] \o Drawn(u),
           ToSet(ticket'[u]) \subseteq Tickets
    PROVE  ticket'[u] \in Seq(Nat) /\ GoUp(u)'
<1> DEFINE t  == ticket[u]
           l  == Len(t)
           k  == Len(queue'[u]) - Len(queue[u])
           d  == Drawn(u)
           z  == IF t = <<>> THEN 0 ELSE t[Len(t)]
           tt == ticket'[u]
<1>1. /\ t \in Seq(Nat) /\ l \in Nat /\ l = Len(queue[u]) /\ k \in Nat
      /\ Len(queue'[u]) = l + k
      /\ \A m, n \in DOMAIN t : m < n => t[m] < t[n]
    <2>1. t \in Seq(Nat) /\ l = Len(queue[u]) /\ \A m, n \in DOMAIN t : m < n => t[m] < t[n]
        BY DEF RowsInv, GoUp
    <2> HIDE DEF t
    <2>2. l \in Nat
        BY <2>1
    <2> QED BY <2>1, <2>2
<1>2. d = [n \in 1 .. k |-> z + n]
    BY DEF Drawn, Last
<1> HIDE DEF d
<1>3. z \in Nat /\ \A n \in DOMAIN t : t[n] <= z
    <2> HIDE DEF t
    <2>1. CASE t = <<>>
        BY <2>1
    <2>2. CASE t # <<>>
        <3>1. l \in 1 .. l /\ DOMAIN t = 1 .. l /\ z = t[l] /\ \A n \in 1 .. l : t[n] \in Nat
            BY <1>1, <2>2
        <3>2. ASSUME NEW n \in 1 .. l PROVE t[n] <= t[l]
            <4>1. CASE n = l
                BY <3>1, <4>1
            <4>2. CASE n # l
                <5>1. n < l
                    BY <1>1, <4>2
                <5>2. t[n] < t[l]
                    BY <1>1, <3>1, <5>1
                <5> QED BY <3>1, <5>2
            <4> QED BY <4>1, <4>2
        <3> QED BY <3>1, <3>2
    <2> QED BY <2>1, <2>2
<1> HIDE DEF z
<1>4. d \in Seq(Nat) /\ Len(d) = k
    <2> HIDE DEF k
    <2>1. \A n \in 1 .. k : z + n \in Nat
        BY <1>3
    <2> QED BY <1>1, <1>2, <2>1
<1>5. tt = t \o d
    BY DEF d
<1>a. l = Len(t)
    OBVIOUS
<1> HIDE DEF tt, t, k, l
<1>6. /\ tt \in Seq(Nat) /\ Len(tt) = l + k /\ DOMAIN tt = 1 .. l + k
      /\ DOMAIN t = 1 .. l
      /\ \A n \in 1 .. l : tt[n] = t[n] /\ t[n] \in Nat
      /\ \A n \in 1 .. l + k : n > l => tt[n] = d[n - l]
    BY <1>1, <1>4, <1>5, <1>a, Behind
<1>7. \A n \in 1 .. l + k : n > l => tt[n] = z + (n - l)
    <2> SUFFICES ASSUME NEW n \in 1 .. l + k, n > l PROVE tt[n] = z + (n - l)
        OBVIOUS
    <2>1. n - l \in 1 .. k
        BY <1>1
    <2> QED BY <1>2, <1>6, <2>1
<1>8. ASSUME NEW m \in DOMAIN tt, NEW n \in DOMAIN tt, m < n PROVE tt[m] < tt[n]
    <2>1. m \in 1 .. l + k /\ n \in 1 .. l + k /\ DOMAIN t = 1 .. l
        BY <1>1, <1>6
    <2>2. CASE n <= l
        <3>1. m \in 1 .. l /\ n \in 1 .. l
            BY <1>1, <1>8, <2>1, <2>2
        <3> QED BY <1>1, <1>6, <1>8, <2>1, <3>1
    <2>3. CASE n > l /\ m <= l
        <3>1. m \in 1 .. l /\ tt[m] = t[m] /\ t[m] \in Nat /\ t[m] <= z
            <4>1. m \in 1 .. l
                BY <1>1, <2>1, <2>3
            <4> QED BY <1>3, <1>6, <4>1
        <3>2. tt[n] = z + (n - l)
            BY <1>7, <2>1, <2>3
        <3> QED BY <1>1, <1>3, <2>1, <2>3, <3>1, <3>2
    <2>4. CASE m > l
        <3>1. tt[n] = z + (n - l) /\ tt[m] = z + (m - l)
            <4>1. n > l
                BY <1>1, <1>8, <2>1, <2>4
            <4> QED BY <1>7, <2>1, <2>4, <4>1
        <3> QED BY <1>1, <1>3, <1>8, <2>1, <2>4, <3>1
    <2> QED BY <1>1, <2>1, <2>2, <2>3, <2>4
<1>9. \A n \in DOMAIN tt : tt[n] \in Tickets
    <2>1. ToSet(tt) \subseteq Tickets
        BY DEF tt
    <2> QED BY <2>1 DEF ToSet
<1>10. Len(tt) = Len(queue'[u])
    BY <1>1, <1>6 DEF k
<1>11. ticket'[u] = tt
    BY DEF tt
<1> QED BY <1>6, <1>8, <1>9, <1>10, <1>11 DEF GoUp
LEMMA TailGoesUp ==
    ASSUME NEW q \in Seq(Nat), q # <<>>,
           \A n \in DOMAIN q : q[n] \in Tickets,
           \A m, n \in DOMAIN q : m < n => q[m] < q[n]
    PROVE  /\ Tail(q) \in Seq(Nat) /\ Len(Tail(q)) = Len(q) - 1
           /\ \A n \in DOMAIN Tail(q) : Tail(q)[n] \in Tickets
           /\ \A m, n \in DOMAIN Tail(q) : m < n => Tail(q)[m] < Tail(q)[n]
<1> DEFINE t == Tail(q)
           l == Len(q)
<1>1. /\ t \in Seq(Nat) /\ l \in Nat /\ l > 0 /\ Len(t) = l - 1 /\ DOMAIN q = 1 .. l
      /\ DOMAIN t = 1 .. l - 1
    OBVIOUS
<1>2. \A n \in 1 .. l - 1 : t[n] = q[n + 1]
    OBVIOUS
<1> HIDE DEF t, l
<1>3. \A n \in 1 .. l - 1 : n + 1 \in DOMAIN q
    BY <1>1
<1>4. \A m, n \in 1 .. l - 1 : m < n => m + 1 < n + 1
    BY <1>1
<1>5. \A n \in DOMAIN t : t[n] \in Tickets
    BY <1>1, <1>2, <1>3
<1>6. \A m, n \in DOMAIN t : m < n => t[m] < t[n]
    <2> SUFFICES ASSUME NEW m \in DOMAIN t, NEW n \in DOMAIN t, m < n PROVE t[m] < t[n]
        OBVIOUS
    <2>1. m \in 1 .. l - 1 /\ n \in 1 .. l - 1 /\ m + 1 < n + 1
        BY <1>1, <1>4
    <2>2. q[m + 1] < q[n + 1]
        BY <1>3, <2>1
    <2> QED BY <1>2, <2>1, <2>2
<1> QED BY <1>1, <1>5, <1>6 DEF t, l

\* Who is excused once stays so.
LEMMA ExcusedGrows ==
    ASSUME \/ \E u \in Users : \/ RPC_Login(u) \/ Change(u) \/ Ping(u)
                               \/ PingGetsOld(u) \/ checkPingTimeout(u)
           \/ \E key \in Lives : CallBacks(key)
           \/ Restart
    PROVE  excused \subseteq excused'
<1>1. ASSUME NEW u \in Users, RPC_Login(u) \/ Change(u) \/ Ping(u) \/ PingGetsOld(u)
      PROVE  excused \subseteq excused'
    BY <1>1 DEF RPC_Login, Change, Ping, PingGetsOld
<1>2. ASSUME NEW u \in Users, checkPingTimeout(u) PROVE excused \subseteq excused'
    <2> DEFINE p == player[mapPlayer[u]]
    <2>1. SaveToDB(p)
        BY <1>2 DEF checkPingTimeout, Destroy
    <2> HIDE DEF p
    <2>2. CASE Savable(p)
        BY <2>1, <2>2 DEF SaveToDB
    <2>3. CASE ~Savable(p)
        BY <2>1, <2>3 DEF SaveToDB
    <2> QED BY <2>2, <2>3
<1>3. ASSUME NEW key \in Lives, CallBacks(key) PROVE excused \subseteq excused'
    BY <1>3 DEF CallBacks, Answer, Fails, MultiLoads, CallBack
<1>4. CASE Restart
    BY <1>4 DEF Restart
<1> QED BY <1>1, <1>2, <1>3, <1>4

LEMMA GameServiceKeeps ==
    ASSUME Tickets \subseteq Nat, RowsInv, GameServiceSteps
    PROVE  Next /\ RowsInv'
<1>1. \/ \E u \in Users : \/ RPC_Login(u) \/ Change(u) \/ Ping(u)
                          \/ PingGetsOld(u) \/ checkPingTimeout(u)
      \/ \E key \in Lives : CallBacks(key)
      \/ Restart
    BY DEF GameServiceSteps
<1>2. /\ ticket' = [u \in Users |-> ticket[u] \o Drawn(u)]
      /\ \A u \in Users : ToSet(ticket'[u]) \subseteq Tickets
      /\ UNCHANGED <<unsure, answer>>
    BY DEF GameServiceSteps
<1>3. Next
    BY <1>1 DEF Next
<1>4. TypeOK /\ PlayerInv
    BY DEF RowsInv
<1>5. TypeOK' /\ PlayerInv'
    BY <1>3, <1>4, StepKeeps
<1>6. ASSUME NEW u \in Users PROVE ticket'[u] \in Seq(Nat) /\ GoUp(u)'
    <2>1. Len(queue'[u]) >= Len(queue[u])
        BY <1>1, <1>4, QueuesGrow
    <2>2. Len(queue'[u]) \in Nat
        <3>1. queue'[u] \in Seq(Request)
            BY <1>5 DEF TypeOK
        <3> DEFINE q == queue'[u]
        <3> HIDE DEF q
        <3>2. q \in Seq(Request) => Len(q) \in Nat
            OBVIOUS
        <3> QED BY <3>1, <3>2 DEF q
    <2>3. ticket'[u] = ticket[u] \o Drawn(u) /\ ToSet(ticket'[u]) \subseteq Tickets
        BY <1>2
    <2> QED BY <2>1, <2>2, <2>3, DrawnGoUp
<1>7. ticket' \in [Users -> Seq(Nat)]
    BY <1>2, <1>6
<1>8. unsure' \in [Users -> BOOLEAN] /\ \A u \in Users : unsure'[u] => u \in excused'
    BY <1>1, <1>2, ExcusedGrows DEF RowsInv
<1> QED BY <1>3, <1>5, <1>6, <1>7, <1>8 DEF RowsInv

LEMMA ServesKeeps ==
    ASSUME RowsInv, NEW u \in Users, NEW i \in Tickets, Serves(u, i)
    PROVE  Next /\ RowsInv'
<1>1. /\ DBExecutes(u) \/ DBLoses(u)
      /\ ticket' = [ticket EXCEPT ![u] = Tail(@)] /\ ticket[u] # <<>>
      /\ unsure' \in [Users -> BOOLEAN]
      /\ \A v \in Users : unsure'[v] => v \in excused'
    BY ServesIsAllowed
<1>2. Next
    BY <1>1 DEF Next
<1>3. TypeOK /\ PlayerInv /\ ticket \in [Users -> Seq(Nat)] /\ \A v \in Users : GoUp(v)
    BY DEF RowsInv
<1>4. TypeOK' /\ PlayerInv'
    BY <1>2, <1>3, StepKeeps
<1>5. queue' = [queue EXCEPT ![u] = Tail(@)] /\ queue[u] # <<>>
    BY <1>1 DEF DBExecutes, DBLoses
<1>6. queue \in [Users -> Seq(Request)]
    BY <1>3 DEF TypeOK
<1>7. ticket'[u] \in Seq(Nat) /\ GoUp(u)'
    <2> DEFINE t == ticket[u]
               q == queue[u]
    <2>1. /\ t \in Seq(Nat) /\ t # <<>> /\ \A n \in DOMAIN t : t[n] \in Tickets
          /\ \A m, n \in DOMAIN t : m < n => t[m] < t[n]
        BY <1>1, <1>3 DEF GoUp
    <2>2. ticket'[u] = Tail(t) /\ queue'[u] = Tail(q) /\ Len(t) = Len(q)
        BY <1>1, <1>3, <1>5, <1>6 DEF GoUp
    <2>3. Len(Tail(q)) = Len(q) - 1
        <3>1. q \in Seq(Request) /\ q # <<>>
            BY <1>5, <1>6
        <3> HIDE DEF q
        <3> QED BY <3>1
    <2> HIDE DEF t, q
    <2>4. /\ Tail(t) \in Seq(Nat) /\ Len(Tail(t)) = Len(t) - 1
          /\ \A n \in DOMAIN Tail(t) : Tail(t)[n] \in Tickets
          /\ \A m, n \in DOMAIN Tail(t) : m < n => Tail(t)[m] < Tail(t)[n]
        BY <2>1, TailGoesUp
    <2> QED BY <2>2, <2>3, <2>4 DEF GoUp
<1>8. ASSUME NEW v \in Users, v # u PROVE ticket'[v] \in Seq(Nat) /\ GoUp(v)'
    <2>1. ticket'[v] = ticket[v] /\ queue'[v] = queue[v]
        BY <1>1, <1>3, <1>5, <1>6, <1>8
    <2> QED BY <1>3, <2>1 DEF GoUp
<1>9. ticket' \in [Users -> Seq(Nat)]
    BY <1>1, <1>3, <1>7, <1>8
<1> QED BY <1>1, <1>2, <1>4, <1>7, <1>8, <1>9 DEF RowsInv

LEMMA RestartsKeeps == RowsInv /\ Restarts => Next /\ RowsInv'
<1> SUFFICES ASSUME RowsInv, Restarts PROVE Next /\ RowsInv'
    OBVIOUS
<1>1. DBRestarts /\ Next
    BY DEF Restarts, DBRestarts, Next
<1>2. TypeOK' /\ PlayerInv'
    BY <1>1, StepKeeps DEF RowsInv
<1>3. /\ queue' = [u \in Users |-> <<>>] /\ ticket' = [u \in Users |-> <<>>]
      /\ unsure' = [u \in Users |-> FALSE]
    BY DEF Restarts
<1>4. <<>> \in Seq(Nat) /\ Len(<<>>) = 0 /\ DOMAIN <<>> = {}
    OBVIOUS
<1>5. \A u \in Users : GoUp(u)'
    BY <1>3, <1>4 DEF GoUp
<1> QED BY <1>1, <1>2, <1>3, <1>4, <1>5 DEF RowsInv

LEMMA IsDisturbedKeeps ==
    ASSUME RowsInv, NEW u \in Users, IsDisturbed(u)
    PROVE  Next /\ RowsInv'
<1>1. Disturb(u) /\ Next
    BY DEF IsDisturbed, Disturb, Next
<1>2. TypeOK' /\ PlayerInv'
    BY <1>1, StepKeeps DEF RowsInv
<1>3. /\ unsure' = [unsure EXCEPT ![u] = TRUE] /\ excused' = excused \cup {u}
      /\ UNCHANGED <<queue, ticket>>
    BY DEF IsDisturbed
<1>4. \A v \in Users : GoUp(v)'
    BY <1>3 DEF RowsInv, GoUp
<1>5. unsure' \in [Users -> BOOLEAN] /\ \A v \in Users : unsure'[v] => v \in excused'
    BY <1>3 DEF RowsInv
<1> QED BY <1>1, <1>2, <1>3, <1>4, <1>5 DEF RowsInv

LEMMA RowsInitKeeps == RowsInit => Init /\ RowsInv
<1> SUFFICES ASSUME RowsInit PROVE Init /\ RowsInv
    OBVIOUS
<1>1. Init /\ TypeOK /\ PlayerInv
    BY InitKeeps DEF RowsInit
<1>2. ticket = [u \in Users |-> <<>>] /\ unsure = [u \in Users |-> FALSE]
    BY DEF RowsInit
<1>3. queue = [u \in Users |-> <<>>]
    BY <1>1 DEF Init
<1>4. <<>> \in Seq(Nat) /\ Len(<<>>) = 0 /\ DOMAIN <<>> = {}
    OBVIOUS
<1>5. \A u \in Users : GoUp(u)
    BY <1>2, <1>3, <1>4 DEF GoUp
<1> QED BY <1>1, <1>2, <1>4, <1>5 DEF RowsInv

LEMMA RowsStepKeeps ==
    ASSUME Tickets \subseteq Nat
    PROVE  RowsInv /\ [RowsNext]_<<vars, rowVars>> => [Next]_vars /\ RowsInv'
<1> SUFFICES ASSUME RowsInv, [RowsNext]_<<vars, rowVars>> PROVE [Next]_vars /\ RowsInv'
    OBVIOUS
<1>1. CASE GameServiceSteps
    BY <1>1, GameServiceKeeps
<1>2. ASSUME NEW u \in Users, IsDisturbed(u) PROVE [Next]_vars /\ RowsInv'
    BY <1>2, IsDisturbedKeeps
<1>3. ASSUME NEW u \in Users, NEW i \in Tickets, Serves(u, i) PROVE [Next]_vars /\ RowsInv'
    BY <1>3, ServesKeeps
<1>4. CASE Restarts
    BY <1>4, RestartsKeeps
<1>5. CASE UNCHANGED <<vars, rowVars>>
    <2>1. UNCHANGED vars /\ UNCHANGED <<ticket, unsure, answer>>
        BY <1>5 DEF rowVars
    <2>2. TypeOK' /\ PlayerInv'
        BY <2>1, StepKeeps DEF RowsInv
    <2>3. UNCHANGED <<queue, excused, ticket, unsure>>
        BY <2>1 DEF vars
    <2>4. \A u \in Users : GoUp(u)'
        BY <2>3 DEF RowsInv, GoUp
    <2> QED BY <2>1, <2>2, <2>3, <2>4 DEF RowsInv
<1> QED BY <1>1, <1>2, <1>3, <1>4, <1>5 DEF RowsNext

LEMMA RowsKept ==
    ASSUME Tickets \subseteq Nat
    PROVE  RowsSpec => []RowsInv
<1>1. RowsInit => RowsInv
    BY RowsInitKeeps
<1>2. RowsInv /\ [RowsNext]_<<vars, rowVars>> => RowsInv'
    BY RowsStepKeeps
<1> QED BY <1>1, <1>2, PTL DEF RowsSpec

\* What PlayerDB takes DBService to do is all that can come of it: Players
\* whose requests are served by the RowService of each user's row, which
\* DBService implements, take no step that PlayerDB has not.
THEOREM PlayersFitRowService ==
    ASSUME Tickets \subseteq Nat
    PROVE  RowsSpec => ImplementsPlayerDB
<1>1. RowsInit => Init
    BY RowsInitKeeps
<1>2. RowsInv /\ [RowsNext]_<<vars, rowVars>> => [Next]_vars
    BY RowsStepKeeps
<1> QED BY <1>1, <1>2, RowsKept, PTL DEF RowsSpec, ImplementsPlayerDB, Spec

\* So no change of a user is lost by Players over their RowServices, but for
\* the users that are excused (SaveToDB, LoadFromDB, AsyncCallNode, OnExecute).
THEOREM NoUpdateIsLostOverRows ==
    ASSUME Tickets \subseteq Nat
    PROVE  RowsSpec => []NoLostUpdate
BY PlayersFitRowService, NoUpdateIsLost, PTL DEF ImplementsPlayerDB
=============================================================================
