------------------------------ MODULE DBProofs --------------------------------
(* What DBService guarantees for any number of rows, goroutines, requests    *)
(* and goroutines' steps in between, with the cache compressed as the        *)
(* configuration of the repository has it.                                   *)
EXTENDS DBService, FiniteSetTheorems, TLAPS

----------------------------------------------------------------------------
(* Requests, goroutines and rows.                                           *)

NeedRow == {"find", "findMany", "upset"} \cup Fields
Plains  == {"read", "count", "delOne", "delMany", "redis"} \cup Adds \cup Updates

LEMMA RequestFacts ==
    ASSUME NEW r \in Request
    PROVE  /\ r.op \in NeedRow \cup Plains \cup {"create"} /\ r # NoReq
           /\ r.key \in Keys \cup PlainKeys
           /\ r.key \in Keys <=> r.op \in NeedRow \cup {"create"}
           /\ r.op \in {"upset", "create"} \cup Fields => r.val \in Vals
           /\ r.op \in Adds => r.val \in Vals \cup {NoData}
           /\ r.op \in Updates => r.val \in Vals \cup {NoData, Both}
BY DBAssumption DEF Request, NeedRow, Plains, Fields, Adds, Updates, NoReq

LEMMA IndexType == ASSUME NEW n \in Nat PROVE Index(n) \in Workers /\ Index(n) # 0
<1> DEFINE m == GoroutineNum - 1
<1>1. m \in Nat /\ m > 0
    BY DBAssumption
<1> HIDE DEF m
<1>2. n % m \in 0 .. m - 1
    BY <1>1
<1>3. GoroutineNum = m + 1
    BY DBAssumption DEF m
<1> QED BY <1>1, <1>2, <1>3 DEF Index, Workers, m

\* Every request about a row that must exist goes to the goroutine that
\* serves the row; only the login's and the plain ones go elsewhere.
LEMMA WorkerOfType ==
    ASSUME NEW r \in Request
    PROVE  /\ WorkerOf(r) \in Workers
           /\ r.op \in NeedRow => WorkerOf(r) = Index(Hash[r.key])
<1>1. 0 \in Workers
    BY DBAssumption DEF Workers
<1>2. r.op \in NeedRow => WorkerOf(r) = Index(Hash[r.key])
    BY DEF WorkerOf, NeedRow, Fields, Reads
<1>3. r.op = "create" => PlatHash[r.key] \in Nat
    BY RequestFacts, DBAssumption
<1>4. Hash[r.key] \in Nat
    BY RequestFacts, DBAssumption
<1>5. WorkerOf(r) \in {Index(PlatHash[r.key]), 0, Index(Hash[r.key])}
    BY DEF WorkerOf
<1>6. r.op # "create" => WorkerOf(r) # Index(PlatHash[r.key]) \/ WorkerOf(r) \in {0, Index(Hash[r.key])}
    BY DEF WorkerOf
<1>7. WorkerOf(r) \in Workers
    BY <1>1, <1>3, <1>4, <1>6, IndexType DEF WorkerOf
<1> QED BY <1>2, <1>7

LEMMA HashType == \A k \in Keys : Index(Hash[k]) \in Workers
BY IndexType, DBAssumption

\* A write the goroutine passes on makes a row of a row.
LEMMA StoredType ==
    ASSUME NEW r \in Request, NEW row \in Rows,
           r.op \notin Reads \cup {"find", "findMany", "redis"}, ~Panics(r), ~Rejected(r)
    PROVE  /\ Stored(row, r) \in Rows
           /\ r.key \in Keys /\ row # Empty => Stored(row, r) # Empty
<1>1. \A v \in Vals : v \in Nat /\ v \in Rows /\ v # Empty
    BY DBAssumption DEF Rows
<1>2. CASE r.op = "upset"
    BY <1>1, <1>2, RequestFacts DEF Stored, DoUpSet, Fields
<1>3. CASE r.op \in Fields
    <2>1. r.val \in Nat
        BY <1>1, <1>3, RequestFacts
    <2>2. CASE row \in Nat /\ r.op = "inc"
        <3>1. DoUpdateField(row, r) = row + r.val
            BY <2>2, DBAssumption DEF DoUpdateField
        <3>2. row + r.val \in Nat
            BY <2>1, <2>2
        <3> QED BY <1>3, <3>1, <3>2, DBAssumption DEF Stored, Rows, Fields
    <2>3. CASE ~(row \in Nat /\ r.op = "inc")
        <3>1. DoUpdateField(row, r) = IF row = Empty THEN Empty ELSE r.val
            BY <1>3, <2>3, DBAssumption DEF DoUpdateField, Rows, Fields
        <3>2. Stored(row, r) = DoUpdateField(row, r)
            BY <1>3 DEF Stored, Fields
        <3> QED BY <1>1, <1>3, <3>1, <3>2, RequestFacts
    <2> QED BY <2>2, <2>3
<1>4. CASE r.op \in {"create", "findAndUpdate"}
    <2>1. r.val \in Vals
        BY <1>4, RequestFacts DEF Rejected, Adds, Updates
    <2> QED BY <1>1, <1>4, <2>1 DEF Stored, DoFindOneAndUpset, Fields
<1>5. CASE r.op = "insert"
    <2>1. r.val \in Vals /\ r.key \notin Keys
        BY <1>5, RequestFacts DEF Rejected, Adds, Updates, NeedRow, Fields
    <2> QED BY <1>1, <1>5, <2>1 DEF Stored, DoInsert, Fields
<1>6. CASE r.op \in Updates
    <2>1. r.val \in Vals /\ r.key \notin Keys
        BY <1>6, RequestFacts DEF Rejected, Panics, Adds, Updates, NeedRow, Fields
    <2> QED BY <1>1, <1>6, <2>1 DEF Stored, DoUpdate, DoUpdateMany, Fields, Updates, Rows
<1>7. CASE r.op \in {"delOne", "delMany"}
    <2>1. r.key \notin Keys
        BY <1>7, RequestFacts DEF NeedRow, Fields
    <2> QED BY <1>7, <2>1 DEF Stored, DoDelOne, DoDelMany, Fields, Rows
<1> QED BY <1>2, <1>3, <1>4, <1>5, <1>6, <1>7, RequestFacts DEF NeedRow, Plains, Reads, Adds, Updates

\* What findUpdateField makes of an entry.
LEMMA findUpdateFieldType ==
    ASSUME NEW r \in Request, r.op \in Fields, NEW entry \in Entries \cup {NoEntry}
    PROVE  findUpdateField(entry, r) \in Entries \cup {NoEntry}
<1>1. CASE entry \in {NoEntry, Garbled, NoField}
    BY <1>1, DBAssumption DEF findUpdateField, Entries
<1>2. CASE entry \notin {NoEntry, Garbled, NoField}
    <2>1. entry \in Rows
        BY <1>2 DEF Entries
    <2>2. findUpdateField(entry, r) = DoUpdateField(entry, r)
        BY <1>2 DEF findUpdateField
    <2>3. Stored(entry, r) = DoUpdateField(entry, r)
        BY DEF Stored, Fields
    <2>4. r.op \notin Reads \cup {"find", "findMany", "redis"} /\ ~Panics(r) /\ ~Rejected(r)
        BY DEF Fields, Reads, Panics, Rejected, Updates, Adds
    <2> QED BY <2>1, <2>2, <2>3, <2>4, StoredType DEF Entries
<1> QED BY <1>1, <1>2

----------------------------------------------------------------------------
(* The invariant of the queues.                                             *)

Waiting(w) == {channel[w][n] : n \in 1 .. Len(channel[w])}
Busy(w)    == IF worker[w].pc = "idle" THEN {} ELSE {Id(w)}
Sorted(s)  == \A m, n \in 1 .. Len(s) : m < n => s[m] < s[n]

\* What a goroutine does fits the request it works on.
Does(pc, r) ==
    /\ pc = "field" => r.op \in Fields
    /\ pc = "read"  => r.op \in Reads \cup {"find", "findMany"}
    /\ pc = "fill"  => r.op \in {"find", "findMany"}
    /\ pc = "write" => r.op \notin Reads \cup {"find", "findMany", "redis"}
                       /\ ~Panics(r) /\ ~Rejected(r)

\* A goroutine has exactly the requests of its keys before it, the oldest
\* first; ids are given in the order requests come in.
QueueInv ==
    /\ \A w \in Workers : Sorted(channel[w])
    /\ \A w \in Workers : worker[w].pc # "idle" =>
         Does(worker[w].pc, Req(w)) /\ \A i \in Waiting(w) : Id(w) < i
    /\ \A w \in Workers :
         Waiting(w) \cup Busy(w) = {i \in Ids : req[i] # NoReq /\ WorkerOf(req[i]) = w}
    /\ \A i \in Ids : status[i] = "queued" <=> req[i] # NoReq
    /\ \A i, j \in Ids : i < j /\ status[i] = "unsent" => status[j] = "unsent"

\* A busy goroutine works on a request of its own.
LEMMA BusyWith ==
    ASSUME TypeOK, QueueInv, NEW w \in Workers, worker[w].pc # "idle"
    PROVE  /\ Id(w) \in Ids /\ Req(w) \in Request /\ WorkerOf(Req(w)) = w
           /\ worker[w].pc \in {"field", "write", "read", "fill"}
           /\ Does(worker[w].pc, Req(w))
<1>1. Id(w) \in Busy(w)
    BY DEF Busy
<1>2. Id(w) \in Ids /\ req[Id(w)] # NoReq /\ WorkerOf(req[Id(w)]) = w
    BY <1>1 DEF QueueInv
<1> QED BY <1>2 DEF TypeOK, QueueInv, Req, Idle

LEMMA AppendSorted ==
    ASSUME NEW s \in Seq(Ids), NEW i \in Ids, Sorted(s), \A n \in 1 .. Len(s) : s[n] < i
    PROVE  Sorted(Append(s, i))
BY DEF Sorted, Ids

\* Taking the oldest request out of a channel.
LEMMA TakeOldest ==
    ASSUME TypeOK, QueueInv, NEW w \in Workers, channel[w] # <<>>,
           channel' = [channel EXCEPT ![w] = Tail(@)]
    PROVE  LET i == Head(channel[w]) IN
           /\ i \in Ids /\ i \in Waiting(w)
           /\ Waiting(w)' = Waiting(w) \ {i} /\ \A j \in Waiting(w)' : i < j
           /\ channel' \in [Workers -> Seq(Ids)]
           /\ \A v \in Workers : Sorted(channel'[v])
           /\ \A v \in Workers \ {w} : Waiting(v)' = Waiting(v)
<1> DEFINE s == channel[w]
           i == Head(s)
<1>1. s \in Seq(Ids) /\ s # <<>> /\ Sorted(s)
    BY DEF TypeOK, QueueInv
<1>2. channel'[w] = Tail(s) /\ \A v \in Workers \ {w} : channel'[v] = channel[v]
    BY DEF TypeOK
<1>3. channel' \in [Workers -> Seq(Ids)]
    BY <1>1 DEF TypeOK
<1>4. Waiting(w) = {s[n] : n \in 1 .. Len(s)} /\ Waiting(w)' = {Tail(s)[n] : n \in 1 .. Len(Tail(s))}
    BY <1>2 DEF Waiting
<1> HIDE DEF s
<1>5. /\ Len(s) \in Nat /\ Len(s) > 0 /\ i = s[1] /\ i \in Ids /\ Len(Tail(s)) = Len(s) - 1
      /\ \A n \in 1 .. Len(s) - 1 : Tail(s)[n] = s[n + 1]
    BY <1>1
<1>6. Sorted(Tail(s))
    BY <1>1, <1>5 DEF Sorted
<1>7. \A n \in 1 .. Len(s) : s[n] \in Ids
    BY <1>1
<1>8. \A n \in 2 .. Len(s) : i < s[n]
    BY <1>1, <1>5 DEF Sorted
<1>9. \A j \in Waiting(w)' : j \in Waiting(w) /\ i < j /\ j # i
    <2> SUFFICES ASSUME NEW n \in 1 .. Len(Tail(s))
                 PROVE  LET j == Tail(s)[n] IN j \in Waiting(w) /\ i < j /\ j # i
        BY <1>4
    <2>1. n + 1 \in 2 .. Len(s) /\ Tail(s)[n] = s[n + 1]
        BY <1>5
    <2>2. i < s[n + 1] /\ s[n + 1] \in Nat /\ i \in Nat
        BY <1>5, <1>7, <1>8, <2>1 DEF Ids
    <2> QED BY <1>4, <2>1, <2>2
<1>10. \A j \in Waiting(w) : j = i \/ j \in Waiting(w)'
    <2> SUFFICES ASSUME NEW n \in 1 .. Len(s) PROVE s[n] = i \/ s[n] \in Waiting(w)'
        BY <1>4
    <2>1. CASE n = 1
        BY <1>5, <2>1
    <2>2. CASE n # 1
        <3>1. n - 1 \in 1 .. Len(s) - 1 /\ Tail(s)[n - 1] = s[n]
            BY <1>5, <2>2
        <3> QED BY <1>4, <1>5, <3>1
    <2> QED BY <2>1, <2>2
<1>11. i \in Waiting(w)
    BY <1>4, <1>5
<1>12. \A v \in Workers : Sorted(channel'[v])
    BY <1>2, <1>6 DEF QueueInv
<1>13. Waiting(w)' = Waiting(w) \ {i}
    BY <1>9, <1>10
<1>14. \A v \in Workers \ {w} : Waiting(v)' = Waiting(v)
    BY <1>2 DEF Waiting
<1> QED BY <1>3, <1>5, <1>9, <1>11, <1>12, <1>13, <1>14 DEF s

\* The end of a request: the goroutine's oldest one leaves the node.
LEMMA EndKeepsQueue ==
    ASSUME TypeOK, QueueInv, NEW w \in Workers, NEW i \in Waiting(w) \cup Busy(w),
           NEW how, NEW row, End(w, i, how, row),
           \A v \in Workers : Sorted(channel'[v]),
           \A v \in Workers \ {w} : Waiting(v)' = Waiting(v),
           Waiting(w)' = (Waiting(w) \cup Busy(w)) \ {i}
    PROVE  QueueInv'
<1> DEFINE Mine(v) == {j \in Ids : req[j] # NoReq /\ WorkerOf(req[j]) = v}
<1>1. i \in Ids /\ req[i] # NoReq /\ WorkerOf(req[i]) = w
    BY DEF QueueInv
<1>2. /\ worker'[w] = Idle /\ \A v \in Workers \ {w} : worker'[v] = worker[v]
      /\ req'[i] = NoReq /\ \A j \in Ids \ {i} : req'[j] = req[j]
      /\ status'[i] = "ended" /\ \A j \in Ids \ {i} : status'[j] = status[j]
    BY <1>1 DEF End, TypeOK
<1>3. \A v \in Workers : worker'[v].pc # "idle" =>
         Does(worker'[v].pc, Req(v)') /\ \A j \in Waiting(v)' : Id(v)' < j
    <2> SUFFICES ASSUME NEW v \in Workers, worker'[v].pc # "idle"
                 PROVE  Does(worker'[v].pc, Req(v)') /\ \A j \in Waiting(v)' : Id(v)' < j
        OBVIOUS
    <2>1. v # w /\ worker'[v] = worker[v]
        BY <1>2 DEF Idle
    <2>2. Id(v) \in Ids /\ WorkerOf(Req(v)) = v
        BY <2>1, BusyWith
    <2>3. Id(v) # i /\ Req(v)' = Req(v) /\ Id(v)' = Id(v)
        BY <1>1, <1>2, <2>1, <2>2 DEF Req, Id
    <2> QED BY <2>1, <2>3 DEF QueueInv
<1>4. \A v \in Workers : Waiting(v)' \cup Busy(v)' = {j \in Ids : req'[j] # NoReq /\ WorkerOf(req'[j]) = v}
    <2> TAKE v \in Workers
    <2>1. Waiting(v) \cup Busy(v) = Mine(v)
        BY DEF QueueInv
    <2>2. CASE v = w
        <3>1. Busy(v)' = {}
            BY <1>2, <2>2 DEF Busy, Idle
        <3> QED BY <1>1, <1>2, <2>1, <2>2, <3>1
    <2>3. CASE v # w
        <3>1. Busy(v)' = Busy(v)
            BY <1>2, <2>3 DEF Busy, Id
        <3> QED BY <1>1, <1>2, <2>1, <2>3, <3>1
    <2> QED BY <2>2, <2>3
<1>5. \A j \in Ids : status'[j] = "queued" <=> req'[j] # NoReq
    BY <1>2 DEF QueueInv
<1>6. \A j, k \in Ids : j < k /\ status'[j] = "unsent" => status'[k] = "unsent"
    <2>1. status[i] = "queued"
        BY <1>1 DEF QueueInv
    <2> QED BY <1>2, <2>1 DEF QueueInv
<1> QED BY <1>3, <1>4, <1>5, <1>6 DEF QueueInv

\* The next step of a request.
LEMMA GoKeepsQueue ==
    ASSUME TypeOK, QueueInv, NEW w \in Workers, NEW i \in Waiting(w) \cup Busy(w),
           NEW pc \in {"field", "write", "read", "fill"}, Go(w, i, pc), Does(pc, req[i]),
           \A v \in Workers : Sorted(channel'[v]),
           \A v \in Workers \ {w} : Waiting(v)' = Waiting(v),
           Waiting(w)' = (Waiting(w) \cup Busy(w)) \ {i}, \A j \in Waiting(w)' : i < j
    PROVE  QueueInv'
<1>1. i \in Ids
    BY DEF QueueInv
<1>2. /\ worker'[w] = [pc |-> pc, id |-> i] /\ \A v \in Workers \ {w} : worker'[v] = worker[v]
      /\ req' = req /\ status' = status
    BY DEF Go, TypeOK
<1>3. \A v \in Workers : worker'[v].pc # "idle" =>
         Does(worker'[v].pc, Req(v)') /\ \A j \in Waiting(v)' : Id(v)' < j
    <2> TAKE v \in Workers
    <2>1. CASE v = w
        BY <1>2, <2>1 DEF Req, Id
    <2>2. CASE v # w
        BY <1>2, <2>2 DEF Req, Id, QueueInv
    <2> QED BY <2>1, <2>2
<1>4. \A v \in Workers : Waiting(v)' \cup Busy(v)' = Waiting(v) \cup Busy(v)
    <2> TAKE v \in Workers
    <2>1. CASE v = w
        <3>1. Busy(v)' = {i}
            BY <1>2, <2>1 DEF Busy, Id
        <3> QED BY <2>1, <3>1
    <2>2. CASE v # w
        BY <1>2, <2>2 DEF Busy, Id
    <2> QED BY <2>1, <2>2
<1> QED BY <1>2, <1>3, <1>4 DEF QueueInv

----------------------------------------------------------------------------
(* What the steps of a goroutine are made of.                               *)

Pcs  == {"field", "write", "read", "fill"}
Hows == {"ok", "error", "full", "dropped", "panic", "lost"}

LEMMA EndType ==
    ASSUME TypeOK, NEW w \in Workers, NEW i \in Ids, NEW how \in Hows,
           NEW row \in Entries \cup {NoEntry}, End(w, i, how, row)
    PROVE  /\ worker' \in [Workers -> {Idle} \cup [pc : Pcs, id : Ids]]
           /\ held' \in [Workers -> [Keys -> Entries \cup {NoEntry}]]
           /\ req' \in [Ids -> Request \cup {NoReq}]
           /\ status' \in [Ids -> {"unsent", "queued", "ended"}]
           /\ answer' \in Answer
<1>1. Nothing \in [Keys -> Entries \cup {NoEntry}]
    BY DEF Nothing
<1> QED BY <1>1 DEF TypeOK, End, Answer, Pcs, Hows

LEMMA GoType ==
    ASSUME TypeOK, NEW w \in Workers, NEW i \in Ids, NEW pc \in Pcs, Go(w, i, pc)
    PROVE  /\ worker' \in [Workers -> {Idle} \cup [pc : Pcs, id : Ids]]
           /\ req' \in [Ids -> Request \cup {NoReq}]
           /\ status' \in [Ids -> {"unsent", "queued", "ended"}]
           /\ answer' \in Answer
BY DEF TypeOK, Go, Pcs

LEMMA InsertedFacts ==
    ASSUME TypeOK, NEW K \in SUBSET Keys, NEW entry, Inserted(K, entry)
    PROVE  /\ \A k \in Keys : cache'[k] \in {NoEntry, cache[k]} \/ (k \in K /\ cache'[k] = entry[k])
           /\ \A k \in K : cache'[k] \in {NoEntry, entry[k]}
           /\ (\A k \in K : entry[k] \in Entries \cup {NoEntry}) =>
                cache' \in [Keys -> Entries \cup {NoEntry}]
BY DEF Inserted, TypeOK

\* An insertion of one row keeps that row.
LEMMA InsertedOne ==
    ASSUME TypeOK, NEW k \in Keys, NEW entry, updateDBDataToCache(k, entry)
    PROVE  /\ cache'[k] = entry
           /\ \A j \in Keys \ {k} : cache'[j] \in {NoEntry, cache[j]}
           /\ entry \in Entries \cup {NoEntry} => cache' \in [Keys -> Entries \cup {NoEntry}]
<1> DEFINE e == [j \in {k} |-> entry]
<1>1. Inserted({k}, e)
    BY DEF updateDBDataToCache
<1>2. e[k] = entry
    OBVIOUS
<1> HIDE DEF e
<1> QED BY <1>1, <1>2 DEF Inserted, TypeOK

\* The queues around a request in hand.
LEMMA BusyQueue ==
    ASSUME TypeOK, QueueInv, NEW w \in Workers, worker[w].pc # "idle", UNCHANGED channel
    PROVE  /\ Id(w) \in Waiting(w) \cup Busy(w)
           /\ \A v \in Workers : Sorted(channel'[v])
           /\ \A v \in Workers \ {w} : Waiting(v)' = Waiting(v)
           /\ Waiting(w)' = (Waiting(w) \cup Busy(w)) \ {Id(w)}
           /\ \A j \in Waiting(w)' : Id(w) < j
<1>1. \A v \in Workers : Waiting(v)' = Waiting(v)
    BY DEF Waiting
<1>2. Busy(w) = {Id(w)} /\ \A j \in Waiting(w) : Id(w) < j
    BY DEF Busy, QueueInv
<1>3. Waiting(w) \subseteq Ids /\ Id(w) \in Nat
    BY BusyWith DEF QueueInv, Ids
<1>4. Id(w) \notin Waiting(w)
    BY <1>2, <1>3
<1> QED BY <1>1, <1>2, <1>4 DEF QueueInv

LEMMA IdleQueue ==
    ASSUME TypeOK, QueueInv, NEW w \in Workers, worker[w].pc = "idle", channel[w] # <<>>,
           channel' = [channel EXCEPT ![w] = Tail(@)]
    PROVE  LET i == Head(channel[w]) IN
           /\ i \in Waiting(w) \cup Busy(w)
           /\ i \in Ids /\ req[i] \in Request /\ WorkerOf(req[i]) = w
           /\ \A v \in Workers : Sorted(channel'[v])
           /\ \A v \in Workers \ {w} : Waiting(v)' = Waiting(v)
           /\ Waiting(w)' = (Waiting(w) \cup Busy(w)) \ {i}
           /\ \A j \in Waiting(w)' : i < j
           /\ channel' \in [Workers -> Seq(Ids)]
<1> DEFINE i == Head(channel[w])
<1>1. i \in Waiting(w) \cup Busy(w) /\ Busy(w) = {}
    BY TakeOldest DEF Busy
<1>2. i \in Ids /\ req[i] # NoReq /\ WorkerOf(req[i]) = w
    BY <1>1 DEF QueueInv
<1>3. req[i] \in Request
    BY <1>2 DEF TypeOK
<1> HIDE DEF i
<1> QED BY <1>1, <1>2, <1>3, TakeOldest DEF i

\* What taking a request amounts to: it ends at once, or goes on.
TakeEnds(w, i, r) ==
    /\ \E how \in Hows, row \in Entries \cup {NoEntry} :
         /\ End(w, i, how, row)
         /\ r.op = "find" => how = "ok" /\ row = cache[r.key] /\ row # NoEntry
    /\ r.op \notin {"upset"} \cup Fields
    /\ UNCHANGED cache

TakeGoes(w, i, r, pc) ==
    /\ Go(w, i, pc) /\ Does(pc, r)
    /\ \/ r.op \notin {"upset"} \cup Fields /\ pc \in {"read", "write"} /\ UNCHANGED <<cache, held>>
       \/ r.op = "upset" /\ pc = "write" /\ updateDBDataToCache(r.key, r.val) /\ UNCHANGED held
       \/ /\ r.op \in Fields /\ pc = "field" /\ UNCHANGED cache
          /\ held' = [held EXCEPT ![w][r.key] = cache[r.key]]

LEMMA TakeForms ==
    ASSUME TypeOK, QueueInv, NEW w \in Workers, Take(w)
    PROVE  LET i == Head(channel[w]) IN
           TakeEnds(w, i, req[i]) \/ \E pc \in Pcs : TakeGoes(w, i, req[i], pc)
<1> DEFINE i == Head(channel[w])
           r == req[i]
<1> SUFFICES TakeEnds(w, i, r) \/ \E pc \in Pcs : TakeGoes(w, i, r, pc)
    OBVIOUS
<1>1. r \in Request
    BY IdleQueue DEF Take
<1>2. /\ r.op = "find" => TakeFind(w, i, r)
      /\ r.op = "findMany" => TakeFindMany(w, i, r)
      /\ r.op = "upset" => TakeUpset(w, i, r)
      /\ r.op \in Fields => TakeField(w, i, r)
      /\ r.op \notin {"find", "findMany", "upset"} \cup Fields => TakeOther(w, i, r)
    BY DEF Take, Fields
<1> HIDE DEF i, r
<1>3. CASE r.op = "find"
    <2>1. cache[r.key] \in Entries \cup {NoEntry}
        BY <1>1, <1>3, RequestFacts DEF TypeOK, NeedRow
    <2>2. CASE cache[r.key] # NoEntry
        <3>1. End(w, i, "ok", cache[r.key]) /\ UNCHANGED cache
            BY <1>2, <1>3, <2>2 DEF TakeFind
        <3>2. TakeEnds(w, i, r)
            BY <1>3, <2>1, <2>2, <3>1 DEF TakeEnds, Hows, Fields
        <3> QED BY <3>2
    <2>3. CASE cache[r.key] = NoEntry
        <3>1. TakeGoes(w, i, r, "read")
            BY <1>2, <1>3, <2>3 DEF TakeFind, TakeGoes, Does, Fields
        <3> QED BY <3>1 DEF Pcs
    <2> QED BY <2>2, <2>3
<1>4. CASE r.op = "findMany"
    <2>1. CASE End(w, i, "ok", NoEntry) /\ UNCHANGED cache
        <3>1. TakeEnds(w, i, r)
            BY <1>4, <2>1 DEF TakeEnds, Hows, Fields
        <3> QED BY <3>1
    <2>2. CASE Go(w, i, "read") /\ UNCHANGED <<cache, held>>
        <3>1. TakeGoes(w, i, r, "read")
            BY <1>4, <2>2 DEF TakeGoes, Does, Fields
        <3> QED BY <3>1 DEF Pcs
    <2> QED BY <1>2, <1>4, <2>1, <2>2 DEF TakeFindMany
<1>5. CASE r.op = "upset"
    <2>1. Does("write", r)
        BY <1>5 DEF Does, Reads, Panics, Rejected, Updates, Adds
    <2>2. TakeGoes(w, i, r, "write")
        BY <1>2, <1>5, <2>1 DEF TakeUpset, TakeGoes
    <2> QED BY <2>2 DEF Pcs
<1>6. CASE r.op \in Fields
    <2>1. TakeGoes(w, i, r, "field")
        BY <1>2, <1>6 DEF TakeField, TakeGoes, Does
    <2> QED BY <2>1 DEF Pcs
<1>7. CASE r.op \notin {"find", "findMany", "upset"} \cup Fields
    <2>1. ASSUME NEW how \in {"dropped", "panic", "error"}, End(w, i, how, NoEntry), UNCHANGED cache
          PROVE  TakeEnds(w, i, r)
        BY <1>7, <2>1 DEF TakeEnds, Hows
    <2>2. CASE r.op \in Reads /\ Go(w, i, "read") /\ UNCHANGED <<cache, held>>
        <3>1. TakeGoes(w, i, r, "read")
            BY <1>7, <2>2 DEF TakeGoes, Does
        <3> QED BY <3>1 DEF Pcs
    <2>3. CASE /\ r.op \notin Reads \cup {"redis"} /\ ~Panics(r) /\ ~Rejected(r)
               /\ Go(w, i, "write") /\ UNCHANGED <<cache, held>>
        <3>1. TakeGoes(w, i, r, "write")
            BY <1>7, <2>3 DEF TakeGoes, Does
        <3> QED BY <3>1 DEF Pcs
    <2>4. TakeOther(w, i, r)
        BY <1>2, <1>7
    <2> QED BY <2>1, <2>2, <2>3, <2>4 DEF TakeOther, Reads
<1> QED BY <1>3, <1>4, <1>5, <1>6, <1>7

----------------------------------------------------------------------------
(* Types and queues, action by action.                                      *)

LEMMA ReceiveKeeps ==
    ASSUME TypeOK, QueueInv, NEW i \in Ids, NEW r \in Request, Receive(i, r)
    PROVE  TypeOK' /\ QueueInv'
<1> DEFINE w == WorkerOf(r)
<1>1. w \in Workers /\ r # NoReq
    BY WorkerOfType, RequestFacts
<1>2. status[i] = "unsent" /\ req[i] = NoReq
    BY DEF Receive, QueueInv, TypeOK
\* All that came in before i has a lower id.
<1>3. \A j \in Ids : status[j] # "unsent" => j < i
    <2> SUFFICES ASSUME NEW j \in Ids, status[j] # "unsent" PROVE j < i
        OBVIOUS
    <2>1. ~(i < j) /\ i # j
        BY <1>2 DEF QueueInv
    <2> QED BY <2>1 DEF Ids
<1>4. ASSUME NEW st \in {"queued", "ended"}, status' = [status EXCEPT ![i] = st]
      PROVE  /\ status' \in [Ids -> {"unsent", "queued", "ended"}]
             /\ \A j, k \in Ids : j < k /\ status'[j] = "unsent" => status'[k] = "unsent"
    <2>1. status' \in [Ids -> {"unsent", "queued", "ended"}]
        BY <1>4 DEF TypeOK
    <2>2. status'[i] = st /\ \A j \in Ids \ {i} : status'[j] = status[j]
        BY <1>4 DEF TypeOK
    <2> SUFFICES ASSUME NEW j \in Ids, NEW k \in Ids, j < k, status'[j] = "unsent"
                 PROVE  status'[k] = "unsent"
        BY <2>1
    <2>3. j # i /\ status[j] = "unsent" /\ status[k] = "unsent"
        BY <1>4, <2>2 DEF QueueInv
    <2>4. k # i
        BY <2>3 DEF Receive, Ids
    <2> QED BY <2>2, <2>3, <2>4
<1> HIDE DEF w
<1>5. CASE /\ status' = [status EXCEPT ![i] = "ended"]
           /\ answer' = [how |-> "full", row |-> NoEntry]
           /\ UNCHANGED <<channel, req>>
    <2>1. TypeOK'
        BY <1>4, <1>5 DEF Receive, TypeOK, Answer
    <2>2. \A j \in Ids : status'[j] = "queued" <=> req'[j] # NoReq
        BY <1>2, <1>5 DEF QueueInv, TypeOK
    <2>3. \A v \in Workers : Waiting(v)' = Waiting(v) /\ Busy(v)' = Busy(v) /\ Req(v)' = Req(v) /\ Id(v)' = Id(v)
        BY <1>5 DEF Receive, Waiting, Busy, Req, Id
    <2> QED BY <1>4, <1>5, <2>1, <2>2, <2>3 DEF Receive, QueueInv
<1>6. CASE /\ status' = [status EXCEPT ![i] = "queued"]
           /\ channel' = [channel EXCEPT ![w] = Append(@, i)]
           /\ req' = [req EXCEPT ![i] = r]
           /\ UNCHANGED answer
    <2>0. channel[w] \in Seq(Ids)
        BY <1>1 DEF TypeOK
    <2>1. TypeOK'
        <3>1. channel' \in [Workers -> Seq(Ids)]
            <4>1. Append(channel[w], i) \in Seq(Ids)
                BY <2>0
            <4> QED BY <1>6, <4>1 DEF TypeOK
        <3>2. req' \in [Ids -> Request \cup {NoReq}]
            BY <1>6 DEF TypeOK
        <3> QED BY <1>4, <1>6, <3>1, <3>2 DEF Receive, TypeOK
    <2>2. /\ channel'[w] = Append(channel[w], i)
          /\ \A v \in Workers \ {w} : channel'[v] = channel[v]
          /\ req'[i] = r /\ \A j \in Ids \ {i} : req'[j] = req[j]
        BY <1>1, <1>6 DEF TypeOK
    <2>3. Waiting(w)' = Waiting(w) \cup {i} /\ \A v \in Workers \ {w} : Waiting(v)' = Waiting(v)
        <3>1. /\ Len(Append(channel[w], i)) = Len(channel[w]) + 1 /\ Len(channel[w]) \in Nat
              /\ \A n \in 1 .. Len(channel[w]) : Append(channel[w], i)[n] = channel[w][n]
              /\ Append(channel[w], i)[Len(channel[w]) + 1] = i
            BY <2>0
        <3>2. Waiting(w)' = Waiting(w) \cup {i}
            BY <2>2, <3>1 DEF Waiting
        <3> QED BY <2>2, <3>2 DEF Waiting
    <2>4. \A v \in Workers : Waiting(v) \cup Busy(v) \subseteq Ids \ {i}
                             /\ \A j \in Waiting(v) \cup Busy(v) : j < i
        <3> TAKE v \in Workers
        <3> SUFFICES ASSUME NEW j \in Waiting(v) \cup Busy(v) PROVE j \in Ids \ {i} /\ j < i
            OBVIOUS
        <3>1. j \in Ids /\ req[j] # NoReq
            BY DEF QueueInv
        <3> QED BY <1>2, <1>3, <3>1 DEF QueueInv
    <2>5. \A v \in Workers : Sorted(channel'[v])
        <3>1. \A n \in 1 .. Len(channel[w]) : channel[w][n] < i
            BY <1>1, <2>4 DEF Waiting
        <3>2. Sorted(channel'[w])
            BY <1>1, <2>0, <2>2, <3>1, AppendSorted DEF QueueInv
        <3> QED BY <2>2, <3>2 DEF QueueInv
    <2>6. \A v \in Workers : Busy(v)' = Busy(v) /\ Id(v)' = Id(v) /\ worker'[v] = worker[v]
        BY DEF Receive, Busy, Id
    <2>7. \A v \in Workers : worker'[v].pc # "idle" =>
             Does(worker'[v].pc, Req(v)') /\ \A j \in Waiting(v)' : Id(v)' < j
        <3> SUFFICES ASSUME NEW v \in Workers, worker[v].pc # "idle"
                     PROVE  Does(worker[v].pc, Req(v)') /\ \A j \in Waiting(v)' : Id(v) < j
            BY <2>6
        <3>1. Id(v) \in Busy(v)
            BY DEF Busy
        <3>2. Id(v) \in Ids \ {i} /\ Id(v) < i
            BY <2>4, <3>1
        <3>3. Req(v)' = Req(v)
            BY <2>2, <2>6, <3>2 DEF Req
        <3>4. \A j \in Waiting(v)' : j \in Waiting(v) \/ j = i
            BY <2>3
        <3> QED BY <3>2, <3>3, <3>4 DEF QueueInv
    <2>8. \A v \in Workers :
            Waiting(v)' \cup Busy(v)' = {j \in Ids : req'[j] # NoReq /\ WorkerOf(req'[j]) = v}
        <3> TAKE v \in Workers
        <3> DEFINE mine == {j \in Ids : req[j] # NoReq /\ WorkerOf(req[j]) = v}
                   then == {j \in Ids : req'[j] # NoReq /\ WorkerOf(req'[j]) = v}
        <3>1. Waiting(v) \cup Busy(v) = mine
            BY DEF QueueInv
        <3>2. CASE v = w
            <4>1. then = mine \cup {i}
                BY <1>1, <1>2, <2>2, <3>2 DEF w
            <4> QED BY <2>3, <2>6, <3>1, <3>2, <4>1
        <3>3. CASE v # w
            <4>1. then = mine
                BY <1>1, <1>2, <2>2, <3>3 DEF w
            <4> QED BY <2>3, <2>6, <3>1, <3>3, <4>1
        <3> QED BY <3>2, <3>3
    <2>9. \A j \in Ids : status'[j] = "queued" <=> req'[j] # NoReq
        BY <1>1, <1>6, <2>2 DEF QueueInv, TypeOK
    <2> QED BY <1>4, <1>6, <2>1, <2>5, <2>7, <2>8, <2>9 DEF QueueInv
<1> QED BY <1>5, <1>6 DEF Receive, Accept, w

LEMMA TakeKeeps ==
    ASSUME TypeOK, QueueInv, NEW w \in Workers, Take(w)
    PROVE  TypeOK' /\ QueueInv'
<1>0. PICK i : i = Head(channel[w])
    OBVIOUS
<1>1. PICK r : r = req[i]
    OBVIOUS
<1>2. /\ i \in Waiting(w) \cup Busy(w) /\ i \in Ids /\ r \in Request
      /\ \A v \in Workers : Sorted(channel'[v])
      /\ \A v \in Workers \ {w} : Waiting(v)' = Waiting(v)
      /\ Waiting(w)' = (Waiting(w) \cup Busy(w)) \ {i} /\ \A j \in Waiting(w)' : i < j
      /\ channel' \in [Workers -> Seq(Ids)] /\ db' = db /\ suspect' = suspect
    BY <1>0, <1>1, IdleQueue DEF Take
<1>2a. noCacheKey' \in [Workers -> SUBSET Keys]
    <2>1. \A new \in SUBSET Keys : [noCacheKey EXCEPT ![w] = new] \in [Workers -> SUBSET Keys]
        BY DEF TypeOK
    <2>2. {} \in SUBSET Keys /\ {k \in Keys : cache[k] = NoEntry} \in SUBSET Keys
        OBVIOUS
    <2>3. \/ UNCHANGED noCacheKey
          \/ noCacheKey' = [noCacheKey EXCEPT ![w] = {}]
          \/ noCacheKey' = [noCacheKey EXCEPT ![w] = {k \in Keys : cache[k] = NoEntry}]
        BY DEF Take, TakeFind, TakeFindMany, TakeUpset, TakeField, TakeOther, End
    <2> QED BY <2>1, <2>2, <2>3 DEF TypeOK
<1>3. CASE TakeEnds(w, i, r)
    <2>1. PICK how \in Hows, row \in Entries \cup {NoEntry} : End(w, i, how, row)
        BY <1>3 DEF TakeEnds
    <2>2. QueueInv'
        BY <1>2, <2>1, EndKeepsQueue
    <2>3. cache' = cache
        BY <1>3 DEF TakeEnds
    <2> QED BY <1>2, <1>2a, <2>1, <2>2, <2>3, EndType DEF TypeOK, Pcs
<1>4. CASE \E pc \in Pcs : TakeGoes(w, i, r, pc)
    <2>1. PICK pc \in Pcs : TakeGoes(w, i, r, pc)
        BY <1>4
    <2>2. Go(w, i, pc) /\ Does(pc, r)
        BY <2>1 DEF TakeGoes
    <2>3. QueueInv'
        BY <1>1, <1>2, <2>2, GoKeepsQueue DEF Pcs
    <2>4. cache' \in [Keys -> Entries \cup {NoEntry}]
        <3>1. CASE r.op = "upset" /\ updateDBDataToCache(r.key, r.val)
            <4>1. r.key \in Keys /\ r.val \in Vals
                BY <1>2, <3>1, RequestFacts DEF NeedRow
            <4>2. r.val \in Entries
                BY <4>1, DBAssumption DEF Entries, Rows
            <4> QED BY <3>1, <4>1, <4>2, InsertedOne
        <3> QED BY <2>1, <3>1 DEF TakeGoes, TypeOK
    <2>5. held' \in [Workers -> [Keys -> Entries \cup {NoEntry}]]
        <3>1. CASE r.op \in Fields /\ held' = [held EXCEPT ![w][r.key] = cache[r.key]]
            <4>1. r.key \in Keys
                BY <1>2, <3>1, RequestFacts DEF NeedRow
            <4> QED BY <3>1, <4>1 DEF TypeOK
        <3> QED BY <2>1, <3>1 DEF TakeGoes, TypeOK
    <2> QED BY <1>2, <1>2a, <2>2, <2>3, <2>4, <2>5, GoType DEF TypeOK, Pcs
<1> QED BY <1>0, <1>1, <1>3, <1>4, TakeForms

LEMMA ChangeFieldKeeps ==
    ASSUME TypeOK, QueueInv, NEW w \in Workers, ChangeField(w)
    PROVE  TypeOK' /\ QueueInv'
<1> DEFINE r == Req(w)
           k == r.key
<1>1. worker[w].pc = "field" /\ worker[w].pc # "idle" /\ UNCHANGED channel
    BY DEF ChangeField
<1>2. /\ Id(w) \in Ids /\ r \in Request /\ r.op \in Fields /\ k \in Keys
      /\ held[w][k] \in Entries \cup {NoEntry}
    BY <1>1, BusyWith, RequestFacts DEF Does, NeedRow, TypeOK
<1>3. Go(w, Id(w), "write")
    BY DEF ChangeField
<1>4. Does("write", r)
    BY <1>2 DEF Does, Fields, Reads, Panics, Rejected, Updates, Adds
<1>5. QueueInv'
    BY <1>1, <1>3, <1>4, BusyQueue, GoKeepsQueue DEF Req
<1>6. cache' \in [Keys -> Entries \cup {NoEntry}]
    <2>1. findUpdateField(held[w][k], r) \in Entries \cup {NoEntry}
        BY <1>2, findUpdateFieldType
    <2>2. CASE UNCHANGED cache
        BY <2>2 DEF TypeOK
    <2>3. CASE cache' = [cache EXCEPT ![k] = NoEntry]
        BY <1>2, <2>3 DEF TypeOK
    <2>4. CASE updateDBDataToCache(k, findUpdateField(held[w][k], r))
        BY <1>2, <2>1, <2>4, InsertedOne
    <2> QED BY <2>2, <2>3, <2>4 DEF ChangeField
<1>7. held' \in [Workers -> [Keys -> Entries \cup {NoEntry}]]
    BY DEF ChangeField, TypeOK, Nothing
<1> QED BY <1>2, <1>3, <1>5, <1>6, <1>7, GoType DEF ChangeField, TypeOK, Pcs

\* The steps that end a request a goroutine works on.
LEMMA LastStepKeeps ==
    ASSUME TypeOK, QueueInv, NEW w \in Workers, worker[w].pc # "idle", NEW how \in Hows,
           NEW row \in Entries \cup {NoEntry}, End(w, Id(w), how, row), UNCHANGED channel,
           db' \in [Keys \cup PlainKeys -> Rows], cache' \in [Keys -> Entries \cup {NoEntry}],
           suspect' \subseteq Keys
    PROVE  TypeOK' /\ QueueInv'
<1>1. Id(w) \in Ids
    BY BusyWith
<1>2. QueueInv'
    BY BusyQueue, EndKeepsQueue
<1>3. noCacheKey' \in [Workers -> SUBSET Keys]
    BY DEF End, TypeOK
<1> QED BY <1>1, <1>2, <1>3, EndType DEF TypeOK, Pcs

LEMMA WriteKeeps ==
    ASSUME TypeOK, QueueInv, NEW w \in Workers, Write(w) \/ WriteFails(w)
    PROVE  TypeOK' /\ QueueInv'
<1> DEFINE r == Req(w)
<1>1. worker[w].pc # "idle" /\ worker[w].pc = "write" /\ r \in Request /\ UNCHANGED <<cache, channel>>
    BY BusyWith DEF Write, WriteFails
<1>2. db' \in [Keys \cup PlainKeys -> Rows]
    <2>1. CASE Write(w)
        <3>1. r.key \in Keys \cup PlainKeys /\ db[r.key] \in Rows
            BY <1>1, RequestFacts DEF TypeOK
        <3>2. Stored(db[r.key], r) \in Rows
            BY <1>1, <3>1, BusyWith, StoredType DEF Does
        <3> QED BY <2>1, <3>1, <3>2 DEF Write, TypeOK
    <2>2. CASE WriteFails(w)
        BY <2>2 DEF WriteFails, TypeOK
    <2> QED BY <2>1, <2>2
<1>3. suspect' \subseteq Keys
    BY DEF Write, WriteFails, TypeOK
<1>4. \E how \in Hows : End(w, Id(w), how, NoEntry)
    BY DEF Write, WriteFails, Hows
<1> QED BY <1>1, <1>2, <1>3, <1>4, LastStepKeeps DEF TypeOK

LEMMA ReadKeeps ==
    ASSUME TypeOK, QueueInv, NEW w \in Workers, Read(w) \/ ReadFails(w)
    PROVE  TypeOK' /\ QueueInv'
<1> DEFINE r == Req(w)
<1>1. /\ worker[w].pc # "idle" /\ worker[w].pc = "read" /\ r \in Request
      /\ UNCHANGED <<db, cache, channel, suspect>>
    BY BusyWith DEF Read, ReadFails
<1>2. r.key \in Keys \cup PlainKeys /\ db[r.key] \in Rows
    BY <1>1, RequestFacts DEF TypeOK
<1>3. CASE ReadFails(w)
    BY <1>1, <1>3, LastStepKeeps DEF ReadFails, TypeOK, Hows
<1>4. CASE Read(w) /\ r.op \in Reads
    <2>1. \E row \in Entries \cup {NoEntry} : End(w, Id(w), "ok", row)
        <3>1. DoCount(db[r.key]) \in Entries /\ db[r.key] \in Entries
            BY <1>2 DEF DoCount, Entries, Rows
        <3> QED BY <1>4, <3>1 DEF Read
    <2> QED BY <1>1, <2>1, LastStepKeeps DEF TypeOK, Hows
<1>5. CASE Read(w) /\ r.op \notin Reads
    <2>1. Go(w, Id(w), "fill") /\ Id(w) \in Ids
        BY <1>1, <1>5, BusyWith DEF Read
    <2>2. Does("fill", r)
        BY <1>1, <1>5, BusyWith DEF Does
    <2>3. QueueInv'
        BY <1>1, <2>1, <2>2, BusyQueue, GoKeepsQueue DEF Req
    <2>4. held' \in [Workers -> [Keys -> Entries \cup {NoEntry}]]
        <3>1. \A k \in Keys : db[k] \in Entries
            BY DEF TypeOK, Entries
        <3> DEFINE got == [k \in Keys |-> IF Missed(w, k) THEN db[k] ELSE NoEntry]
        <3>2. got \in [Keys -> Entries \cup {NoEntry}]
            BY <3>1
        <3>3. held' = [held EXCEPT ![w] = got]
            BY <1>5 DEF Read
        <3> HIDE DEF got
        <3> QED BY <3>2, <3>3 DEF TypeOK
    <2>5. noCacheKey' = noCacheKey
        BY <1>5 DEF Read
    <2> QED BY <1>1, <2>1, <2>3, <2>4, <2>5, GoType DEF TypeOK, Pcs
<1> QED BY <1>3, <1>4, <1>5

LEMMA FillKeeps ==
    ASSUME TypeOK, QueueInv, NEW w \in Workers, Fill(w)
    PROVE  TypeOK' /\ QueueInv'
<1> DEFINE r == Req(w)
           K == {k \in Keys : held[w][k] # NoEntry}
<1>1. /\ worker[w].pc # "idle" /\ worker[w].pc = "fill" /\ r \in Request
      /\ UNCHANGED <<db, channel>>
    BY BusyWith DEF Fill
<1>2. \A k \in Keys : held[w][k] \in Entries \cup {NoEntry}
    BY DEF TypeOK
<1>3. cache' \in [Keys -> Entries \cup {NoEntry}]
    BY <1>2, InsertedFacts DEF Fill
<1>4. r.op = "find" => r.key \in Keys
    BY <1>1, RequestFacts DEF NeedRow
<1>5. \E row \in Entries \cup {NoEntry} : End(w, Id(w), "ok", row)
    BY <1>2, <1>4 DEF Fill
<1>6. suspect' \subseteq Keys
    BY DEF Fill, TypeOK
<1> QED BY <1>1, <1>3, <1>5, <1>6, LastStepKeeps DEF TypeOK, Hows

LEMMA QueueUnchanged ==
    ASSUME QueueInv, UNCHANGED <<channel, worker, req, status>> PROVE QueueInv'
<1>1. \A v \in Workers :
        Waiting(v)' = Waiting(v) /\ Busy(v)' = Busy(v) /\ Req(v)' = Req(v) /\ Id(v)' = Id(v)
    BY DEF Waiting, Busy, Req, Id
<1> QED BY <1>1 DEF QueueInv

\* An empty node: at the start and after a restart.
LEMMA EmptyQueue ==
    ASSUME channel = [w \in Workers |-> <<>>], worker = [w \in Workers |-> Idle],
           req = [i \in Ids |-> NoReq], \A i \in Ids : status[i] # "queued",
           \A i, j \in Ids : i < j /\ status[i] = "unsent" => status[j] = "unsent"
    PROVE  QueueInv
<1>1. \A v \in Workers : Waiting(v) = {} /\ Busy(v) = {} /\ Sorted(channel[v]) /\ worker[v].pc = "idle"
    BY DEF Waiting, Busy, Sorted, Idle
<1> QED BY <1>1 DEF QueueInv

LEMMA RestartKeeps == TypeOK /\ QueueInv /\ Restart => TypeOK' /\ QueueInv'
<1> SUFFICES ASSUME TypeOK, QueueInv, Restart PROVE TypeOK' /\ QueueInv'
    OBVIOUS
<1>1. Nothing \in [Keys -> Entries \cup {NoEntry}]
    BY DEF Nothing
<1>2. <<>> \in Seq(Ids)
    OBVIOUS
<1>3. TypeOK'
    BY <1>1, <1>2 DEF Restart, TypeOK, Answer
<1>4. QueueInv'
    <2>1. \A i \in Ids : status'[i] # "queued" /\ (status'[i] = "unsent" <=> status[i] = "unsent")
        BY DEF Restart, TypeOK
    <2>2. \A i, j \in Ids : i < j /\ status'[i] = "unsent" => status'[j] = "unsent"
        BY <2>1 DEF QueueInv
    <2>3. /\ channel' = [w \in Workers |-> <<>>] /\ worker' = [w \in Workers |-> Idle]
          /\ req' = [i \in Ids |-> NoReq]
        BY DEF Restart
    <2>4. \A v \in Workers :
             Waiting(v)' = {} /\ Busy(v)' = {} /\ Sorted(channel'[v]) /\ worker'[v].pc = "idle"
        BY <2>3 DEF Waiting, Busy, Sorted, Idle
    <2> QED BY <2>1, <2>2, <2>3, <2>4 DEF QueueInv
<1> QED BY <1>3, <1>4

LEMMA StepKeeps == TypeOK /\ QueueInv /\ [Next]_vars => TypeOK' /\ QueueInv'
<1> SUFFICES ASSUME TypeOK, QueueInv, [Next]_vars PROVE TypeOK' /\ QueueInv'
    OBVIOUS
<1>1. ASSUME NEW i \in Ids, NEW r \in Requests, RPC_DBRequest(i, r) \/ RPC_RedisRequest(i, r)
      PROVE  TypeOK' /\ QueueInv'
    BY <1>1, ReceiveKeeps, RequestsAssumption DEF RPC_DBRequest, RPC_RedisRequest
<1>2. ASSUME NEW w \in Workers, ExecuteOptData(w) PROVE TypeOK' /\ QueueInv'
    BY <1>2, TakeKeeps, ChangeFieldKeeps, FillKeeps, WriteKeeps, ReadKeeps DEF ExecuteOptData
<1>3. ASSUME NEW k \in Keys, NEW v \in Vals, OtherNodeWrites(k, v) PROVE TypeOK' /\ QueueInv'
    <2>1. v \in Rows
        BY DBAssumption DEF Rows
    <2>2. TypeOK'
        BY <1>3, <2>1 DEF OtherNodeWrites, TypeOK
    <2> QED BY <1>3, <2>2, QueueUnchanged DEF OtherNodeWrites
<1>4. CASE UNCHANGED vars
    BY <1>4, QueueUnchanged DEF vars, TypeOK
<1> QED BY <1>1, <1>2, <1>3, <1>4, RestartKeeps DEF Next

LEMMA InitTyped == Init => TypeOK /\ QueueInv
<1> SUFFICES ASSUME Init PROVE TypeOK /\ QueueInv
    OBVIOUS
<1>1. Nothing \in [Keys -> Entries \cup {NoEntry}]
    BY DEF Nothing
<1>2. <<>> \in Seq(Ids)
    OBVIOUS
<1>3. TypeOK
    BY <1>1, <1>2, DBAssumption DEF Init, TypeOK, Answer
<1>4. QueueInv
    BY EmptyQueue DEF Init
<1> QED BY <1>3, <1>4

LEMMA Queued == Spec => [](TypeOK /\ QueueInv)
BY InitTyped, StepKeeps, PTL DEF Spec

\* What a goroutine works on is always a request of its own that its step
\* fits, so no step reads what is not there, whatever panicked before.
THEOREM TypeCorrect == Spec => []TypeOK
BY Queued, PTL

----------------------------------------------------------------------------
(* Rows that are there stay there.                                          *)

\* Whatever waits, is cached or has been read is about a row that exists.
Exists ==
    /\ \A i \in Ids : req[i].op \in NeedRow => db[req[i].key] # Empty
    /\ \A k \in Keys : cache[k] # NoEntry => db[k] # Empty
    /\ \A w \in Workers, k \in Keys : held[w][k] # NoEntry => db[k] # Empty

LEMMA RowsStay ==
    ASSUME TypeOK, QueueInv, [Next]_vars, NEW k \in Keys, db[k] # Empty
    PROVE  db'[k] # Empty
<1>1. CASE \E w \in Workers : Write(w)
    <2>1. PICK w \in Workers : Write(w)
        BY <1>1
    <2> DEFINE r == Req(w)
    <2>2. worker[w].pc = "write" /\ r \in Request /\ Does("write", r)
        BY <2>1, BusyWith DEF Write
    <2>3. CASE r.key = k
        <3>1. Stored(db[k], r) # Empty
            BY <2>2, <2>3, StoredType DEF Does, TypeOK
        <3> QED BY <2>1, <2>3, <3>1 DEF Write, TypeOK
    <2>4. CASE r.key # k
        BY <2>1, <2>4 DEF Write, TypeOK
    <2> QED BY <2>3, <2>4
<1>2. CASE \E j \in Keys, v \in Vals : OtherNodeWrites(j, v)
    BY <1>2, DBAssumption DEF OtherNodeWrites, TypeOK
<1>3. CASE UNCHANGED db
    BY <1>3
<1> QED BY <1>1, <1>2, <1>3 DEF Next, ExecuteOptData, Take, ChangeField, Fill, WriteFails, Read,
    ReadFails, RPC_DBRequest, RPC_RedisRequest, Receive, Restart, vars

LEMMA EndRows ==
    ASSUME TypeOK, NEW w \in Workers, NEW i \in Ids, NEW how, NEW row, End(w, i, how, row)
    PROVE  /\ \A j \in Ids : req'[j] \in {req[j], NoReq}
           /\ req'[i] = NoReq /\ \A j \in Ids \ {i} : req'[j] = req[j]
           /\ held'[w] = Nothing /\ \A v \in Workers \ {w} : held'[v] = held[v]
           /\ worker'[w] = Idle /\ \A v \in Workers \ {w} : worker'[v] = worker[v]
BY DEF End, TypeOK

\* What a step leaves behind is about rows that existed before it.
HeldBefore ==
    /\ \A i \in Ids : req'[i].op \in NeedRow => db[req'[i].key] # Empty
    /\ \A k \in Keys : cache'[k] # NoEntry => db[k] # Empty
    /\ \A w \in Workers, k \in Keys : held'[w][k] # NoEntry => db[k] # Empty

LEMMA EndHolds ==
    ASSUME TypeOK, Exists, NEW w \in Workers, NEW i \in Ids, NEW how, NEW row, End(w, i, how, row),
           \A k \in Keys : cache'[k] # NoEntry => db[k] # Empty
    PROVE  HeldBefore
<1>1. NoReq.op \notin NeedRow
    BY DEF NoReq, NeedRow, Fields
<1>2. \A k \in Keys : Nothing[k] = NoEntry
    BY DEF Nothing
<1>3. \A v \in Workers, k \in Keys : held'[v][k] \in {held[v][k], NoEntry}
    BY <1>2, EndRows
<1>4. \A j \in Ids : req'[j] \in {req[j], NoReq}
    BY EndRows
<1> QED BY <1>1, <1>3, <1>4 DEF HeldBefore, Exists

LEMMA TakeHolds ==
    ASSUME TypeOK, QueueInv, Exists, NEW w \in Workers, Take(w) PROVE HeldBefore
<1>0. PICK i : i = Head(channel[w])
    OBVIOUS
<1>1. PICK r : r = req[i]
    OBVIOUS
<1>2. i \in Ids /\ r \in Request
    BY <1>0, <1>1, IdleQueue DEF Take
<1>3. CASE TakeEnds(w, i, r)
    BY <1>2, <1>3, EndHolds DEF TakeEnds, Exists
<1>4. ASSUME NEW pc \in Pcs, TakeGoes(w, i, r, pc) PROVE HeldBefore
    <2>1. req' = req
        BY <1>4 DEF TakeGoes, Go
    <2>2. \A k \in Keys : cache'[k] # NoEntry => db[k] # Empty
        <3>1. CASE r.op = "upset" /\ updateDBDataToCache(r.key, r.val)
            <4>1. r.key \in Keys /\ db[r.key] # Empty
                BY <1>1, <1>2, <3>1, RequestFacts DEF NeedRow, Exists
            <4> QED BY <3>1, <4>1, InsertedOne DEF Exists
        <3>2. CASE UNCHANGED cache
            BY <3>2 DEF Exists
        <3> QED BY <1>4, <3>1, <3>2 DEF TakeGoes
    <2>3. \A v \in Workers, k \in Keys : held'[v][k] # NoEntry => db[k] # Empty
        <3>1. CASE r.op \in Fields /\ held' = [held EXCEPT ![w][r.key] = cache[r.key]]
            <4>1. r.key \in Keys
                BY <1>2, <3>1, RequestFacts DEF NeedRow
            <4>2. \A v \in Workers, k \in Keys : held'[v][k] \in {held[v][k], cache[k]}
                BY <3>1, <4>1 DEF TypeOK
            <4> QED BY <4>2 DEF Exists
        <3>2. CASE UNCHANGED held
            BY <3>2 DEF Exists
        <3> QED BY <1>4, <3>1, <3>2 DEF TakeGoes
    <2> QED BY <2>1, <2>2, <2>3 DEF HeldBefore, Exists
<1> QED BY <1>0, <1>1, <1>3, <1>4, TakeForms

LEMMA ChangeFieldHolds ==
    ASSUME TypeOK, QueueInv, Exists, NEW w \in Workers, ChangeField(w) PROVE HeldBefore
<1> DEFINE r == Req(w)
           k == r.key
<1>1. r \in Request /\ k \in Keys /\ Id(w) \in Ids /\ r.op \in NeedRow
    BY BusyWith, RequestFacts DEF ChangeField, Does, NeedRow
<1>2. db[k] # Empty
    BY <1>1 DEF Exists, Req
<1>3. \A j \in Keys : cache'[j] # NoEntry => db[j] # Empty
    <2>1. CASE UNCHANGED cache \/ cache' = [cache EXCEPT ![k] = NoEntry]
        BY <2>1 DEF Exists, TypeOK
    <2>2. CASE updateDBDataToCache(k, findUpdateField(held[w][k], r))
        BY <1>1, <1>2, <2>2, InsertedOne DEF Exists
    <2> QED BY <2>1, <2>2 DEF ChangeField
<1>4. \A v \in Workers, j \in Keys : held'[v][j] \in {held[v][j], NoEntry}
    BY DEF ChangeField, TypeOK, Nothing
<1>5. req' = req
    BY DEF ChangeField, Go
<1> QED BY <1>3, <1>4, <1>5 DEF HeldBefore, Exists

LEMMA ReadHolds ==
    ASSUME TypeOK, QueueInv, Exists, NEW w \in Workers, Read(w) PROVE HeldBefore
<1> DEFINE r == Req(w)
<1>1. Id(w) \in Ids /\ UNCHANGED cache
    BY BusyWith DEF Read
<1>2. CASE r.op \in Reads
    <2>1. \E row : End(w, Id(w), "ok", row)
        BY <1>2 DEF Read
    <2> QED BY <1>1, <2>1, EndHolds DEF Exists
<1>3. CASE r.op \notin Reads
    <2> DEFINE got == [k \in Keys |-> IF Missed(w, k) THEN db[k] ELSE NoEntry]
    <2>1. held' = [held EXCEPT ![w] = got] /\ req' = req
        BY <1>3 DEF Read, Go
    <2>2. \A k \in Keys : got[k] # NoEntry => db[k] # Empty
        <3> SUFFICES ASSUME NEW k \in Keys, Missed(w, k) PROVE db[k] # Empty
            OBVIOUS
        <3>1. CASE r.op = "find"
            BY <1>1, <3>1 DEF Missed, Exists, Req, NeedRow
        <3>2. CASE r.op # "find"
            BY <3>2 DEF Missed
        <3> QED BY <3>1, <3>2
    <2> HIDE DEF got
    <2>3. \A v \in Workers, k \in Keys : held'[v][k] # NoEntry => db[k] # Empty
        BY <2>1, <2>2 DEF TypeOK, Exists
    <2> QED BY <1>1, <2>1, <2>3 DEF HeldBefore, Exists
<1> QED BY <1>2, <1>3

LEMMA FillHolds ==
    ASSUME TypeOK, QueueInv, Exists, NEW w \in Workers, Fill(w) PROVE HeldBefore
<1> DEFINE K == {k \in Keys : held[w][k] # NoEntry}
<1>1. Id(w) \in Ids
    BY BusyWith DEF Fill
<1>2. \A k \in Keys : cache'[k] # NoEntry => db[k] # Empty
    <2>1. Inserted(K, held[w])
        BY DEF Fill
    <2>2. \A k \in Keys : cache'[k] \in {NoEntry, cache[k]} \/ (k \in K /\ cache'[k] = held[w][k])
        BY <2>1, InsertedFacts
    <2> QED BY <2>2 DEF Exists
<1>3. \E row : End(w, Id(w), "ok", row)
    BY DEF Fill
<1> QED BY <1>1, <1>2, <1>3, EndHolds

LEMMA StepExists == TypeOK /\ QueueInv /\ Exists /\ [Next]_vars => Exists'
<1> SUFFICES ASSUME TypeOK, QueueInv, Exists, [Next]_vars PROVE Exists'
    OBVIOUS
<1>1. HeldBefore
    <2>1. ASSUME NEW i \in Ids, NEW r \in Requests, RPC_DBRequest(i, r) \/ RPC_RedisRequest(i, r)
          PROVE  HeldBefore
        <3>1. r.op \in NeedRow => db[r.key] # Empty
            BY <2>1 DEF RPC_DBRequest, RPC_RedisRequest, NeedRow, Fields
        <3>2. UNCHANGED <<cache, held>> /\ \A j \in Ids : req'[j] \in {req[j], r}
            BY <2>1 DEF RPC_DBRequest, RPC_RedisRequest, Receive, Accept, TypeOK
        <3> QED BY <3>1, <3>2 DEF HeldBefore, Exists
    <2>2. ASSUME NEW w \in Workers, Write(w) \/ WriteFails(w) \/ ReadFails(w)
          PROVE  HeldBefore
        <3>1. Id(w) \in Ids /\ UNCHANGED cache
            BY <2>2, BusyWith DEF Write, WriteFails, ReadFails
        <3>2. \E how : End(w, Id(w), how, NoEntry)
            BY <2>2 DEF Write, WriteFails, ReadFails
        <3> QED BY <3>1, <3>2, EndHolds DEF Exists
    <2>3. CASE Restart
        BY <2>3 DEF Restart, HeldBefore, Nothing, NoReq, NeedRow, Fields
    <2>4. CASE UNCHANGED <<cache, held, req>>
        BY <2>4 DEF HeldBefore, Exists
    <2> QED BY <2>1, <2>2, <2>3, <2>4, TakeHolds, ChangeFieldHolds, ReadHolds, FillHolds
        DEF Next, ExecuteOptData, OtherNodeWrites, vars
<1>2. \A k \in Keys : db[k] # Empty => db'[k] # Empty
    BY RowsStay
<1>3. \A i \in Ids : req'[i].op \in NeedRow => req'[i].key \in Keys
    <2>1. \A i \in Ids : req'[i] \in Request \cup {NoReq}
        BY StepKeeps DEF TypeOK
    <2>2. NoReq.op \notin NeedRow
        BY DEF NoReq, NeedRow, Fields
    <2> QED BY <2>1, <2>2, RequestFacts
<1> QED BY <1>1, <1>2, <1>3 DEF Exists, HeldBefore

----------------------------------------------------------------------------
(* The cache is coherent.                                                   *)

\* The goroutine of row k, and what it, the cache and the database have of k.
Server(k) == Index(Hash[k])

Coherent(k) ==
    LET w == Server(k) IN
    /\ cache[k] # NoEntry =>
         cache[k] = IF Ahead(k) THEN Stored(db[k], Req(w)) ELSE db[k]
    /\ worker[w].pc = "field" /\ Req(w).key = k =>
         /\ held[w][k] \in {NoEntry, db[k]}
         /\ cache[k] \in {NoEntry, held[w][k]}
    /\ worker[w].pc = "fill" =>
         /\ held[w][k] \in {NoEntry, db[k]}
         /\ Req(w).op = "find" /\ Req(w).key = k => held[w][k] = db[k]

AllCoherent == \A k \in Keys \ suspect : Coherent(k)

\* A step that only makes the cache forget about k.
LEMMA ForgetKeeps ==
    ASSUME TypeOK, NEW k \in Keys, Coherent(k),
           worker'[Server(k)] = worker[Server(k)], held'[Server(k)] = held[Server(k)],
           worker[Server(k)].pc # "idle" => Req(Server(k))' = Req(Server(k)),
           db'[k] = db[k], cache'[k] \in {NoEntry, cache[k]}
    PROVE  Coherent(k)'
<1>1. Server(k)' = Server(k)
    BY DEF Server, Index
<1>2. Ahead(k)' <=> Ahead(k)
    BY DEF Ahead, Server, Index
<1> DEFINE w == Server(k)
<1>3. CASE worker[w].pc # "idle"
    BY <1>1, <1>2, <1>3 DEF Coherent
<1>4. CASE worker[w].pc = "idle"
    <2>1. ~Ahead(k) /\ ~Ahead(k)'
        BY <1>2, <1>4 DEF Ahead, Server
    <2> QED BY <1>1, <1>4, <2>1 DEF Coherent
<1> QED BY <1>3, <1>4

\* The goroutine of k is at rest after the step.
LEMMA RestKeeps ==
    ASSUME NEW k \in Keys, worker'[Server(k)].pc = "idle", cache'[k] \in {NoEntry, db'[k]}
    PROVE  Coherent(k)'
<1>1. Server(k)' = Server(k)
    BY DEF Server, Index
<1>2. ~Ahead(k)'
    BY DEF Ahead, Server, Index
<1> QED BY <1>1, <1>2 DEF Coherent

\* A row that is not there is neither cached nor held.
LEMMA AbsentKeeps ==
    ASSUME NEW k \in Keys, cache'[k] = NoEntry, held'[Server(k)][k] = NoEntry,
           worker'[Server(k)].pc = "fill" => Req(Server(k))'.op # "find" \/ Req(Server(k))'.key # k
    PROVE  Coherent(k)'
<1>1. Server(k)' = Server(k)
    BY DEF Server, Index
<1> QED BY <1>1 DEF Coherent

\* Another goroutine's request is not that of the goroutine of k.
LEMMA OtherRequest ==
    ASSUME TypeOK, QueueInv, NEW v \in Workers, NEW w \in Workers \ {v}, worker[w].pc # "idle",
           NEW i \in Ids, WorkerOf(req[i]) = v,
           \A j \in Ids \ {i} : req'[j] = req[j], worker'[w] = worker[w]
    PROVE  Req(w)' = Req(w)
<1>1. Id(w) \in Ids /\ WorkerOf(req[Id(w)]) = w
    BY BusyWith DEF Req
<1> QED BY <1>1 DEF Req, Id

\* Steps of a goroutine that does not serve k.
LEMMA ElsewhereKeeps ==
    ASSUME TypeOK, QueueInv, Exists, NEW k \in Keys, NEW w \in Workers, w # Server(k),
           Coherent(k), ExecuteOptData(w), k \notin suspect'
    PROVE  Coherent(k)'
<1> DEFINE s == Server(k)
<1>0. s \in Workers \ {w}
    BY HashType DEF Server
<1>1. worker'[s] = worker[s] /\ held'[s] = held[s]
    BY <1>0 DEF ExecuteOptData, Take, TakeFind, TakeFindMany, TakeUpset, TakeField, TakeOther,
        ChangeField, Fill, Write, WriteFails, Read, ReadFails, End, Go, TypeOK
<1>2. worker[s].pc # "idle" => Req(s)' = Req(s)
    <2>1. ASSUME NEW i \in Ids, WorkerOf(req[i]) = w, \A j \in Ids \ {i} : req'[j] = req[j]
          PROVE  worker[s].pc # "idle" => Req(s)' = Req(s)
        BY <1>0, <1>1, <2>1, OtherRequest
    <2>2. CASE Take(w)
        <3>1. PICK i : i = Head(channel[w])
            OBVIOUS
        <3>2. i \in Ids /\ WorkerOf(req[i]) = w
            BY <2>2, <3>1, IdleQueue DEF Take
        <3>3. \A j \in Ids \ {i} : req'[j] = req[j]
            <4>1. CASE TakeEnds(w, i, req[i])
                BY <3>2, <4>1, EndRows DEF TakeEnds
            <4>2. CASE \E pc \in Pcs : TakeGoes(w, i, req[i], pc)
                BY <4>2 DEF TakeGoes, Go
            <4> QED BY <2>2, <3>1, <4>1, <4>2, TakeForms
        <3> QED BY <2>1, <3>2, <3>3
    <2>3. CASE ~Take(w)
        <3>1. worker[w].pc # "idle"
            BY <2>3 DEF ExecuteOptData, ChangeField, Fill, Write, WriteFails, Read, ReadFails
        <3>2. Id(w) \in Ids /\ WorkerOf(req[Id(w)]) = w
            BY <3>1, BusyWith DEF Req
        <3>3. \A j \in Ids \ {Id(w)} : req'[j] = req[j]
            <4>1. CASE \E how, row : End(w, Id(w), how, row)
                BY <3>2, <4>1, EndRows
            <4>2. CASE \E pc : Go(w, Id(w), pc)
                BY <4>2 DEF Go
            <4> QED BY <2>3, <4>1, <4>2
                DEF ExecuteOptData, ChangeField, Fill, Write, WriteFails, Read, ReadFails
        <3> QED BY <2>1, <3>2, <3>3
    <2> QED BY <2>2, <2>3
<1>3. cache'[k] \in {NoEntry, cache[k]}
    <2>1. CASE Take(w)
        <3>1. PICK i : i = Head(channel[w])
            OBVIOUS
        <3>2. req[i] \in Request /\ WorkerOf(req[i]) = w
            BY <2>1, <3>1, IdleQueue DEF Take
        <3>3. req[i].op = "upset" => req[i].key # k /\ req[i].key \in Keys
            BY <1>0, <3>2, WorkerOfType, RequestFacts DEF Server, NeedRow
        <3> QED BY <2>1, <3>1, <3>3, TakeForms, InsertedOne DEF TakeEnds, TakeGoes
    <2>2. CASE ChangeField(w)
        <3>1. Req(w).key # k /\ Req(w).key \in Keys
            BY <1>0, <2>2, BusyWith, WorkerOfType, RequestFacts DEF ChangeField, Does, Server, NeedRow
        <3> QED BY <2>2, <3>1, InsertedOne DEF ChangeField, TypeOK
    <2>3. CASE Fill(w)
        <3> DEFINE K == {j \in Keys : held[w][j] # NoEntry}
        <3>1. Inserted(K, held[w]) /\ k \notin K
            BY <1>0, <2>3 DEF Fill, Server
        <3> QED BY <3>1, InsertedFacts
    <2>4. CASE UNCHANGED cache
        BY <2>4
    <2> QED BY <2>1, <2>2, <2>3, <2>4 DEF ExecuteOptData, Write, WriteFails, Read, ReadFails
\* Elsewhere only the login writes the row, when there is none.
<1>4. CASE Write(w)
    <2> DEFINE r == Req(w)
    <2>1. r \in Request /\ WorkerOf(r) = w /\ Does("write", r)
        BY <1>4, BusyWith DEF Write
    <2>2. CASE r.key = k
        <3>1. r.op = "create"
            BY <1>0, <2>1, <2>2, RequestFacts, WorkerOfType DEF Server
        <3>2. Stored(db[k], r) = DoFindOneAndUpset(db[k], r)
            BY <3>1 DEF Stored, Fields
        <3>3. db'[k] = DoFindOneAndUpset(db[k], r)
            BY <1>4, <2>2, <3>2 DEF Write, TypeOK
        <3>4. CASE db[k] # Empty
            <4>1. db'[k] = db[k]
                BY <3>1, <3>3, <3>4 DEF DoFindOneAndUpset
            <4> QED BY <1>1, <1>2, <1>3, <4>1, ForgetKeeps
        <3>5. CASE db[k] = Empty
            <4>1. cache'[k] = NoEntry /\ held'[s][k] = NoEntry
                BY <1>0, <1>1, <1>3, <3>5 DEF Exists
            <4>2. worker[s].pc # "idle" => Id(s) \in Ids
                BY <1>0, BusyWith
            <4>3. worker[s].pc = "fill" => Req(s).op # "find" \/ Req(s).key # k
                BY <3>5, <4>2 DEF Exists, Req, NeedRow
            <4> QED BY <1>1, <1>2, <4>1, <4>3, AbsentKeeps
        <3> QED BY <3>4, <3>5
    <2>3. CASE r.key # k
        <3>1. db'[k] = db[k]
            BY <1>4, <2>3 DEF Write, TypeOK
        <3> QED BY <1>1, <1>2, <1>3, <3>1, ForgetKeeps
    <2> QED BY <2>2, <2>3
<1>5. CASE UNCHANGED db
    BY <1>1, <1>2, <1>3, <1>5, ForgetKeeps
<1> QED BY <1>4, <1>5 DEF ExecuteOptData, Take, ChangeField, Fill, WriteFails, Read, ReadFails

\* Steps of the goroutine that serves k.
LEMMA TakeCoherent ==
    ASSUME TypeOK, QueueInv, Exists, NEW k \in Keys, Coherent(k), Take(Server(k))
    PROVE  Coherent(k)'
<1> DEFINE w == Server(k)
<1>0. w \in Workers
    BY HashType DEF Server
<1>1. PICK i : i = Head(channel[w])
    OBVIOUS
<1>2. PICK r : r = req[i]
    OBVIOUS
<1>3. i \in Ids /\ r \in Request
    BY <1>0, <1>1, <1>2, IdleQueue DEF Take
<1>4. db' = db /\ worker[w].pc = "idle" /\ cache[k] \in {NoEntry, db[k]}
    BY DEF Take, Coherent, Ahead, Server
<1>5. CASE TakeEnds(w, i, r)
    BY <1>0, <1>3, <1>4, <1>5, EndRows, RestKeeps DEF TakeEnds, Idle
<1>6. ASSUME NEW pc \in Pcs, TakeGoes(w, i, r, pc) PROVE Coherent(k)'
    <2>1. worker'[w] = [pc |-> pc, id |-> i] /\ req' = req /\ Req(w)' = r
        BY <1>0, <1>2, <1>6 DEF TakeGoes, Go, TypeOK, Req, Id
    <2>2. Server(k)' = w /\ (Ahead(k)' <=> pc = "write" /\ r.key = k)
        BY <2>1 DEF Server, Index, Ahead
    <2>3. CASE r.op \notin {"upset"} \cup Fields /\ pc \in {"read", "write"} /\ UNCHANGED <<cache, held>>
        <3>1. CASE Ahead(k)' /\ cache[k] # NoEntry
            <4>1. Does("write", r) /\ r.key = k
                BY <1>6, <2>2, <3>1 DEF TakeGoes
            <4>2. r.op = "create"
                BY <1>3, <2>3, <4>1, RequestFacts DEF Does, NeedRow
            <4>3. db[k] # Empty
                BY <3>1 DEF Exists
            <4>4. Stored(db[k], r) = db[k]
                BY <4>2, <4>3 DEF Stored, Fields, DoFindOneAndUpset
            <4> QED BY <1>4, <2>1, <2>2, <2>3, <3>1, <4>4 DEF Coherent
        <3>2. CASE ~(Ahead(k)' /\ cache[k] # NoEntry)
            BY <1>4, <2>1, <2>2, <2>3, <3>2 DEF Coherent
        <3> QED BY <3>1, <3>2
    <2>4. CASE r.op = "upset" /\ pc = "write" /\ updateDBDataToCache(r.key, r.val) /\ UNCHANGED held
        <3>1. r.key \in Keys
            BY <1>3, <2>4, RequestFacts DEF NeedRow
        <3>2. CASE r.key = k
            <4>1. cache'[k] = r.val /\ Stored(db[k], r) = r.val
                BY <2>4, <3>2, InsertedOne DEF Stored, DoUpSet, Fields
            <4> QED BY <1>4, <2>1, <2>2, <2>4, <3>2, <4>1 DEF Coherent
        <3>3. CASE r.key # k
            <4>1. cache'[k] \in {NoEntry, cache[k]}
                BY <2>4, <3>1, <3>3, InsertedOne
            <4> QED BY <1>4, <2>1, <2>2, <2>4, <3>3, <4>1 DEF Coherent
        <3> QED BY <3>2, <3>3
    <2>5. CASE /\ r.op \in Fields /\ pc = "field" /\ UNCHANGED cache
               /\ held' = [held EXCEPT ![w][r.key] = cache[r.key]]
        <3>1. r.key = k => held'[w][k] = cache[k]
            BY <1>0, <2>5 DEF TypeOK
        <3> QED BY <1>4, <2>1, <2>2, <2>5, <3>1 DEF Coherent
    <2> QED BY <1>6, <2>3, <2>4, <2>5 DEF TakeGoes
<1> QED BY <1>0, <1>1, <1>2, <1>5, <1>6, TakeForms

LEMMA ChangeFieldCoherent ==
    ASSUME CacheCompress, TypeOK, QueueInv, Exists, NEW k \in Keys, Coherent(k),
           ChangeField(Server(k))
    PROVE  Coherent(k)'
<1> DEFINE w == Server(k)
           r == Req(w)
<1>0. w \in Workers
    BY HashType DEF Server
<1>1. worker[w].pc = "field" /\ r \in Request /\ r.op \in Fields /\ r.key \in Keys
    BY <1>0, BusyWith, RequestFacts DEF ChangeField, Does, NeedRow
<1>2. /\ worker'[w] = [pc |-> "write", id |-> Id(w)] /\ Req(w)' = r
      /\ db' = db /\ Server(k)' = w /\ (Ahead(k)' <=> r.key = k)
    BY <1>0 DEF ChangeField, Go, TypeOK, Req, Id, Server, Index, Ahead
<1>3. CASE r.key # k
    <2>1. cache[k] \in {NoEntry, db[k]}
        BY <1>1 DEF Coherent, Ahead, Server
    <2>2. cache'[k] \in {NoEntry, cache[k]}
        BY <1>1, <1>3, InsertedOne DEF ChangeField, TypeOK
    <2> QED BY <1>2, <1>3, <2>1, <2>2 DEF Coherent
<1>4. CASE r.key = k
    <2>1. held[w][k] \in {NoEntry, db[k]} /\ cache[k] \in {NoEntry, held[w][k]}
        BY <1>1, <1>4 DEF Coherent
    <2>2. CASE held[w][k] = NoEntry
        BY <1>2, <1>4, <2>1, <2>2 DEF ChangeField, Coherent
    <2>3. CASE held[w][k] # NoEntry
        <3>1. held[w][k] = db[k] /\ db[k] # Empty /\ db[k] \in Rows
            BY <1>0, <2>1, <2>3 DEF Exists, TypeOK
        <3> DEFINE entry == findUpdateField(held[w][k], r)
        <3>2. entry = NoEntry \/ entry = Stored(db[k], r)
            <4>1. CASE db[k] = NoField
                BY <3>1, <4>1, DBAssumption DEF findUpdateField, Entries
            <4>2. CASE db[k] # NoField
                <5>1. db[k] \notin {NoEntry, Garbled, NoField}
                    BY <3>1, <4>2, DBAssumption DEF Entries
                <5>2. entry = DoUpdateField(db[k], r)
                    BY <3>1, <5>1 DEF findUpdateField
                <5> QED BY <1>1, <5>2 DEF Stored, Fields
            <4> QED BY <4>1, <4>2
        <3>3. cache'[k] = entry
            <4>1. CASE entry = NoEntry
                BY <1>1, <1>4, <2>3, <4>1 DEF ChangeField, TypeOK
            <4>2. CASE entry # NoEntry
                <5>1. updateDBDataToCache(k, entry)
                    BY <1>4, <2>3, <4>2 DEF ChangeField
                <5> HIDE DEF entry
                <5> QED BY <5>1, InsertedOne
            <4> QED BY <4>1, <4>2
        <3> HIDE DEF entry
        <3> QED BY <1>2, <1>4, <3>2, <3>3 DEF Coherent
    <2> QED BY <2>2, <2>3
<1> QED BY <1>3, <1>4

LEMMA WorkCoherent ==
    ASSUME TypeOK, QueueInv, Exists, NEW k \in Keys, Coherent(k), k \notin suspect',
           LET w == Server(k) IN Write(w) \/ WriteFails(w) \/ Read(w) \/ ReadFails(w) \/ Fill(w)
    PROVE  Coherent(k)'
<1> DEFINE w == Server(k)
           r == Req(w)
<1>0. w \in Workers /\ worker[w].pc # "idle"
    BY HashType DEF Server, Write, WriteFails, Read, ReadFails, Fill
<1>1. /\ Id(w) \in Ids /\ r \in Request
      /\ ~Ahead(k) => cache[k] \in {NoEntry, db[k]}
    BY <1>0, BusyWith DEF Coherent
<1>2. CASE Write(w)
    <2>1. worker'[w].pc = "idle" /\ cache' = cache
        BY <1>0, <1>1, <1>2, EndRows DEF Write, Idle
    <2>2. CASE r.key = k
        <3>1. Ahead(k) /\ db'[k] = Stored(db[k], r)
            BY <1>2, <2>2 DEF Write, Ahead, Server, TypeOK
        <3> QED BY <2>1, <3>1, RestKeeps DEF Coherent
    <2>3. CASE r.key # k
        <3>1. ~Ahead(k) /\ db'[k] = db[k]
            BY <1>2, <2>3 DEF Write, Ahead, Server, TypeOK
        <3> QED BY <1>1, <2>1, <3>1, RestKeeps
    <2> QED BY <2>2, <2>3
<1>3. CASE WriteFails(w)
    <2>1. worker'[w].pc = "idle" /\ cache' = cache /\ db' = db
        BY <1>0, <1>1, <1>3, EndRows DEF WriteFails, Idle
    <2>2. r.key # k
        BY <1>3 DEF WriteFails
    <2>3. ~Ahead(k)
        BY <2>2 DEF Ahead, Server
    <2> QED BY <1>1, <2>1, <2>3, RestKeeps
<1>4. CASE ReadFails(w) \/ (Read(w) /\ r.op \in Reads)
    <2>1. \E how, row : End(w, Id(w), how, row)
        BY <1>4 DEF Read, ReadFails
    <2>2. worker'[w].pc = "idle" /\ cache' = cache /\ db' = db
        BY <1>0, <1>1, <1>4, <2>1, EndRows DEF Read, ReadFails, Idle
    <2>3. ~Ahead(k)
        BY <1>4 DEF Read, ReadFails, Ahead, Server
    <2> QED BY <1>1, <2>2, <2>3, RestKeeps
<1>5. CASE Read(w) /\ r.op \notin Reads
    <2> DEFINE got == [j \in Keys |-> IF Missed(w, j) THEN db[j] ELSE NoEntry]
    <2>1. worker'[w] = [pc |-> "fill", id |-> Id(w)] /\ held' = [held EXCEPT ![w] = got]
        BY <1>0, <1>5 DEF Read, Go, TypeOK
    <2>2. got[k] \in {NoEntry, db[k]} /\ (r.op = "find" /\ r.key = k => got[k] = db[k])
        BY DEF Missed
    <2> HIDE DEF got
    <2>3. held'[w][k] = got[k] /\ Req(w)' = r
        BY <1>0, <1>5, <2>1 DEF Read, Go, Req, Id, TypeOK
    <2>4. cache' = cache /\ db' = db /\ ~Ahead(k) /\ ~Ahead(k)' /\ Server(k)' = w
        BY <1>5, <2>1 DEF Read, Ahead, Server, Index
    <2> QED BY <1>1, <2>1, <2>2, <2>3, <2>4 DEF Coherent
<1>6. CASE Fill(w)
    <2> DEFINE K == {j \in Keys : held[w][j] # NoEntry}
    <2>1. \E how, row : End(w, Id(w), how, row)
        BY <1>6 DEF Fill
    <2>2. worker'[w].pc = "idle" /\ db' = db
        BY <1>0, <1>1, <1>6, <2>1, EndRows DEF Fill, Idle
    <2>3. ~Ahead(k) /\ held[w][k] \in {NoEntry, db[k]}
        BY <1>6 DEF Fill, Ahead, Server, Coherent
    <2>4. Inserted(K, held[w])
        BY <1>6 DEF Fill
    <2>5. cache'[k] \in {NoEntry, cache[k], held[w][k]}
        BY <2>4, InsertedFacts
    <2> QED BY <1>1, <2>2, <2>3, <2>5, RestKeeps
<1> QED BY <1>2, <1>3, <1>4, <1>5, <1>6

LEMMA StepCoherent ==
    CacheCompress /\ TypeOK /\ QueueInv /\ Exists /\ AllCoherent /\ [Next]_vars => AllCoherent'
<1> SUFFICES ASSUME CacheCompress, TypeOK, QueueInv, Exists, AllCoherent, [Next]_vars,
                    NEW k \in Keys, k \notin suspect'
             PROVE  Coherent(k)'
    BY DEF AllCoherent
<1> DEFINE s == Server(k)
<1>0. s \in Workers
    BY HashType DEF Server
<1>1. CASE Restart
    BY <1>0, <1>1, RestKeeps DEF Restart, Nothing, Idle
<1>2. CASE ~Restart
    <2>0. k \notin suspect /\ Coherent(k)
        BY <1>2 DEF AllCoherent, Next, RPC_DBRequest, RPC_RedisRequest, Receive, ExecuteOptData,
            Take, ChangeField, Fill, Write, WriteFails, Read, ReadFails, OtherNodeWrites, vars
    <2>1. ASSUME NEW i \in Ids, NEW r \in Requests, RPC_DBRequest(i, r) \/ RPC_RedisRequest(i, r)
          PROVE  Coherent(k)'
        <3>1. Receive(i, r)
            BY <2>1 DEF RPC_DBRequest, RPC_RedisRequest
        <3>2. worker[s].pc # "idle" => Req(s)' = Req(s)
            <4> SUFFICES ASSUME worker[s].pc # "idle" PROVE Req(s)' = Req(s)
                OBVIOUS
            <4>1. Id(s) \in Ids /\ req[Id(s)] # NoReq
                BY <1>0, BusyWith, RequestFacts DEF Req
            <4>2. Id(s) # i
                BY <3>1, <4>1 DEF Receive, QueueInv
            <4> QED BY <3>1, <4>1, <4>2 DEF Receive, Accept, Req, Id, TypeOK
        <3> QED BY <2>0, <3>1, <3>2, ForgetKeeps DEF Receive
    <2>2. ASSUME NEW w \in Workers, ExecuteOptData(w) PROVE Coherent(k)'
        BY <1>0, <2>0, <2>2, ElsewhereKeeps, TakeCoherent, ChangeFieldCoherent, WorkCoherent
            DEF ExecuteOptData
    <2>3. ASSUME NEW j \in Keys, NEW v \in Vals, OtherNodeWrites(j, v) PROVE Coherent(k)'
        <3>1. db'[k] = db[k] /\ UNCHANGED <<cache, worker, held, req>>
            BY <2>3 DEF OtherNodeWrites, TypeOK
        <3> QED BY <2>0, <3>1, ForgetKeeps DEF Req, Id
    <2>4. CASE UNCHANGED vars
        BY <2>0, <2>4, ForgetKeeps DEF vars, Req, Id
    <2> QED BY <1>2, <2>1, <2>2, <2>3, <2>4 DEF Next
<1> QED BY <1>1, <1>2

LEMMA InitCoherent == Init => Exists /\ AllCoherent
<1> SUFFICES ASSUME Init PROVE Exists /\ AllCoherent
    OBVIOUS
<1>1. Exists
    BY DEF Init, Exists, Nothing, NoReq, NeedRow, Fields
<1>2. \A k \in Keys : worker[Server(k)].pc = "idle" /\ cache[k] = NoEntry
    BY HashType DEF Init, Nothing, Idle, Server
<1> QED BY <1>1, <1>2 DEF AllCoherent, Coherent

LEMMA Cached == CacheCompress /\ Spec => [](TypeOK /\ QueueInv /\ Exists /\ AllCoherent)
<1> SUFFICES ASSUME CacheCompress PROVE Spec => [](TypeOK /\ QueueInv /\ Exists /\ AllCoherent)
    OBVIOUS
<1> QED BY InitTyped, InitCoherent, StepKeeps, StepExists, StepCoherent, PTL DEF Spec

\* What the cache shows of a row is what the database has, as long as the
\* row is not suspect and its goroutine is not about to write it, whatever
\* the other goroutines fill in, evict, create or fail to do meanwhile.  The
\* cache holds compressed rows, as the configuration says: uncompressed, an
\* entry without the field to change would be spoilt.
THEOREM CacheIsCoherent == CacheCompress /\ Spec => []CacheCoherent
<1>1. AllCoherent => CacheCoherent
    BY DEF AllCoherent, Coherent, CacheCoherent
<1> QED BY <1>1, Cached, PTL

----------------------------------------------------------------------------
(* The node is a RowService for each of its rows.                           *)

LEMMA AboutFacts ==
    ASSUME TypeOK, QueueInv, NEW k \in Keys, NEW i \in Ids, IsAbout(req[i], k)
    PROVE  /\ req[i] \in Request /\ WorkerOf(req[i]) = Server(k)
           /\ i \in Waiting(Server(k)) \cup Busy(Server(k))
           /\ About(k)[i] = Plain(req[i]) /\ About(k)[i] # NoReq
           /\ About(k)[i].op = req[i].op /\ (req[i].op # "find" => About(k)[i].val = req[i].val)
<1>1. req[i] \in Request /\ req[i].op \in NeedRow /\ req[i].key = k
    BY DEF IsAbout, TypeOK, NeedRow
<1>2. WorkerOf(req[i]) = Server(k) /\ Server(k) \in Workers
    BY <1>1, WorkerOfType, HashType DEF Server
<1>3. i \in Waiting(Server(k)) \cup Busy(Server(k))
    BY <1>2 DEF QueueInv, IsAbout
<1>4. About(k)[i] = Plain(req[i])
    BY DEF About
<1>5. Plain(req[i]).op = req[i].op /\ (req[i].op # "find" => Plain(req[i]).val = req[i].val)
    BY DEF Plain
<1>6. req[i].op # NoReq.op
    BY DEF IsAbout, NoReq, Fields
<1> QED BY <1>1, <1>2, <1>3, <1>4, <1>5, <1>6

LEMMA AboutSame ==
    ASSUME NEW k \in Keys,
           \A i \in Ids : req'[i] = req[i] \/ (~IsAbout(req[i], k) /\ ~IsAbout(req'[i], k))
    PROVE  About(k)' = About(k)
BY DEF About

LEMMA IsElsewhere ==
    ASSUME NEW k \in Keys, db'[k] = db[k], About(k)' = About(k), k \in suspect' <=> k \in suspect
    PROVE  Row(k)!Next
<1>1. (k \in suspect)' = (k \in suspect)
    OBVIOUS
<1> QED BY <1>1 DEF Row!Next, Row!Elsewhere

LEMMA IsDisturb ==
    ASSUME TypeOK', NEW k \in Keys, About(k)' = About(k), k \in suspect'
    PROVE  Row(k)!Next
<1>1. db'[k] \in Rows
    BY DEF TypeOK
<1> QED BY <1>1 DEF Row!Next, Row!Disturb

\* The requests about k end in the order in which they came in.
LEMMA IsFinish ==
    ASSUME TypeOK, QueueInv, NEW k \in Keys, NEW i \in Ids, IsAbout(req[i], k),
           NEW how, NEW row, End(Server(k), i, how, row),
           \A j \in Waiting(Server(k)) \cup Busy(Server(k)) : j = i \/ i < j
    PROVE  Row(k)!Finish(i) /\ answer'.how = how /\ answer'.row = row
<1>0. Server(k) \in Workers
    BY HashType DEF Server
<1>1. About(k)[i] # NoReq
    BY AboutFacts
<1>2. \A j \in Ids : About(k)[j] # NoReq => i <= j
    <2> SUFFICES ASSUME NEW j \in Ids, About(k)[j] # NoReq PROVE i <= j
        OBVIOUS
    <2>1. IsAbout(req[j], k)
        BY DEF About
    <2>2. j = i \/ i < j
        BY <2>1, AboutFacts
    <2> QED BY <2>2 DEF Ids
<1>3. About(k)' = [About(k) EXCEPT ![i] = NoReq]
    <2>1. ~IsAbout(NoReq, k)
        BY DEF IsAbout
    <2> QED BY <1>0, <2>1, EndRows DEF About
<1>4. answer'.how = how /\ answer'.row = row
    BY DEF End
<1> QED BY <1>1, <1>2, <1>3, <1>4 DEF Row!Finish, Row!Waits

\* The end of a request about something else.
LEMMA IsOther ==
    ASSUME TypeOK, NEW k \in Keys, NEW w \in Workers, NEW i \in Ids, ~IsAbout(req[i], k),
           NEW how, NEW row, End(w, i, how, row)
    PROVE  About(k)' = About(k)
<1>1. ~IsAbout(NoReq, k)
    BY DEF IsAbout
<1> QED BY <1>1, EndRows, AboutSame

LEMMA ReceiveRefines ==
    ASSUME TypeOK, QueueInv, NEW k \in Keys, NEW i \in Ids, NEW r \in Requests,
           RPC_DBRequest(i, r) \/ RPC_RedisRequest(i, r)
    PROVE  Row(k)!Next
<1>0. r \in Request
    BY RequestsAssumption
<1>1. /\ Receive(i, r) /\ status[i] = "unsent" /\ req[i] = NoReq
      /\ db' = db /\ suspect' = suspect
    BY DEF RPC_DBRequest, RPC_RedisRequest, Receive, QueueInv, TypeOK
<1>2. ~IsAbout(NoReq, k)
    BY DEF IsAbout
<1>3. CASE req' = [req EXCEPT ![i] = r] /\ UNCHANGED answer /\ IsAbout(r, k)
    <2>1. db[k] # Empty
        BY <1>3 DEF IsAbout, RPC_DBRequest, RPC_RedisRequest, Fields
    <2>2. \A j \in Ids : About(k)[j] # NoReq => j < i
        <3> SUFFICES ASSUME NEW j \in Ids, About(k)[j] # NoReq PROVE j < i
            OBVIOUS
        <3>1. req[j] # NoReq /\ status[j] = "queued"
            BY <1>2 DEF About, QueueInv
        <3>2. j # i /\ ~(i < j)
            BY <1>1, <3>1 DEF QueueInv
        <3> QED BY <3>2 DEF Ids
    <2>3. About(k)' = [About(k) EXCEPT ![i] = Plain(r)]
        BY <1>3 DEF About, TypeOK
    <2>4. Row(k)!Submit(i, Plain(r))
        BY <1>1, <1>3, <2>1, <2>2, <2>3 DEF Row!Submit, Row!Waits
    <2>5. CASE r.op = "find"
        <3>1. Plain(r) = [op |-> "find"]
            BY <2>5 DEF Plain
        <3> QED BY <2>4, <3>1 DEF Row!Next
    <2>6. CASE r.op # "find"
        <3>1. r.op \in {"upset", "set", "inc"} /\ r.val \in Vals
            BY <1>0, <1>3, <2>6, RequestFacts DEF IsAbout, Fields
        <3>2. Plain(r) = [op |-> r.op, val |-> r.val]
            BY <2>6 DEF Plain
        <3> QED BY <2>4, <3>1, <3>2 DEF Row!Next, Row!Changes
    <2> QED BY <2>5, <2>6
<1>4. CASE req' = [req EXCEPT ![i] = r] /\ ~IsAbout(r, k)
    <2>1. About(k)' = About(k)
        BY <1>1, <1>2, <1>4, AboutSame DEF TypeOK
    <2> QED BY <1>1, <2>1, IsElsewhere
<1>5. CASE UNCHANGED req
    <2>1. About(k)' = About(k)
        BY <1>5, AboutSame
    <2> QED BY <1>1, <2>1, IsElsewhere
<1> QED BY <1>1, <1>3, <1>4, <1>5 DEF Receive, Accept

LEMMA TakeRefines ==
    ASSUME TypeOK, QueueInv, AllCoherent, NEW k \in Keys, NEW w \in Workers, Take(w)
    PROVE  Row(k)!Next
<1>0. PICK i : i = Head(channel[w])
    OBVIOUS
<1>1. PICK r : r = req[i]
    OBVIOUS
<1>2. /\ i \in Ids /\ r \in Request /\ WorkerOf(r) = w /\ worker[w].pc = "idle"
      /\ db' = db /\ suspect' = suspect
      /\ \A j \in Waiting(w) \cup Busy(w) : j = i \/ i < j
    BY <1>0, <1>1, IdleQueue DEF Take
<1>3. CASE \E pc \in Pcs : TakeGoes(w, i, r, pc)
    <2>1. About(k)' = About(k)
        BY <1>3, AboutSame DEF TakeGoes, Go
    <2> QED BY <1>2, <2>1, IsElsewhere
<1>4. CASE TakeEnds(w, i, r)
    <2>1. PICK how \in Hows, row \in Entries \cup {NoEntry} :
            End(w, i, how, row) /\ (r.op = "find" => how = "ok" /\ row = cache[r.key] /\ row # NoEntry)
        BY <1>4 DEF TakeEnds
    <2>2. CASE ~IsAbout(r, k)
        BY <1>1, <1>2, <2>1, <2>2, IsOther, IsElsewhere
    <2>3. CASE IsAbout(r, k)
        <3>1. w = Server(k) /\ r.op = "find" /\ r.key = k
            BY <1>1, <1>2, <1>4, <2>3, AboutFacts DEF IsAbout, TakeEnds
        <3>2. Row(k)!Finish(i) /\ answer'.how = "ok" /\ answer'.row = cache[k]
            BY <1>1, <1>2, <2>1, <2>3, <3>1, IsFinish
        <3>3. k \in suspect \/ cache[k] = db[k]
            BY <1>2, <2>1, <3>1 DEF AllCoherent, Coherent, Ahead, Server
        <3>4. About(k)[i].op = "find"
            BY <1>1, <1>2, <2>3, <3>1, AboutFacts
        <3>5. Row(k)!Find(i)
            BY <1>2, <3>2, <3>3, <3>4 DEF Row!Find
        <3> QED BY <1>2, <3>5 DEF Row!Next
    <2> QED BY <2>2, <2>3
<1> QED BY <1>0, <1>1, <1>3, <1>4, TakeForms

LEMMA WriteRefines ==
    ASSUME TypeOK, QueueInv, TypeOK', NEW k \in Keys, NEW w \in Workers, Write(w) \/ WriteFails(w)
    PROVE  Row(k)!Next
<1> DEFINE r == Req(w)
           i == Id(w)
<1>1. /\ worker[w].pc = "write" /\ i \in Ids /\ r \in Request /\ r = req[i] /\ WorkerOf(r) = w
      /\ Does("write", r) /\ \A j \in Waiting(w) \cup Busy(w) : j = i \/ i < j
    BY BusyWith, BusyQueue DEF Write, WriteFails, Req
<1>2. PICK how : End(w, i, how, NoEntry) /\ (WriteFails(w) => how = "error")
    BY DEF Write, WriteFails
<1>3. r.key # k => db'[k] = db[k]
    BY DEF Write, WriteFails, TypeOK
<1> HIDE DEF i, r
<1>4. CASE ~IsAbout(r, k)
    <2>1. About(k)' = About(k)
        BY <1>1, <1>2, <1>4, IsOther
    <2>2. CASE r.key # k
        <3>1. k \in suspect' <=> k \in suspect
            BY <2>2 DEF Write, WriteFails, r
        <3> QED BY <1>3, <2>1, <2>2, <3>1, IsElsewhere
    <2>3. CASE r.key = k /\ WriteFails(w)
        <3>1. k \in suspect'
            BY <2>3 DEF WriteFails, r
        <3> QED BY <2>1, <3>1, IsDisturb
    <2>4. CASE r.key = k /\ Write(w)
        <3>1. r.op = "create" /\ r.val \in Vals
            BY <1>1, <1>4, <2>4, RequestFacts DEF IsAbout, Does, NeedRow
        <3>2. db'[k] = DoFindOneAndUpset(db[k], r) /\ suspect' = suspect
            BY <2>4, <3>1 DEF Write, r, Stored, Fields, TypeOK
        <3>3. CASE db[k] = Empty
            <4>1. Row(k)!Create
                BY <2>1, <3>1, <3>2, <3>3 DEF Row!Create, DoFindOneAndUpset
            <4> QED BY <4>1 DEF Row!Next
        <3>4. CASE db[k] # Empty
            BY <2>1, <3>1, <3>2, <3>4, IsElsewhere DEF DoFindOneAndUpset
        <3> QED BY <3>3, <3>4
    <2> QED BY <2>2, <2>3, <2>4
<1>5. CASE IsAbout(r, k)
    <2>1. /\ w = Server(k) /\ r.key = k /\ r.op \in {"upset", "set", "inc"}
          /\ About(k)[i].op = r.op /\ About(k)[i].val = r.val
        BY <1>1, <1>5, AboutFacts DEF IsAbout, Does, Fields
    <2>2. Row(k)!Finish(i) /\ answer'.how = how /\ answer'.row = NoEntry
        BY <1>1, <1>2, <1>5, <2>1, IsFinish
    <2>3. CASE Write(w)
        <3>1. db'[k] = Stored(db[k], r) /\ suspect' = suspect
            BY <2>1, <2>3 DEF Write, r, TypeOK
        <3>2. Stored(db[k], r) = IF r.op = "upset" THEN r.val ELSE DoUpdateField(db[k], r)
            BY <2>1 DEF Stored, DoUpSet, Fields
        <3>3. DoUpdateField(db[k], About(k)[i]) = DoUpdateField(db[k], r)
            BY <2>1 DEF DoUpdateField
        <3>4. Row(k)!Change(i)
            BY <2>1, <2>2, <3>1, <3>2, <3>3 DEF Row!Change, Row!Stored, Row!Changes
        <3> QED BY <1>1, <3>4 DEF Row!Next
    <2>4. CASE WriteFails(w)
        <3>1. k \in suspect' /\ db' = db
            BY <2>1, <2>4 DEF WriteFails, r
        <3>2. About(k)[i].op \in Row(k)!Changes
            BY <2>1 DEF Row!Changes
        <3>3. (k \in suspect)' = (About(k)[i].op \in Row(k)!Changes)
            BY <3>1, <3>2
        <3>4. Row(k)!Fail(i)
            BY <1>2, <2>2, <2>4, <3>1, <3>3 DEF Row!Fail
        <3> QED BY <1>1, <3>4 DEF Row!Next
    <2> QED BY <2>3, <2>4
<1> QED BY <1>4, <1>5

LEMMA ReadRefines ==
    ASSUME TypeOK, QueueInv, NEW k \in Keys, NEW w \in Workers, Read(w) \/ ReadFails(w)
    PROVE  Row(k)!Next
<1> DEFINE r == Req(w)
           i == Id(w)
<1>1. /\ i \in Ids /\ r = req[i] /\ WorkerOf(r) = w
      /\ \A j \in Waiting(w) \cup Busy(w) : j = i \/ i < j
      /\ db' = db /\ suspect' = suspect
    BY BusyWith, BusyQueue DEF Read, ReadFails, Req
<1>2. CASE Read(w) /\ r.op \notin Reads
    <2>1. About(k)' = About(k)
        BY <1>2, AboutSame DEF Read, Go
    <2> QED BY <1>1, <2>1, IsElsewhere
<1>3. CASE ReadFails(w) \/ r.op \in Reads
    <2>1. PICK how, row : End(w, i, how, row) /\ (ReadFails(w) => how = "error")
        BY <1>3 DEF Read, ReadFails
    <2> HIDE DEF i, r
    <2>2. CASE ~IsAbout(r, k)
        BY <1>1, <2>1, <2>2, IsOther, IsElsewhere
    <2>3. CASE IsAbout(r, k)
        <3>1. ReadFails(w) /\ w = Server(k)
            BY <1>1, <1>3, <2>3, AboutFacts DEF IsAbout, Reads, Fields
        <3>2. Row(k)!Finish(i) /\ answer'.how = "error"
            BY <1>1, <2>1, <2>3, <3>1, IsFinish
        <3>3. Row(k)!Fail(i)
            BY <1>1, <3>2 DEF Row!Fail
        <3> QED BY <1>1, <3>3 DEF Row!Next
    <2> QED BY <2>2, <2>3
<1> QED BY <1>2, <1>3

LEMMA FillRefines ==
    ASSUME TypeOK, QueueInv, AllCoherent, TypeOK', NEW k \in Keys, NEW w \in Workers, Fill(w)
    PROVE  Row(k)!Next
<1> DEFINE r == Req(w)
           i == Id(w)
<1>1. /\ worker[w].pc = "fill" /\ i \in Ids /\ r = req[i] /\ WorkerOf(r) = w /\ Does("fill", r)
      /\ \A j \in Waiting(w) \cup Busy(w) : j = i \/ i < j
      /\ db' = db /\ suspect \subseteq suspect'
    BY BusyWith, BusyQueue DEF Fill, Req
<1>2. PICK row : End(w, i, "ok", row) /\ (r.op = "find" => row = held[w][r.key])
    BY DEF Fill
<1>3. CASE ~IsAbout(r, k)
    <2>1. About(k)' = About(k)
        BY <1>1, <1>2, <1>3, IsOther
    <2> QED BY <1>1, <2>1, IsElsewhere, IsDisturb
<1>4. CASE IsAbout(r, k)
    <2>1. w = Server(k) /\ r.key = k /\ r.op = "find" /\ About(k)[i].op = "find"
        BY <1>1, <1>4, AboutFacts DEF IsAbout, Does, Fields
    <2>2. Row(k)!Finish(i) /\ answer'.how = "ok" /\ answer'.row = held[w][k]
        BY <1>1, <1>2, <1>4, <2>1, IsFinish
    <2>3. k \in suspect \/ held[w][k] = db[k]
        BY <1>1, <2>1 DEF AllCoherent, Coherent
    <2>4. k \in suspect' <=> k \in suspect
        BY <2>1 DEF Fill, Server
    <2>5. (k \in suspect)' = (k \in suspect)
        BY <2>4
    <2>6. Row(k)!Find(i)
        BY <1>1, <2>1, <2>2, <2>3, <2>5 DEF Row!Find
    <2> QED BY <1>1, <2>6 DEF Row!Next
<1> QED BY <1>3, <1>4

LEMMA StepRefines ==
    ASSUME TypeOK, QueueInv, AllCoherent, TypeOK', NEW k \in Keys, Next
    PROVE  Row(k)!Next
<1>1. ASSUME NEW w \in Workers, ChangeField(w) PROVE Row(k)!Next
    <2>1. About(k)' = About(k)
        BY <1>1, AboutSame DEF ChangeField, Go
    <2> QED BY <1>1, <2>1, IsElsewhere DEF ChangeField
<1>2. ASSUME NEW j \in Keys, NEW v \in Vals, OtherNodeWrites(j, v) PROVE Row(k)!Next
    <2>1. About(k)' = About(k)
        BY <1>2, AboutSame DEF OtherNodeWrites
    <2>2. CASE j = k
        BY <1>2, <2>1, <2>2, IsDisturb DEF OtherNodeWrites
    <2>3. CASE j # k
        BY <1>2, <2>1, <2>3, IsElsewhere DEF OtherNodeWrites, TypeOK
    <2> QED BY <2>2, <2>3
<1>3. CASE Restart
    <2>1. About(k)' = Row(k)!None
        BY <1>3 DEF Restart, About, IsAbout, Row!None
    <2>2. (k \in suspect)' = FALSE
        BY <1>3 DEF Restart
    <2>3. Row(k)!Restart
        BY <1>3, <2>1, <2>2 DEF Restart, Row!Restart
    <2> QED BY <2>3 DEF Row!Next
<1>4. ASSUME NEW w \in Workers, ExecuteOptData(w) PROVE Row(k)!Next
    BY <1>1, <1>4, TakeRefines, FillRefines, WriteRefines, ReadRefines DEF ExecuteOptData
<1> QED BY <1>2, <1>3, <1>4, ReceiveRefines DEF Next

\* To a player the node is a RowService for each of its rows: its requests
\* take effect one at a time and in order, and a find shows what the ones
\* before it left, whatever cache, goroutines, panics and restarts do.
THEOREM RowServiceIsImplemented == CacheCompress /\ Spec => ImplementsRowService
<1>1. Init => \A k \in Keys : Row(k)!Init
    <2> SUFFICES ASSUME Init, NEW k \in Keys PROVE Row(k)!Init
        OBVIOUS
    <2>1. About(k) = Row(k)!None
        BY DEF Init, About, IsAbout, Row!None
    <2>2. db[k] \in Rows /\ (k \in suspect) = FALSE
        BY DBAssumption DEF Init
    <2> QED BY <2>1, <2>2 DEF Init, Row!Init
<1>2. TypeOK /\ QueueInv /\ Exists /\ AllCoherent /\ [Next]_vars =>
        [\A k \in Keys : Row(k)!Next]_vars
    <2>1. TypeOK /\ QueueInv /\ [Next]_vars => TypeOK'
        BY StepKeeps
    <2> QED BY <2>1, StepRefines
<1> QED BY <1>1, <1>2, Cached, PTL DEF Spec, ImplementsRowService

----------------------------------------------------------------------------
(* What a goroutine does to the map of a table, as the map's specification   *)
(* has it.  Lookups show the entry as it is.                                 *)

Table  == INSTANCE Cache WITH Rows <- Entries, NoRow <- NoEntry, store <- cache, ret <- NoEntry
Caches == [Keys -> Entries \cup {NoEntry}]

LEMMA LeastIn ==
    ASSUME NEW T \in SUBSET Nat, T # {}
    PROVE  \E n \in T : \A m \in T : n <= m
<1> DEFINE R == OpToRel(<, Nat)
<1>1. IsWellFoundedOn(R, Nat)
    BY NatLessThanWellFounded
<1>2. \A x, y \in Nat : x < y => <<x, y>> \in R
    BY DEF OpToRel
<1> HIDE DEF R
<1>3. PICK n \in T : \A m \in T : ~(<<m, n>> \in R)
    BY <1>1, WFMin
<1>4. \A m \in T : ~(m < n)
    BY <1>2, <1>3
<1> QED BY <1>4

\* n insertions, and what every key has after i of them.
Chain(n, K, entry, order, f) ==
    /\ order \in Bijection(1..n, K) /\ f \in [0..n -> Caches]
    /\ \A i \in 1..n : Table!Put(f[i - 1], f[i], order[i], entry[order[i]])

\* The entries of K are put in, one after the other.
Puts(s, t, K, entry) ==
    \E n \in Nat : \E order, f : Chain(n, K, entry, order, f) /\ f[0] = s /\ f[n] = t

Kept(n, K, entry, order, f) ==
    \A i \in 0..n, k \in Keys :
        \/ f[i][k] = NoEntry
        \/ f[i][k] = entry[k] /\ k \in K
        \/ f[i][k] = f[0][k] /\ \A j \in 1..i : order[j] # k

LEMMA PutsKeep ==
    ASSUME NEW n \in Nat, NEW K \in SUBSET Keys, NEW entry
    PROVE  \A order, f : Chain(n, K, entry, order, f) => Kept(n, K, entry, order, f)
<1> SUFFICES ASSUME NEW order \in Bijection(1..n, K), NEW f \in [0..n -> Caches],
                    \A i \in 1..n : Table!Put(f[i - 1], f[i], order[i], entry[order[i]])
             PROVE  Kept(n, K, entry, order, f)
    BY DEF Chain
<1> DEFINE Ok(i, k) == \/ f[i][k] = NoEntry
                       \/ f[i][k] = entry[k] /\ k \in K
                       \/ f[i][k] = f[0][k] /\ \A j \in 1..i : order[j] # k
           Bad == {i \in 0..n : \E k \in Keys : ~Ok(i, k)}
<1>1. ASSUME Bad # {} PROVE FALSE
    <2>1. PICK i \in Bad : \A j \in Bad : i <= j
        <3>1. Bad \in SUBSET Nat
            OBVIOUS
        <3> HIDE DEF Bad
        <3> QED BY <1>1, <3>1, LeastIn
    <2>2. PICK k \in Keys : ~Ok(i, k)
        BY <2>1
    <2>3. i # 0 /\ i \in 0..n
        <3>1. Ok(0, k)
            OBVIOUS
        <3> QED BY <2>1, <2>2, <3>1
    <2>4. i - 1 \in 0..n /\ i \in 1..n /\ i - 1 < i
        BY <2>3
    <2>5. Ok(i - 1, k)
        <3>1. i - 1 \notin Bad
            <4> HIDE DEF Bad
            <4> QED BY <2>1, <2>3, <2>4
        <3> QED BY <2>4, <3>1
    <2>6. /\ f[i][order[i]] = entry[order[i]]
          /\ \A j \in Keys \ {order[i]} : f[i][j] \in {f[i - 1][j], NoEntry}
        BY <2>4 DEF Table!Put
    <2>7. order[i] \in K
        BY <2>4 DEF Bijection, Injection
    <2>8. CASE k = order[i]
        BY <2>2, <2>6, <2>7, <2>8
    <2>9. CASE k # order[i]
        <3>1. f[i][k] = f[i - 1][k] \/ f[i][k] = NoEntry
            BY <2>6, <2>9
        <3>2. \A j \in 1..i : j \in 1 .. i - 1 \/ j = i
            BY <2>3
        <3> QED BY <2>2, <2>5, <2>9, <3>1, <3>2
    <2> QED BY <2>8, <2>9
<1> QED BY <1>1 DEF Kept

\* Inserted is what any number of insertions can do, no more and no less.
LEMMA InsertedIsPuts ==
    ASSUME TypeOK, NEW K \in SUBSET Keys, IsFiniteSet(K), NEW entry,
           \A k \in K : entry[k] \in Entries
    PROVE  Inserted(K, entry) <=> Puts(cache, cache', K, entry)
<1>0. cache \in Caches /\ NoEntry \notin Entries
    BY DBAssumption DEF TypeOK, Caches
<1>1. ASSUME Puts(cache, cache', K, entry) PROVE Inserted(K, entry)
    <2>9. PICK n \in Nat :
              \E order, f : Chain(n, K, entry, order, f) /\ f[0] = cache /\ f[n] = cache'
        BY <1>1 DEF Puts
    <2>0. PICK order, f : Chain(n, K, entry, order, f) /\ f[0] = cache /\ f[n] = cache'
        BY <2>9
    <2>1. /\ order \in Bijection(1..n, K) /\ f \in [0..n -> Caches]
          /\ f[0] = cache /\ f[n] = cache'
          /\ \A i \in 1..n : Table!Put(f[i - 1], f[i], order[i], entry[order[i]])
        BY <2>0 DEF Chain
    <2>2. \A k \in Keys : \/ cache'[k] = NoEntry
                          \/ cache'[k] = entry[k] /\ k \in K
                          \/ cache'[k] = cache[k] /\ \A j \in 1..n : order[j] # k
        <3>1. \A i \in 0..n, k \in Keys :
                  \/ f[i][k] = NoEntry
                  \/ f[i][k] = entry[k] /\ k \in K
                  \/ f[i][k] = f[0][k] /\ \A j \in 1..i : order[j] # k
            <4>1. Kept(n, K, entry, order, f)
                BY <2>0, PutsKeep
            <4> QED BY <4>1 DEF Kept
        <3>2. n \in 0..n
            OBVIOUS
        <3> QED BY <2>1, <3>1, <3>2
    <2>3. \A k \in K : \E j \in 1..n : order[j] = k
        BY <2>1 DEF Bijection, Surjection
    <2>4. cache' \in Caches
        BY <2>1
    <2>5. CASE n = 0
        <3>1. K = {} /\ cache' = cache
            BY <2>1, <2>3, <2>5
        <3>2. cache' = [k \in Keys |-> IF k \in {} THEN NoEntry ELSE IF k \in K THEN entry[k] ELSE cache[k]]
            BY <1>0, <3>1 DEF Caches
        <3> DEFINE gone == {}
        <3>3. gone \in SUBSET Keys /\ gone = {}
            OBVIOUS
        <3> HIDE DEF gone
        <3> QED BY <3>2, <3>3 DEF Inserted
    <2>6. CASE n # 0
        <3> DEFINE gone == {k \in Keys : cache'[k] = NoEntry}
        <3>1. n \in 1..n /\ order[n] \in K
            BY <2>1, <2>6 DEF Bijection, Injection
        <3>2. cache'[order[n]] = entry[order[n]]
            BY <2>1, <3>1 DEF Table!Put
        <3>3. ~(K \subseteq gone)
            BY <1>0, <3>1, <3>2
        <3>4. cache' = [k \in Keys |-> IF k \in gone THEN NoEntry ELSE IF k \in K THEN entry[k] ELSE cache[k]]
            BY <2>2, <2>3, <2>4 DEF Caches
        <3> HIDE DEF gone
        <3>5. gone \in SUBSET Keys
            BY DEF gone
        <3> QED BY <3>3, <3>4, <3>5 DEF Inserted
    <2> QED BY <2>5, <2>6
<1>2. ASSUME Inserted(K, entry) PROVE Puts(cache, cache', K, entry)
    <2>1. PICK gone \in SUBSET Keys :
              /\ gone = {} \/ ~(K \subseteq gone)
              /\ cache' = [k \in Keys |-> IF k \in gone THEN NoEntry
                                          ELSE IF k \in K THEN entry[k] ELSE cache[k]]
        BY <1>2 DEF Inserted
    <2>2. cache' \in Caches
        BY <1>0, <2>1 DEF Caches
    <2> DEFINE n == Cardinality(K)
    <2>3. n \in Nat /\ ExistsBijection(1..n, K)
        BY FS_CardinalityType
    <2>4. n = 0 <=> K = {}
        BY FS_EmptySet
    <2> HIDE DEF n
    <2>5. PICK g \in Bijection(1..n, K) : TRUE
        BY <2>3 DEF ExistsBijection
    <2>6. /\ g \in [1..n -> K]
          /\ \A a, b \in 1..n : g[a] = g[b] => a = b
          /\ \A k \in K : \E a \in 1..n : g[a] = k
        BY <2>5 DEF Bijection, Injection, Surjection, IsInjective
    <2>7. CASE K = {}
        <3> DEFINE f == [i \in 0..n |-> cache]
        <3>1. f \in [0..n -> Caches] /\ f[0] = cache /\ f[n] = cache' /\ 1..n = {}
            <4>1. cache' = cache
                BY <1>0, <2>1, <2>7 DEF Caches
            <4> QED BY <1>0, <2>3, <2>4, <2>7, <4>1
        <3> HIDE DEF f
        <3> QED BY <2>3, <2>5, <3>1 DEF Puts, Chain
    <2>8. CASE K # {}
        <3>1. PICK k0 \in K : k0 \notin gone
            BY <2>1, <2>8
        <3>2. PICK a0 \in 1..n : g[a0] = k0
            BY <2>6
        <3>3. n \in 1..n
            BY <2>3, <2>4, <2>8
        <3> DEFINE order == [i \in 1..n |-> IF i = n THEN k0 ELSE IF i = a0 THEN g[n] ELSE g[i]]
                   f == [i \in 0..n |-> IF i = n THEN cache'
                                        ELSE [k \in Keys |-> IF \E j \in 1..i : order[j] = k
                                                             THEN entry[k] ELSE cache[k]]]
        <3>4. /\ order \in [1..n -> K] /\ order[n] = k0
              /\ \A a, b \in 1..n : order[a] = order[b] => a = b
              /\ \A k \in K : \E a \in 1..n : order[a] = k
            <4>1. order \in [1..n -> K] /\ order[n] = k0
                BY <2>6, <3>2, <3>3
            <4>2. \A a, b \in 1..n : order[a] = order[b] => a = b
                BY <2>6, <3>2, <3>3
            <4>3. \A k \in K : \E a \in 1..n : order[a] = k
                <5> SUFFICES ASSUME NEW k \in K PROVE \E a \in 1..n : order[a] = k
                    OBVIOUS
                <5>1. PICK a \in 1..n : g[a] = k
                    BY <2>6
                <5>2. order[n] = k0 /\ (a0 # n => order[a0] = g[n]) /\ (a # n /\ a # a0 => order[a] = k)
                    BY <3>3, <5>1
                <5> QED BY <2>6, <3>2, <3>3, <5>1, <5>2
            <4> QED BY <4>1, <4>2, <4>3
        <3>5. order \in Bijection(1..n, K)
            <4> HIDE DEF order
            <4> QED BY <3>4 DEF Bijection, Injection, Surjection, IsInjective
        <3> HIDE DEF order
        <3>6. \A i \in 0..n : f[i] \in Caches
            <4> SUFFICES ASSUME NEW i \in 0..n PROVE f[i] \in Caches
                OBVIOUS
            <4>1. CASE i = n
                BY <2>2, <4>1
            <4>2. CASE i # n
                <5>1. \A j \in 1..i : order[j] \in K
                    BY <2>3, <3>4
                <5>2. f[i] = [k \in Keys |-> IF \E j \in 1..i : order[j] = k THEN entry[k] ELSE cache[k]]
                    BY <4>2
                <5>3. ASSUME NEW k \in Keys
                      PROVE  (IF \E j \in 1..i : order[j] = k THEN entry[k] ELSE cache[k])
                                 \in Entries \cup {NoEntry}
                    <6>1. cache[k] \in Entries \cup {NoEntry}
                        BY <1>0 DEF Caches
                    <6> QED BY <5>1, <6>1
                <5> HIDE DEF f
                <5> QED BY <5>2, <5>3 DEF Caches
            <4> QED BY <4>1, <4>2
        <3>7. f \in [0..n -> Caches] /\ f[0] = cache /\ f[n] = cache'
            <4>1. f[0] = cache
                <5>1. 0 \in 0..n /\ n # 0 /\ ~\E j \in 1..0 : TRUE
                    BY <2>3, <2>4, <2>8
                <5>2. f[0] = [k \in Keys |-> cache[k]]
                    BY <5>1
                <5> QED BY <1>0, <5>2 DEF Caches
            <4>2. f[n] = cache'
                BY <2>3
            <4> QED BY <3>6, <4>1, <4>2
        <3>8. ASSUME NEW i \in 1..n PROVE Table!Put(f[i - 1], f[i], order[i], entry[order[i]])
            <4>1. /\ i - 1 \in 0..n /\ i - 1 # n /\ i \in 0..n
                  /\ \A j \in 1..i : j = i \/ j \in 1 .. i - 1
                  /\ \A j \in 1 .. i - 1 : j \in 1..i /\ j \in 1..n /\ j # i
                BY <2>3
            <4>2. \A k \in Keys : f[i - 1][k] = IF \E j \in 1 .. i - 1 : order[j] = k
                                                THEN entry[k] ELSE cache[k]
                BY <4>1
            <4>3. f[i] \in Caches /\ order[i] \in K
                BY <3>4, <3>6, <4>1
            <4>4. CASE i = n
                <5>1. f[i] = cache' /\ order[i] = k0
                    BY <3>4, <4>1, <4>4
                <5>2. cache'[k0] = entry[k0]
                    BY <2>1, <3>1
                <5>3. ASSUME NEW k \in Keys, k # k0
                      PROVE  cache'[k] = f[i - 1][k] \/ cache'[k] = NoEntry
                    <6>1. CASE k \in K
                        <7>1. PICK a \in 1..n : order[a] = k
                            BY <3>4, <6>1
                        <7>2. a \in 1 .. i - 1
                            BY <3>4, <4>1, <4>4, <5>3, <7>1
                        <7>3. f[i - 1][k] = entry[k]
                            BY <4>2, <7>1, <7>2
                        <7> QED BY <2>1, <6>1, <7>3
                    <6>2. CASE k \notin K
                        <7>1. f[i - 1][k] = cache[k]
                            BY <3>4, <4>1, <4>2, <6>2
                        <7> QED BY <2>1, <6>2, <7>1
                    <6> QED BY <6>1, <6>2
                <5> HIDE DEF f
                <5> QED BY <4>3, <5>1, <5>2, <5>3 DEF Table!Put, Caches
            <4>5. CASE i # n
                <5>1. \A k \in Keys : f[i][k] = IF \E j \in 1..i : order[j] = k
                                                THEN entry[k] ELSE cache[k]
                    BY <4>1, <4>5
                <5> HIDE DEF f
                <5>2. f[i][order[i]] = entry[order[i]]
                    BY <4>3, <5>1
                <5>3. \A k \in Keys : k # order[i] => f[i][k] = f[i - 1][k]
                    BY <4>1, <4>2, <5>1
                <5> QED BY <4>3, <5>2, <5>3 DEF Table!Put, Caches
            <4> QED BY <4>4, <4>5
        <3> HIDE DEF f
        <3> QED BY <2>3, <3>5, <3>7, <3>8 DEF Puts, Chain
    <2> QED BY <2>7, <2>8
<1> QED BY <1>1, <1>2

CacheStep ==
    \/ UNCHANGED cache
    \/ Table!Init'
    \/ \E k \in Keys : Table!Remove(k)
    \/ \E K \in SUBSET Keys : \E entry \in [K -> Entries] : Puts(cache, cache', K, entry)

LEMMA InsertedStep ==
    ASSUME TypeOK, NEW K \in SUBSET Keys, IsFiniteSet(K), NEW entry,
           \A k \in K : entry[k] \in Entries, Inserted(K, entry)
    PROVE  CacheStep
<1> DEFINE e == [k \in K |-> entry[k]]
<1>1. e \in [K -> Entries] /\ \A k \in K : e[k] \in Entries
    OBVIOUS
<1>2. Inserted(K, e)
    <2>1. PICK gone \in SUBSET Keys :
              /\ gone = {} \/ ~(K \subseteq gone)
              /\ cache' = [k \in Keys |-> IF k \in gone THEN NoEntry
                                          ELSE IF k \in K THEN entry[k] ELSE cache[k]]
        BY DEF Inserted
    <2>2. cache' = [k \in Keys |-> IF k \in gone THEN NoEntry
                                   ELSE IF k \in K THEN e[k] ELSE cache[k]]
        BY <2>1
    <2> HIDE DEF e
    <2> QED BY <2>1, <2>2 DEF Inserted
<1> HIDE DEF e
<1>3. Puts(cache, cache', K, e)
    BY <1>1, <1>2, InsertedIsPuts
<1> QED BY <1>1, <1>3 DEF CacheStep

LEMMA InsertedOneStep ==
    ASSUME TypeOK, NEW k \in Keys, NEW entry \in Entries, updateDBDataToCache(k, entry)
    PROVE  CacheStep
<1> DEFINE K == {k}
           e == [j \in K |-> entry]
<1>1. Inserted(K, e) /\ \A j \in K : e[j] \in Entries
    BY DEF updateDBDataToCache
<1>2. K \in SUBSET Keys /\ IsFiniteSet(K)
    BY FS_Singleton
<1> HIDE DEF K, e
<1> QED BY <1>1, <1>2, InsertedStep

LEMMA WorkIsCacheStep ==
    ASSUME IsFiniteSet(Keys), TypeOK, QueueInv, NEW w \in Workers, ExecuteOptData(w)
    PROVE  CacheStep
<1>1. CASE Take(w)
    <2> DEFINE i == Head(channel[w])
    <2>1. req[i] \in Request
        BY <1>1, IdleQueue DEF Take
    <2>2. TakeEnds(w, i, req[i]) \/ \E pc \in Pcs : TakeGoes(w, i, req[i], pc)
        BY <1>1, TakeForms
    <2> HIDE DEF i
    <2>3. CASE UNCHANGED cache
        BY <2>3 DEF CacheStep
    <2>4. CASE req[i].op = "upset" /\ updateDBDataToCache(req[i].key, req[i].val)
        <3>1. req[i].key \in Keys /\ req[i].val \in Vals
            BY <2>1, <2>4, RequestFacts DEF NeedRow
        <3>2. req[i].val \in Entries
            BY <3>1, DBAssumption DEF Entries, Rows
        <3> QED BY <2>4, <3>1, <3>2, InsertedOneStep
    <2> QED BY <2>2, <2>3, <2>4 DEF TakeEnds, TakeGoes
<1>2. CASE ChangeField(w)
    <2> DEFINE k == Req(w).key
               entry == findUpdateField(held[w][k], Req(w))
    <2>1. Req(w) \in Request /\ Req(w).op \in Fields /\ k \in Keys
          /\ held[w][k] \in Entries \cup {NoEntry}
        BY <1>2, BusyWith, RequestFacts DEF ChangeField, Does, NeedRow, TypeOK
    <2>2. entry \in Entries \cup {NoEntry}
        BY <2>1, findUpdateFieldType
    <2>3. \/ UNCHANGED cache \/ cache' = [cache EXCEPT ![k] = NoEntry]
          \/ entry # NoEntry /\ updateDBDataToCache(k, entry)
        BY <1>2 DEF ChangeField
    <2> HIDE DEF k, entry
    <2>4. CASE cache' = [cache EXCEPT ![k] = NoEntry]
        <3>1. Table!Remove(k)
            BY <2>4 DEF Table!Remove
        <3> QED BY <2>1, <3>1 DEF CacheStep
    <2>5. CASE entry # NoEntry /\ updateDBDataToCache(k, entry)
        BY <2>1, <2>2, <2>5, InsertedOneStep
    <2> QED BY <2>3, <2>4, <2>5 DEF CacheStep
<1>3. CASE Fill(w)
    <2> DEFINE K == {k \in Keys : held[w][k] # NoEntry}
    <2>1. Inserted(K, held[w])
        BY <1>3 DEF Fill
    <2>2. K \in SUBSET Keys /\ \A k \in K : held[w][k] \in Entries
        BY DEF TypeOK
    <2> HIDE DEF K
    <2>3. IsFiniteSet(K)
        BY <2>2, FS_Subset
    <2> QED BY <2>1, <2>2, <2>3, InsertedStep
<1>4. CASE Write(w) \/ WriteFails(w) \/ Read(w) \/ ReadFails(w)
    BY <1>4 DEF Write, WriteFails, Read, ReadFails, CacheStep
<1> QED BY <1>1, <1>2, <1>3, <1>4 DEF ExecuteOptData

\* DBService takes the map of a table exactly as Cache specifies it, which is
\* what FCMap is proved to implement: it begins empty, and each step of the
\* goroutines leaves it alone, removes an entry, or puts entries in one after
\* the other (InsertedIsPuts: whatever Cache may forget then, and no more);
\* a restart empties it.
THEOREM CacheIsUsedAsSpecified ==
    ASSUME IsFiniteSet(Keys)
    PROVE  Spec => Table!Init /\ [][CacheStep]_vars
<1>1. Init => Table!Init
    BY DEF Init, Nothing, Table!Init
<1>2. TypeOK /\ QueueInv /\ [Next]_vars => [CacheStep]_vars
    <2> SUFFICES ASSUME TypeOK, QueueInv, Next PROVE CacheStep
        OBVIOUS
    <2>1. ASSUME NEW i \in Ids, NEW r \in Requests, RPC_DBRequest(i, r) \/ RPC_RedisRequest(i, r)
          PROVE  CacheStep
        BY <2>1 DEF RPC_DBRequest, RPC_RedisRequest, Receive, CacheStep
    <2>2. CASE Restart
        <3>1. (Table!Init)'
            BY <2>2 DEF Restart, Nothing, Table!Init
        <3> QED BY <3>1 DEF CacheStep
    <2>3. ASSUME NEW k \in Keys, NEW v \in Vals, OtherNodeWrites(k, v) PROVE CacheStep
        BY <2>3 DEF OtherNodeWrites, CacheStep
    <2> QED BY <2>1, <2>2, <2>3, WorkIsCacheStep DEF Next
<1> QED BY <1>1, <1>2, Queued, PTL DEF Spec
=============================================================================
