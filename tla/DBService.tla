------------------------------ MODULE DBService ------------------------------
(***************************************************************************)
(* DBService: requests wait in the channel of the goroutine their key      *)
(* selects; the goroutine works on the row cache and then on MongoDB.      *)
(*                                                                         *)
(* A row is reduced to the value of one field.  Keys are the rows of a     *)
(* table that uses the cache, requested as dbutil.go asks for: with a      *)
(* cacheId, never deleted, and only once the row exists.  PlainKeys are    *)
(* rows of the other tables.  Each map of the cache is an FCMap, taken by  *)
(* its specification Cache: it may forget rows at any insertion.  A        *)
(* goroutine is interleaved between its step on the cache and the one on   *)
(* the database; other nodes write to the same database.                   *)
(***************************************************************************)
EXTENDS Integers, Sequences, FiniteSets

CONSTANTS
    Keys, PlainKeys,
    Hash,                   \* HashString2Number: row -> Nat
    PlatHash,               \* the same of the platform id a row belongs to
    GoroutineNum, ChannelNum,
    CacheCompress,
    MaxReq,                 \* bound: requests sent to this node,
    MaxPlain,               \* bound: of those, about PlainKeys at a time
    Requests,               \* bound: the requests that are sent
    Stock,                  \* the rows there may be at the start
    Vals,                   \* values a request may set
    NoField,                \* a row that has not got the field
    Empty,                  \* no row in the table
    NoEntry,                \* no entry in the cache
    Garbled,                \* an entry that is no document
    NoData, Both            \* a request without data, one with Data and RawData

Workers == 0 .. GoroutineNum - 1
Ids     == 1 .. MaxReq
Rows    == Nat \cup {NoField, Empty}
Entries == Rows \cup {Garbled}

ASSUME DBAssumption ==
    /\ Keys \cap PlainKeys = {}
    /\ Hash \in [Keys \cup PlainKeys -> Nat] /\ PlatHash \in [Keys -> Nat]
    /\ GoroutineNum \in Nat /\ GoroutineNum > 1
    /\ ChannelNum \in Nat /\ MaxReq \in Nat /\ MaxPlain \in Nat
    /\ Stock \subseteq [Keys \cup PlainKeys -> Rows]
    /\ CacheCompress \in BOOLEAN
    /\ Vals \subseteq Nat
    /\ NoField \notin Nat /\ Empty \notin Nat /\ NoField # Empty
    /\ NoEntry \notin Entries /\ Garbled \notin Rows
    /\ NoData \notin Vals /\ Both \notin Vals /\ NoData # Both

VARIABLES
    db,         \* the tables: row -> Rows
    cache,      \* the cached table: key -> entry or NoEntry
    channel,    \* worker -> the ids waiting in channelOptData
    worker,     \* worker -> what its goroutine is doing
    noCacheKey, \* worker -> the keys its lookup did not find, see DoFindManyKey
    held,       \* worker -> key -> what it has read, or NoEntry
    req,        \* id -> the request, while it is in the node
    status,     \* id -> whether the request is unsent, queued or ended
    answer,     \* the last answer, or how a request ended without one
    suspect     \* keys whose entry may differ from the table, see below

vars == <<db, cache, channel, worker, noCacheKey, held, req, status, answer, suspect>>

NoReq == [op |-> "none"]
Answer == [how : {"ok", "error", "full", "dropped", "panic", "lost"}, row : Entries \cup {NoEntry}]

Fields  == {"set", "inc"}                   \* OptType_UpdateFieldOpt: $set, $inc
Reads   == {"read", "count"}
Updates == {"update", "updateMany"}
Adds    == {"insert", "findAndUpdate"}

Request ==
    [op : {"find", "findMany"}, key : Keys] \cup
    [op : {"upset"} \cup Fields, key : Keys, val : Vals] \cup
    [op : {"create"}, key : Keys, val : Vals] \cup
    [op : {"read", "count", "delOne", "delMany", "redis"}, key : PlainKeys] \cup
    [op : Adds, key : PlainKeys, val : Vals \cup {NoData}] \cup
    [op : Updates, key : PlainKeys, val : Vals \cup {NoData, Both}]

ASSUME RequestsAssumption == Requests \subseteq Request

\* A keyed request never goes to goroutine 0, which serves those without key.
Index(n) == (n % (GoroutineNum - 1)) + 1
\* Requests spread over the goroutines by what they do.
Mut_WorkerOf(r) == IF r.op = "find" THEN 0 ELSE Index(Hash[r.key])

WorkerOf(r) ==
    CASE r.op = "create" -> Index(PlatHash[r.key])
      [] r.op \in Reads  -> 0
      [] OTHER           -> Index(Hash[r.key])

Idle    == [pc |-> "idle", id |-> 0]
Nothing == [k \in Keys |-> NoEntry]

Init ==
    /\ db \in Stock
    /\ cache = Nothing
    /\ channel = [w \in Workers |-> <<>>]
    /\ worker = [w \in Workers |-> Idle]
    /\ noCacheKey = [w \in Workers |-> {}]
    /\ held = [w \in Workers |-> Nothing]
    /\ req = [i \in Ids |-> NoReq]
    /\ status = [i \in Ids |-> "unsent"]
    /\ answer = [how |-> "lost", row |-> NoEntry]
    /\ suspect = {}

----------------------------------------------------------------------------
(* Requests.                                                                *)

Accept(i, r) ==
    LET w == WorkerOf(r) IN
        IF Len(channel[w]) = ChannelNum
        THEN /\ status' = [status EXCEPT ![i] = "ended"]
             /\ answer' = [how |-> "full", row |-> NoEntry]
             /\ UNCHANGED <<channel, req>>
        ELSE /\ status' = [status EXCEPT ![i] = "queued"]
             /\ channel' = [channel EXCEPT ![w] = Append(@, i)]
             /\ req' = [req EXCEPT ![i] = r]
             /\ UNCHANGED answer

Receive(i, r) ==
    /\ status[i] = "unsent" /\ \A j \in Ids : j < i => status[j] # "unsent"
    /\ Accept(i, r)
    /\ UNCHANGED <<db, cache, worker, noCacheKey, held, suspect>>

PlainBound(r) ==
    r.key \in PlainKeys => Cardinality({j \in Ids : req[j] # NoReq /\ req[j].key \in PlainKeys}) < MaxPlain

\* Only the login, which creates the row, asks for a row that is not there.
RPC_DBRequest(i, r) ==
    /\ r.op # "redis" /\ PlainBound(r)
    /\ r.op \in {"find", "findMany", "upset"} \cup Fields => db[r.key] # Empty
    /\ Receive(i, r)

RPC_RedisRequest(i, r) == r.op = "redis" /\ PlainBound(r) /\ Receive(i, r)

----------------------------------------------------------------------------
(* The database: what an operation makes of a row.  An operation that       *)
(* fails leaves the row alone.                                              *)

DoUpSet(row, v) == v
\* The login of a gate brings RawData with $setOnInsert, that of HttpGateService
\* Data, which is $set.
DoFindOneAndUpset(row, r) == IF r.op = "create" /\ row # Empty THEN row ELSE r.val
DoInsert(row, v) == IF row = Empty THEN v ELSE row              \* a duplicate fails
DoUpdate(row, v) == IF row = Empty THEN Empty ELSE v
DoUpdateMany(row, v) == DoUpdate(row, v)
DoCount(row) == IF row = Empty THEN 0 ELSE 1
DoDelOne(row) == Empty
DoDelMany(row) == Empty
DoUpdateField(row, r) ==
    CASE row = Empty                   -> Empty
      [] row # Empty /\ r.op = "set"   -> r.val
      [] row = NoField /\ r.op = "inc" -> r.val
      [] OTHER                         -> row + r.val

Stored(row, r) ==
    CASE r.op = "upset"                      -> DoUpSet(row, r.val)
      [] r.op \in Fields                     -> DoUpdateField(row, r)
      [] r.op \in {"create", "findAndUpdate"} -> DoFindOneAndUpset(row, r)
      [] r.op = "insert"                     -> DoInsert(row, r.val)
      [] r.op = "update"                     -> DoUpdate(row, r.val)
      [] r.op = "updateMany"                 -> DoUpdateMany(row, r.val)
      [] r.op = "delOne"                     -> DoDelOne(row)
      [] r.op = "delMany"                    -> DoDelMany(row)

\* A request without data is passed on.
Mut_Panics(r) == FALSE

\* update and updateMany index RawData without looking at its length.
Panics(r) == r.op \in Updates /\ r.val = NoData
Rejected(r) ==
    \/ r.op \in Updates /\ r.val = Both
    \/ r.op \in Adds /\ r.val = NoData

----------------------------------------------------------------------------
(* The cache.                                                               *)

\* The entry stays when its document has not got the field.
Mut_findUpdateField(entry, r) ==
    IF entry \in {NoEntry, NoField, Garbled} THEN entry ELSE DoUpdateField(entry, r)

\* setDoc knows the fields the cached document has; the entry it cannot
\* change is dropped if it is compressed, and spoilt if it is not.
findUpdateField(entry, r) ==
    CASE entry \in {NoEntry, Garbled} -> entry
      [] entry = NoField              -> IF CacheCompress THEN NoEntry ELSE Garbled
      [] OTHER                        -> DoUpdateField(entry, r)

\* Insertions; any other entry may be the oldest one or expired.
Inserted(K, entry) ==
    \E gone \in SUBSET Keys :
        /\ gone = {} \/ ~(K \subseteq gone)
        /\ cache' = [k \in Keys |->
                        IF k \in gone THEN NoEntry ELSE IF k \in K THEN entry[k] ELSE cache[k]]

updateDBDataToCache(k, entry) == Inserted({k}, [j \in {k} |-> entry])

----------------------------------------------------------------------------
(* ExecuteOptData: a goroutine takes a request and works on it.             *)

Id(w)  == worker[w].id
Req(w) == req[Id(w)]

End(w, i, how, row) ==
    /\ status' = [status EXCEPT ![i] = "ended"]
    /\ req' = [req EXCEPT ![i] = NoReq]
    /\ answer' = [how |-> how, row |-> row]
    /\ worker' = [worker EXCEPT ![w] = Idle]
    /\ noCacheKey' = [noCacheKey EXCEPT ![w] = {}]
    /\ held' = [held EXCEPT ![w] = Nothing]

Go(w, i, pc) ==
    /\ worker' = [worker EXCEPT ![w] = [pc |-> pc, id |-> i]]
    /\ UNCHANGED <<req, status, answer>>

TakeFind(w, i, r) ==
    IF cache[r.key] # NoEntry
    THEN End(w, i, "ok", cache[r.key]) /\ UNCHANGED cache
    ELSE Go(w, i, "read") /\ UNCHANGED <<cache, noCacheKey, held>>

TakeFindMany(w, i, r) ==
    IF \A k \in Keys : cache[k] # NoEntry
    THEN End(w, i, "ok", NoEntry) /\ UNCHANGED cache
    ELSE /\ noCacheKey' = [noCacheKey EXCEPT ![w] = {k \in Keys : cache[k] = NoEntry}]
         /\ Go(w, i, "read") /\ UNCHANGED <<cache, held>>

TakeUpset(w, i, r) ==
    updateDBDataToCache(r.key, r.val) /\ Go(w, i, "write") /\ UNCHANGED <<noCacheKey, held>>

TakeField(w, i, r) ==
    /\ held' = [held EXCEPT ![w][r.key] = cache[r.key]]
    /\ Go(w, i, "field")
    /\ UNCHANGED <<cache, noCacheKey>>

\* A request to Redis has no DBControllerReq, so its type is none of those
\* the goroutine knows.
TakeOther(w, i, r) ==
    /\ CASE r.op = "redis" -> End(w, i, "dropped", NoEntry)
         [] r.op \in Reads -> Go(w, i, "read") /\ UNCHANGED <<noCacheKey, held>>
         [] Panics(r)      -> End(w, i, "panic", NoEntry)
         [] Rejected(r)    -> End(w, i, "error", NoEntry)
         [] OTHER          -> Go(w, i, "write") /\ UNCHANGED <<noCacheKey, held>>
    /\ UNCHANGED cache

Take(w) ==
    /\ worker[w].pc = "idle" /\ channel[w] # <<>>
    /\ channel' = [channel EXCEPT ![w] = Tail(@)]
    /\ LET i == Head(channel[w])
           r == req[i] IN
           CASE r.op = "find"     -> TakeFind(w, i, r)
             [] r.op = "findMany" -> TakeFindMany(w, i, r)
             [] r.op = "upset"    -> TakeUpset(w, i, r)
             [] r.op \in Fields   -> TakeField(w, i, r)
             [] OTHER             -> TakeOther(w, i, r)
    /\ UNCHANGED <<db, suspect>>

\* The changed entry goes back; the lock was released in between.
ChangeField(w) ==
    LET k == Req(w).key
        entry == findUpdateField(held[w][k], Req(w)) IN
    /\ worker[w].pc = "field"
    /\ CASE held[w][k] = NoEntry -> UNCHANGED cache
         [] held[w][k] # NoEntry /\ entry = NoEntry -> cache' = [cache EXCEPT ![k] = NoEntry]
         [] OTHER -> updateDBDataToCache(k, entry)
    /\ Go(w, Id(w), "write")
    /\ held' = [held EXCEPT ![w] = Nothing]
    /\ UNCHANGED <<db, channel, noCacheKey, suspect>>

\* The database applies a write and the answer may still be lost.
Write(w) ==
    /\ worker[w].pc = "write"
    /\ db' = [db EXCEPT ![Req(w).key] = Stored(@, Req(w))]
    /\ \E how \in {"ok", "error"} : End(w, Id(w), how, NoEntry)
    /\ UNCHANGED <<cache, channel, suspect>>

WriteFails(w) ==
    /\ worker[w].pc = "write"
    /\ End(w, Id(w), "error", NoEntry)
    /\ suspect' = suspect \cup (Keys \cap {Req(w).key})
    /\ UNCHANGED <<db, cache, channel>>

\* DoFind and DoFindManyKey ask for the rows the cache did not have when they
\* looked; many rows without one that is not in the table.
Missed(w, k) ==
    IF Req(w).op = "find" THEN k = Req(w).key ELSE k \in noCacheKey[w] /\ db[k] # Empty

Read(w) ==
    LET r == Req(w) IN
    /\ worker[w].pc = "read"
    /\ IF r.op \in Reads
       THEN End(w, Id(w), "ok", IF r.op = "count" THEN DoCount(db[r.key]) ELSE db[r.key])
       ELSE /\ held' = [held EXCEPT ![w] =
                            [k \in Keys |-> IF Missed(w, k) THEN db[k] ELSE NoEntry]]
            /\ Go(w, Id(w), "fill") /\ UNCHANGED noCacheKey
    /\ UNCHANGED <<db, cache, channel, suspect>>

ReadFails(w) ==
    /\ worker[w].pc = "read"
    /\ End(w, Id(w), "error", NoEntry)
    /\ UNCHANGED <<db, cache, channel, suspect>>

Fill(w) ==
    LET r == Req(w)
        K == {k \in Keys : held[w][k] # NoEntry} IN
    /\ worker[w].pc = "fill"
    /\ Inserted(K, held[w])
    /\ End(w, Id(w), "ok", IF r.op = "find" THEN held[w][r.key] ELSE NoEntry)
    /\ suspect' = suspect \cup {k \in K : w # Index(Hash[k])}
    /\ UNCHANGED <<db, channel>>

----------------------------------------------------------------------------
(* Around the goroutines.                                                   *)

\* The list of database nodes changed and another node serves the key for a
\* while.
OtherNodeWrites(k, v) ==
    /\ db[k] # Empty /\ k \notin suspect
    /\ db' = [db EXCEPT ![k] = v]
    /\ suspect' = suspect \cup {k}
    /\ UNCHANGED <<cache, channel, worker, noCacheKey, held, req, status, answer>>

\* The process ends and starts again: channels and cache are lost.
Restart ==
    /\ cache' = Nothing
    /\ channel' = [w \in Workers |-> <<>>]
    /\ worker' = [w \in Workers |-> Idle]
    /\ noCacheKey' = [w \in Workers |-> {}]
    /\ held' = [w \in Workers |-> Nothing]
    /\ status' = [i \in Ids |-> IF status[i] = "queued" THEN "ended" ELSE status[i]]
    /\ answer' = [how |-> "lost", row |-> NoEntry]
    /\ req' = [i \in Ids |-> NoReq]
    /\ suspect' = {}
    /\ UNCHANGED db

\* No recover: a panic ends the goroutine.
Mut_ExecuteOptData(w) ==
    \/ Take(w) /\ ~Panics(req[Head(channel[w])])
    \/ ChangeField(w) \/ Fill(w) \/ Write(w) \/ WriteFails(w) \/ Read(w) \/ ReadFails(w)

ExecuteOptData(w) ==
    \/ Take(w) \/ ChangeField(w) \/ Fill(w)
    \/ Write(w) \/ WriteFails(w)
    \/ Read(w) \/ ReadFails(w)

Next ==
    \/ \E i \in Ids, r \in Requests : RPC_DBRequest(i, r) \/ RPC_RedisRequest(i, r)
    \/ \E w \in Workers : ExecuteOptData(w)
    \/ \E k \in Keys, v \in Vals : OtherNodeWrites(k, v)
    \/ Restart

Spec == Init /\ [][Next]_vars

\* A goroutine goes on, whatever a request did to it: it recovers from a
\* panic, and every call to the database has a deadline.
FairSpec == Spec /\ \A w \in Workers : WF_vars(ExecuteOptData(w))

----------------------------------------------------------------------------
(* Properties.                                                              *)

TypeOK ==
    /\ db \in [Keys \cup PlainKeys -> Rows]
    /\ cache \in [Keys -> Entries \cup {NoEntry}]
    /\ channel \in [Workers -> Seq(Ids)]
    /\ worker \in [Workers -> {Idle} \cup [pc : {"field", "write", "read", "fill"}, id : Ids]]
    /\ noCacheKey \in [Workers -> SUBSET Keys]
    /\ held \in [Workers -> [Keys -> Entries \cup {NoEntry}]]
    /\ req \in [Ids -> Request \cup {NoReq}]
    /\ status \in [Ids -> {"unsent", "queued", "ended"}]
    /\ answer \in Answer
    /\ suspect \subseteq Keys

\* The goroutine of key k works on a write of k: the cache has it before the
\* database does.
Ahead(k) ==
    LET w == Index(Hash[k]) IN
        worker[w].pc = "write" /\ Req(w).key = k

\* What the cache has of a row is what the table has, except while a write
\* of the row is between the two, or after the write failed, another node
\* wrote it, or a goroutine that does not serve the key filled it in.
CacheCoherent ==
    \A k \in Keys \ suspect :
        cache[k] # NoEntry /\ ~Ahead(k) => cache[k] = db[k]

\* The requests in the channels are worked off, those behind one whose
\* handling panicked too: between bursts the node always comes to rest.
EveryRequestEnds == []<>(\A i \in Ids : status[i] # "queued")

\* The requests about row k in this node: ids are given in the order they
\* come in.
IsAbout(r, k) == r # NoReq /\ r.key = k /\ r.op \in {"find", "upset"} \cup Fields
Plain(r) == IF r.op = "find" THEN [op |-> r.op] ELSE [op |-> r.op, val |-> r.val]
About(k) == [i \in Ids |-> IF IsAbout(req[i], k) THEN Plain(req[i]) ELSE NoReq]

Row(k) == INSTANCE RowService WITH
    NoRow <- NoEntry, Update <- DoUpdateField, Tickets <- Ids, NoRequest <- NoReq,
    row <- db[k], pending <- About(k), unsure <- (k \in suspect), answer <- answer

\* To a player the node is a RowService for each of its rows: neither the
\* cache, nor the goroutines, nor a panic of another request shows.
ImplementsRowService ==
    (\A k \in Keys : Row(k)!Init) /\ [][\A k \in Keys : Row(k)!Next]_vars
=============================================================================
