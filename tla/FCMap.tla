-------------------------------- MODULE FCMap --------------------------------
(***************************************************************************)
(* FCMap: the row cache of DBService, a map of fixed capacity with a list  *)
(* of its entries in the order of their use.                               *)
(*                                                                         *)
(* Every method holds the map's lock from its first read to its last       *)
(* write, so it is one action.  The ring of next and prev pointers is a    *)
(* sequence of elements.  An element that leaves the list goes back to a   *)
(* pool with the value it had, and may come back for another key.  A       *)
(* capacity or expiration time of 0 turns the cache off and is excluded.   *)
(* The version of a row is stored, never read, and left out.               *)
(***************************************************************************)
EXTENDS Integers, FiniteSets, SequencesExt

CONSTANTS
    Keys, Rows,
    Elements,               \* the list elements the pool may hand out
    maxCap, expirationTime, checkIntervalSecond, intervalCheckNum,
    StartTime,              \* the clock when the map is made, in seconds
    MaxTime,                \* bound: the clock stops there
    NoRow, NoElement, NoValue

cacheData == [cacheId : Keys, lastTime : Nat, data : Rows]

ASSUME FCMapAssumption ==
    /\ maxCap \in Nat \ {0}
    /\ expirationTime \in Nat \ {0}
    /\ checkIntervalSecond \in Nat
    /\ intervalCheckNum \in Nat
    /\ StartTime \in Nat /\ MaxTime \in Nat
    /\ NoRow \notin Rows
    /\ NoElement \notin Elements

\* The pool makes an element when it has none left.
ASSUME PoolAssumption == IsFiniteSet(Elements) => Cardinality(Elements) > maxCap

VARIABLES
    mapData,        \* key -> its element
    pendingData,    \* the list, the entry used longest ago in front
    Value,          \* element -> its entry
    lastCheckTime,
    now,            \* time.Now().Unix(), which does not run backwards
    ret             \* what the last FindData returned

vars == <<mapData, pendingData, Value, lastCheckTime, now, ret>>

Has(k)    == mapData[k] # NoElement
Listed(e) == \E i \in 1..Len(pendingData) : pendingData[i] = e

Init ==
    /\ mapData = [k \in Keys |-> NoElement]
    /\ pendingData = <<>>
    /\ Value = [e \in Elements |-> NoValue]
    /\ lastCheckTime = 0
    /\ now = StartTime
    /\ ret = NoRow

----------------------------------------------------------------------------
(* The list.  An element that is not in it is left alone.                   *)

Position(e)   == CHOOSE i \in 1..Len(pendingData) : pendingData[i] = e
Without(e)    == IF Listed(e) THEN RemoveAt(pendingData, Position(e)) ELSE pendingData
MoveToBack(e) == IF Listed(e) THEN Append(Without(e), e) ELSE pendingData
PushBack(e)   == Append(pendingData, e)

----------------------------------------------------------------------------
(* The methods.                                                             *)

CheckDue == now - lastCheckTime > checkIntervalSecond
Expired(entry) == now - entry.lastTime >= expirationTime

\* BUG variant: the list may be one longer than the capacity.
Mut_Excess(list) == IF Len(list) > maxCap + 1 THEN 1 ELSE 0

\* The front element leaves when there are more than maxCap.
Excess(list) == IF Len(list) > maxCap THEN 1 ELSE 0

\* The first n elements leave: the one in excess, then, when a check is due,
\* expired ones until a fresh one or the number of a check stops it.
Leave(list, value, n) ==
    LET over == Excess(list) IN
    IF CheckDue
    THEN /\ n \in over..over + intervalCheckNum
         /\ \A i \in over + 1..n : Expired(value[list[i]])
         /\ n \notin {Len(list), over + intervalCheckNum} =>
                ~Expired(value[list[n + 1]])
    ELSE n = over

\* BUG variant: an element that leaves the list stays in the map.
Mut_Evict(list, value, map, n) ==
    pendingData' = SubSeq(list, n + 1, Len(list)) /\ mapData' = map

\* The list and the map given, less the first n elements of the list.
Evict(list, value, map, n) ==
    LET gone == {value[list[i]].cacheId : i \in 1..n} IN
    /\ pendingData' = SubSeq(list, n + 1, Len(list))
    /\ mapData' = [k \in Keys |-> IF k \in gone THEN NoElement ELSE map[k]]

UpsertData(k, row) ==
    \E e \in Elements :
        LET list  == IF Has(k) THEN MoveToBack(e) ELSE PushBack(e)
            entry == [cacheId |-> IF Has(k) THEN Value[e].cacheId ELSE k,
                      lastTime |-> now, data |-> row]
            value == [Value EXCEPT ![e] = entry]
            map   == [mapData EXCEPT ![k] = e]
        IN /\ IF Has(k) THEN e = mapData[k] ELSE ~Listed(e)
           /\ Value' = value
           /\ \E n \in 0..Len(list) :
                 Leave(list, value, n) /\ Evict(list, value, map, n)
           /\ lastCheckTime' = IF CheckDue THEN now ELSE lastCheckTime
           /\ UNCHANGED <<now, ret>>

\* BUG variants: a row found keeps its place; its whole entry is returned.
Mut_StaysFound(k) ==
    LET e == mapData[k] IN
    /\ Value' = [Value EXCEPT ![e].lastTime = now]
    /\ ret' = Value[e].data
    /\ UNCHANGED <<mapData, pendingData, lastCheckTime, now>>
Mut_ReturnsEntry(k) ==
    LET e == mapData[k] IN
    /\ Value' = [Value EXCEPT ![e].lastTime = now]
    /\ pendingData' = MoveToBack(e)
    /\ ret' = Value[e]
    /\ UNCHANGED <<mapData, lastCheckTime, now>>

Found(k) ==
    LET e == mapData[k] IN
    /\ Value' = [Value EXCEPT ![e].lastTime = now]
    /\ pendingData' = MoveToBack(e)
    /\ ret' = Value[e].data
    /\ UNCHANGED <<mapData, lastCheckTime, now>>

FindData(k) ==
    \/ Has(k) /\ Found(k)
    \/ /\ ~Has(k)
       /\ ret' = NoRow
       /\ UNCHANGED <<mapData, pendingData, Value, lastCheckTime, now>>

\* BUG variant: the element goes back to the pool, the map keeps it.
Mut_RemoveCache(k) ==
    /\ Has(k)
    /\ pendingData' = Without(mapData[k])
    /\ UNCHANGED <<mapData, Value, lastCheckTime, now, ret>>

RemoveCache(k) ==
    /\ Has(k)
    /\ mapData' = [mapData EXCEPT ![k] = NoElement]
    /\ pendingData' = Without(mapData[k])
    /\ UNCHANGED <<Value, lastCheckTime, now, ret>>

Tick ==
    /\ now < MaxTime
    /\ now' = now + 1
    /\ UNCHANGED <<mapData, pendingData, Value, lastCheckTime, ret>>

Next ==
    \/ \E k \in Keys, row \in Rows : UpsertData(k, row)
    \/ \E k \in Keys : FindData(k)
    \/ \E k \in Keys : RemoveCache(k)
    \/ Tick

Spec == Init /\ [][Next]_vars

----------------------------------------------------------------------------
(* Properties.                                                              *)

\* Every variable has its type; an element in the list has an entry; a lookup
\* returns a row and nothing else.
TypeOK ==
    /\ mapData \in [Keys -> Elements \cup {NoElement}]
    /\ pendingData \in Seq(Elements)
    /\ Value \in [Elements -> cacheData \cup {NoValue}]
    /\ \A i \in 1..Len(pendingData) : Value[pendingData[i]] \in cacheData
    /\ lastCheckTime \in Nat /\ now \in Nat
    /\ ret \in Rows \cup {NoRow}

\* The map and the list hold the same entries: an element is listed once, under
\* the key it was made for, and no key's element is in the pool
\* (FCMap.go:311-330, 377-390).
MapIsList ==
    /\ \A i \in 1..Len(pendingData) :
          mapData[Value[pendingData[i]].cacheId] = pendingData[i]
    /\ \A i, j \in 1..Len(pendingData) :
          pendingData[i] = pendingData[j] => i = j
    /\ \A k \in Keys : Has(k) =>
          \E i \in 1..Len(pendingData) :
             pendingData[i] = mapData[k] /\ Value[pendingData[i]].cacheId = k

\* The cache never holds more than maxCap rows between two calls, although each
\* insertion removes one at most (FCMap.go:324-331).
SizeBounded == Len(pendingData) <= maxCap

\* The list is in the order of last use, which removal from the front relies on
\* (FCMap.go:312-319, 369-372).
OrderedByUse ==
    /\ \A i \in 1..Len(pendingData) : Value[pendingData[i]].lastTime <= now
    /\ \A i, j \in 1..Len(pendingData) :
          i <= j => Value[pendingData[i]].lastTime <= Value[pendingData[j]].lastTime

Oldest ==
    \A k, other \in Keys :
       Has(k) /\ ~Has(k)' /\ Has(other)' /\ ~RemoveCache(k) =>
          Value[mapData[k]].lastTime <= Value'[mapData'[other]].lastTime

\* A row that leaves the cache when one is written was not used after any row
\* that stays (FCMap.go:324-350).
EvictsOldest == [][Oldest]_vars

Thorough ==
    lastCheckTime' # lastCheckTime
    /\ Cardinality({k \in Keys : Has(k) /\ ~Has(k)'}) < intervalCheckNum
    => \A k \in Keys :
          Has(k)' => now - Value'[mapData'[k]].lastTime < expirationTime

\* A check that removes fewer rows than it may leaves no expired row behind,
\* though it only looks at the front of the list (FCMap.go:334-350).
CheckIsThorough == [][Thorough]_vars

\* The row cached for key k.
Cached(k) == IF Has(k) THEN Value[mapData[k]].data ELSE NoRow

\* The map is a cache: a lookup returns the row written last or nothing, no call
\* changes another key's row but by forgetting it, and what is written is there
\* when the call returns, whatever is evicted then.
CacheSpec == INSTANCE Cache WITH store <- [k \in Keys |-> Cached(k)]
ImplementsCache == CacheSpec!Spec
=============================================================================
