---------------------------- MODULE FCMapProofs ----------------------------
(* What FCMap guarantees for every capacity, expiration and set of keys.    *)
EXTENDS FCMap, FunctionTheorems, FiniteSetTheorems, SequenceTheorems, TLAPS

----------------------------------------------------------------------------
(* A list and a map that belong together, and the two operations on them.   *)

Linked(list, value, map) ==
    /\ list \in Seq(Elements)
    /\ value \in [Elements -> cacheData \cup {NoValue}]
    /\ map \in [Keys -> Elements \cup {NoElement}]
    /\ \A i \in 1..Len(list) :
          value[list[i]] \in cacheData /\ map[value[list[i]].cacheId] = list[i]
    /\ \A i, j \in 1..Len(list) : list[i] = list[j] => i = j
    /\ \A k \in Keys : map[k] # NoElement =>
          \E i \in 1..Len(list) : list[i] = map[k] /\ value[list[i]].cacheId = k

Ordered(list, value) ==
    /\ \A i \in 1..Len(list) : value[list[i]].lastTime <= now
    /\ \A i, j \in 1..Len(list) :
          i <= j => value[list[i]].lastTime <= value[list[j]].lastTime

Inv == TypeOK /\ MapIsList /\ SizeBounded /\ OrderedByUse

LEMMA InvIsLinked ==
    (TypeOK /\ MapIsList /\ OrderedByUse) <=>
       /\ Linked(pendingData, Value, mapData)
       /\ Ordered(pendingData, Value)
       /\ lastCheckTime \in Nat /\ now \in Nat
       /\ ret \in Rows \cup {NoRow}
BY DEF TypeOK, MapIsList, OrderedByUse, Linked, Ordered, Has

\* How the actions establish the invariant.
LEMMA LinkedNext ==
    ASSUME Linked(pendingData', Value', mapData'), Ordered(pendingData', Value'),
           now' = now, now \in Nat, lastCheckTime' \in Nat, ret' \in Rows \cup {NoRow},
           Len(pendingData') <= maxCap
    PROVE  Inv'
<1>1. TypeOK'
    BY DEF TypeOK, Linked
<1>2. MapIsList'
    BY DEF MapIsList, Has, Linked
<1>3. OrderedByUse'
    BY DEF OrderedByUse, Ordered
<1>4. SizeBounded'
    BY DEF SizeBounded
<1> QED BY <1>1, <1>2, <1>3, <1>4 DEF Inv

LEMMA RemoveAtProperties ==
    ASSUME NEW S, NEW s \in Seq(S), NEW p \in 1..Len(s)
    PROVE  /\ RemoveAt(s, p) \in Seq(S)
           /\ Len(RemoveAt(s, p)) = Len(s) - 1
           /\ \A i \in 1..Len(s) - 1 :
                 RemoveAt(s, p)[i] = IF i < p THEN s[i] ELSE s[i + 1]
<1> DEFINE a == SubSeq(s, 1, p - 1)
           b == SubSeq(s, p + 1, Len(s))
<1>1. Len(s) \in Nat /\ \A i \in 1..Len(s) : s[i] \in S
    BY LenProperties, ElementOfSeq
<1>2. /\ a \in Seq(S) /\ Len(a) = p - 1
      /\ \A i \in 1..p - 1 : a[i] = s[i]
    BY <1>1, SubSeqProperties
<1>3. /\ b \in Seq(S) /\ Len(b) = Len(s) - p
      /\ \A i \in 1..Len(s) - p : b[i] = s[p + i]
    <2>1. \A i \in p + 1..Len(s) : s[i] \in S
        BY <1>1
    <2>2. /\ b \in Seq(S)
          /\ Len(b) = IF p + 1 <= Len(s) THEN Len(s) - (p + 1) + 1 ELSE 0
          /\ \A i \in 1..Len(s) - (p + 1) + 1 : b[i] = s[(p + 1) + i - 1]
        BY <1>1, <2>1, SubSeqProperties
    <2> QED BY <1>1, <2>2
<1>4. RemoveAt(s, p) = a \o b
    BY DEF RemoveAt
<1>5. /\ a \o b \in Seq(S)
      /\ Len(a \o b) = Len(a) + Len(b)
      /\ \A i \in 1..Len(a) + Len(b) :
            (a \o b)[i] = IF i <= Len(a) THEN a[i] ELSE b[i - Len(a)]
    BY <1>2, <1>3, ConcatProperties
<1> HIDE DEF a, b
<1>6. Len(RemoveAt(s, p)) = Len(s) - 1
    BY <1>1, <1>2, <1>3, <1>4, <1>5
<1>7. ASSUME NEW i \in 1..Len(s) - 1
      PROVE  RemoveAt(s, p)[i] = IF i < p THEN s[i] ELSE s[i + 1]
    <2>1. (a \o b)[i] = IF i <= p - 1 THEN a[i] ELSE b[i - (p - 1)]
        BY <1>1, <1>2, <1>3, <1>5
    <2>2. CASE i < p
        BY <2>1, <2>2, <1>1, <1>2, <1>4
    <2>3. CASE ~(i < p)
        <3>1. i - (p - 1) \in 1..Len(s) - p /\ p + (i - (p - 1)) = i + 1
            BY <2>3, <1>1
        <3>2. b[i - (p - 1)] = s[i + 1]
            BY <3>1, <1>3
        <3>3. (a \o b)[i] = b[i - (p - 1)]
            BY <2>1, <2>3
        <3> QED BY <2>3, <3>2, <3>3, <1>4
    <2> QED BY <2>2, <2>3
<1> QED BY <1>4, <1>5, <1>6, <1>7

\* Removing a key's element and its map entry.
LEMMA WithoutLinked ==
    ASSUME Linked(pendingData, Value, mapData), Ordered(pendingData, Value),
           NEW k \in Keys, Has(k)
    PROVE  LET e == mapData[k]
               p == Position(e)
               map == [mapData EXCEPT ![k] = NoElement]
           IN /\ e \in Elements /\ Value[e] \in cacheData /\ Value[e].cacheId = k
              /\ Listed(e)
              /\ Linked(Without(e), Value, map)
              /\ Ordered(Without(e), Value)
              /\ Len(Without(e)) = Len(pendingData) - 1
              /\ \A i \in 1..Len(Without(e)) : Without(e)[i] # e
<1> DEFINE e == mapData[k]
           p == Position(e)
           list == Without(e)
           map == [mapData EXCEPT ![k] = NoElement]
<1>1. /\ e \in Elements /\ Value[e] \in cacheData /\ Value[e].cacheId = k
      /\ \E i \in 1..Len(pendingData) : pendingData[i] = e
      /\ Listed(e)
    BY DEF Linked, Has, Listed
<1>2. p \in 1..Len(pendingData) /\ pendingData[p] = e
    BY <1>1 DEF Position
<1>3. pendingData \in Seq(Elements) /\ Len(pendingData) \in Nat
    BY LenProperties DEF Linked
<1>4. /\ list \in Seq(Elements) /\ Len(list) = Len(pendingData) - 1
      /\ \A i \in 1..Len(pendingData) - 1 :
            list[i] = IF i < p THEN pendingData[i] ELSE pendingData[i + 1]
    BY <1>1, <1>2, <1>3, RemoveAtProperties DEF Without
<1> DEFINE from(i) == IF i < p THEN i ELSE i + 1
<1>5. \A i \in 1..Len(list) :
          /\ from(i) \in 1..Len(pendingData) /\ from(i) # p
          /\ list[i] = pendingData[from(i)]
    BY <1>2, <1>3, <1>4
<1>6. \A i, j \in 1..Len(list) :
          /\ from(i) = from(j) => i = j
          /\ i <= j => from(i) <= from(j)
    BY <1>2, <1>3, <1>4
<1>7. \A q \in 1..Len(pendingData) : q # p =>
          \E i \in 1..Len(list) : from(i) = q
    <2> SUFFICES ASSUME NEW q \in 1..Len(pendingData), q # p
                 PROVE  \E i \in 1..Len(list) : from(i) = q
        OBVIOUS
    <2>1. CASE q < p
        BY <2>1, <1>2, <1>3, <1>4
    <2>2. CASE q > p
        <3>1. q - 1 \in 1..Len(list) /\ from(q - 1) = q
            BY <2>2, <1>2, <1>3, <1>4
        <3> QED BY <3>1
    <2> QED BY <2>1, <2>2, <1>2, <1>3
<1>8. map \in [Keys -> Elements \cup {NoElement}]
    BY DEF Linked
<1> HIDE DEF e, p, list, from
<1>9. \A i \in 1..Len(list) : list[i] # e
    BY <1>2, <1>5 DEF Linked
<1>10. Linked(list, Value, map)
    <2>1. \A i \in 1..Len(list) :
             Value[list[i]] \in cacheData /\ map[Value[list[i]].cacheId] = list[i]
        <3> SUFFICES ASSUME NEW i \in 1..Len(list)
                     PROVE  Value[list[i]] \in cacheData /\ map[Value[list[i]].cacheId] = list[i]
            OBVIOUS
        <3>1. Value[list[i]] \in cacheData /\ mapData[Value[list[i]].cacheId] = list[i]
            BY <1>5 DEF Linked
        <3>2. Value[list[i]].cacheId \in Keys /\ Value[list[i]].cacheId # k
            BY <3>1, <1>9 DEF cacheData, e
        <3> QED BY <3>1, <3>2 DEF Linked
    <2>2. \A i, j \in 1..Len(list) : list[i] = list[j] => i = j
        BY <1>5, <1>6 DEF Linked
    <2>3. ASSUME NEW l \in Keys, map[l] # NoElement
          PROVE  \E i \in 1..Len(list) : list[i] = map[l] /\ Value[list[i]].cacheId = l
        <3>1. l # k /\ map[l] = mapData[l]
            BY <2>3 DEF Linked
        <3>2. PICK q \in 1..Len(pendingData) :
                 pendingData[q] = mapData[l] /\ Value[pendingData[q]].cacheId = l
            BY <2>3, <3>1 DEF Linked
        <3>3. q # p
            BY <3>1, <3>2, <1>1, <1>2
        <3> QED BY <3>1, <3>2, <3>3, <1>5, <1>7
    <2> QED BY <1>4, <1>8, <2>1, <2>2, <2>3 DEF Linked
<1>11. Ordered(list, Value)
    BY <1>5, <1>6 DEF Ordered
<1> QED BY <1>1, <1>4, <1>9, <1>10, <1>11 DEF e, p, list

\* Appending a new entry for a key that has none.
LEMMA AppendLinked ==
    ASSUME NEW list, NEW value, NEW map, Linked(list, value, map), Ordered(list, value),
           now \in Nat,
           NEW k \in Keys, map[k] = NoElement,
           NEW e \in Elements, \A i \in 1..Len(list) : list[i] # e,
           NEW entry \in cacheData, entry.cacheId = k, entry.lastTime = now
    PROVE  LET value2 == [value EXCEPT ![e] = entry] IN
           /\ Linked(Append(list, e), value2, [map EXCEPT ![k] = e])
           /\ Ordered(Append(list, e), value2)
<1> DEFINE longer == Append(list, e)
           value2 == [value EXCEPT ![e] = entry]
           map2 == [map EXCEPT ![k] = e]
<1>1. list \in Seq(Elements) /\ Len(list) \in Nat
    BY LenProperties DEF Linked
<1>2. /\ longer \in Seq(Elements) /\ Len(longer) = Len(list) + 1
      /\ \A i \in 1..Len(list) : longer[i] = list[i]
      /\ longer[Len(list) + 1] = e
    BY <1>1, AppendProperties
<1>3. \A i \in 1..Len(list) : list[i] \in Elements
    BY <1>1, ElementOfSeq
<1>4. /\ value2 \in [Elements -> cacheData \cup {NoValue}]
      /\ map2 \in [Keys -> Elements \cup {NoElement}]
      /\ value2[e] = entry /\ map2[k] = e
      /\ \A d \in Elements : d # e => value2[d] = value[d]
      /\ \A l \in Keys : l # k => map2[l] = map[l]
    BY DEF Linked
<1> HIDE DEF longer, value2, map2
<1>5. \A i \in 1..Len(list) :
         /\ longer[i] = list[i] /\ list[i] # e
         /\ value2[longer[i]] = value[list[i]]
         /\ value[list[i]] \in cacheData
         /\ map[value[list[i]].cacheId] = list[i]
    BY <1>2, <1>3, <1>4 DEF Linked
<1>6. \A i \in 1..Len(longer) : i \in 1..Len(list) \/ i = Len(list) + 1
    BY <1>1, <1>2
<1>7. Linked(longer, value2, map2)
    <2>1. \A i \in 1..Len(longer) :
             value2[longer[i]] \in cacheData /\ map2[value2[longer[i]].cacheId] = longer[i]
        <3> SUFFICES ASSUME NEW i \in 1..Len(longer)
                     PROVE  /\ value2[longer[i]] \in cacheData
                            /\ map2[value2[longer[i]].cacheId] = longer[i]
            OBVIOUS
        <3>1. CASE i \in 1..Len(list)
            <4>1. value[list[i]].cacheId \in Keys /\ value[list[i]].cacheId # k
                <5>1. value[list[i]].cacheId \in Keys
                    BY <3>1, <1>5 DEF cacheData
                <5>2. list[i] # NoElement
                    BY <3>1, <1>3, FCMapAssumption
                <5> QED BY <3>1, <1>5, <5>1, <5>2
            <4> QED BY <3>1, <4>1, <1>4, <1>5
        <3>2. CASE i = Len(list) + 1
            BY <3>2, <1>2, <1>4
        <3> QED BY <3>1, <3>2, <1>6
    <2>2. \A i, j \in 1..Len(longer) : longer[i] = longer[j] => i = j
        BY <1>2, <1>5, <1>6 DEF Linked
    <2>3. ASSUME NEW l \in Keys, map2[l] # NoElement
          PROVE  \E i \in 1..Len(longer) : longer[i] = map2[l] /\ value2[longer[i]].cacheId = l
        <3>1. CASE l = k
            BY <3>1, <1>1, <1>2, <1>4
        <3>2. CASE l # k
            <4>1. PICK i \in 1..Len(list) : list[i] = map[l] /\ value[list[i]].cacheId = l
                BY <2>3, <3>2, <1>4 DEF Linked
            <4>2. i \in 1..Len(longer)
                BY <1>1, <1>2
            <4> QED BY <3>2, <4>1, <4>2, <1>4, <1>5
        <3> QED BY <3>1, <3>2
    <2> QED BY <1>2, <1>4, <2>1, <2>2, <2>3 DEF Linked
<1>8. Ordered(longer, value2)
    <2>1. \A i \in 1..Len(list) : value2[longer[i]].lastTime <= now
        BY <1>5 DEF Ordered
    <2>2. value2[longer[Len(list) + 1]].lastTime = now
        BY <1>2, <1>4
    <2>3. \A i, j \in 1..Len(list) :
             i <= j => value2[longer[i]].lastTime <= value2[longer[j]].lastTime
        BY <1>5 DEF Ordered
    <2>4. \A i \in 1..Len(longer) : value2[longer[i]].lastTime <= now
        BY <2>1, <2>2, <1>6
    <2>5. ASSUME NEW i \in 1..Len(longer), NEW j \in 1..Len(longer), i <= j
          PROVE  value2[longer[i]].lastTime <= value2[longer[j]].lastTime
        <3>1. CASE j = Len(list) + 1
            BY <3>1, <2>2, <2>4
        <3>2. CASE j \in 1..Len(list)
            BY <3>2, <2>3, <2>5, <1>1, <1>2
        <3> QED BY <3>1, <3>2, <1>6
    <2> QED BY <2>4, <2>5, <1>2 DEF Ordered
<1> QED BY <1>7, <1>8 DEF longer, value2, map2

\* Removing elements from the front.
LEMMA EvictLinked ==
    ASSUME NEW list, NEW value, NEW map, Linked(list, value, map), Ordered(list, value),
           NEW n \in 0..Len(list), Evict(list, value, map, n)
    PROVE  /\ Linked(pendingData', value, mapData')
           /\ Ordered(pendingData', value)
           /\ Len(pendingData') = Len(list) - n
           /\ \A i \in 1..Len(list) - n : pendingData'[i] = list[n + i]
           /\ \A k \in Keys : mapData'[k] = NoElement \/ mapData'[k] = map[k]
           /\ \A i \in n + 1..Len(list) :
                 mapData'[value[list[i]].cacheId] = list[i]
<1> DEFINE gone == {value[list[i]].cacheId : i \in 1..n}
<1>1. list \in Seq(Elements) /\ Len(list) \in Nat
    BY LenProperties DEF Linked
<1>2. \A i \in 1..Len(list) : list[i] \in Elements
    BY <1>1, ElementOfSeq
<1>3. /\ pendingData' \in Seq(Elements)
      /\ Len(pendingData') = Len(list) - n
      /\ \A i \in 1..Len(list) - n : pendingData'[i] = list[n + i]
    <2>1. \A i \in n + 1..Len(list) : list[i] \in Elements
        BY <1>1, <1>2
    <2>2. LET sub == SubSeq(list, n + 1, Len(list)) IN
          /\ sub \in Seq(Elements)
          /\ Len(sub) = IF n + 1 <= Len(list) THEN Len(list) - (n + 1) + 1 ELSE 0
          /\ \A i \in 1..Len(list) - (n + 1) + 1 : sub[i] = list[(n + 1) + i - 1]
        BY <1>1, <2>1, SubSeqProperties
    <2> QED BY <1>1, <2>2 DEF Evict
<1>4. \A k \in Keys :
         mapData'[k] = IF k \in gone THEN NoElement ELSE map[k]
    BY DEF Evict
<1>5. mapData' \in [Keys -> Elements \cup {NoElement}]
    BY DEF Evict, Linked
<1>6. \A i \in 1..Len(list) :
         /\ value[list[i]] \in cacheData /\ value[list[i]].cacheId \in Keys
         /\ map[value[list[i]].cacheId] = list[i]
    BY DEF Linked, cacheData
<1>7. \A i \in n + 1..Len(list) :
         value[list[i]].cacheId \notin gone
    <2> SUFFICES ASSUME NEW i \in n + 1..Len(list), NEW j \in 1..n,
                        value[list[i]].cacheId = value[list[j]].cacheId
                 PROVE  FALSE
        OBVIOUS
    <2>1. i \in 1..Len(list) /\ j \in 1..Len(list) /\ i # j
        BY <1>1
    <2>2. list[i] = list[j]
        BY <2>1, <1>6
    <2> QED BY <2>1, <2>2 DEF Linked
<1>8. \A i \in n + 1..Len(list) : mapData'[value[list[i]].cacheId] = list[i]
    <2> SUFFICES ASSUME NEW i \in n + 1..Len(list)
                 PROVE  mapData'[value[list[i]].cacheId] = list[i]
        OBVIOUS
    <2>1. i \in 1..Len(list)
        BY <1>1
    <2> QED BY <2>1, <1>4, <1>6, <1>7
<1> HIDE DEF gone
<1>9. \A i \in 1..Len(pendingData') :
         n + i \in n + 1..Len(list) /\ n + i \in 1..Len(list)
         /\ pendingData'[i] = list[n + i]
    BY <1>1, <1>3
<1>10. Linked(pendingData', value, mapData')
    <2>1. \A i \in 1..Len(pendingData') :
             /\ value[pendingData'[i]] \in cacheData
             /\ mapData'[value[pendingData'[i]].cacheId] = pendingData'[i]
        BY <1>6, <1>8, <1>9
    <2>2. \A i, j \in 1..Len(pendingData') :
             pendingData'[i] = pendingData'[j] => i = j
        <3> SUFFICES ASSUME NEW i \in 1..Len(pendingData'), NEW j \in 1..Len(pendingData'),
                            pendingData'[i] = pendingData'[j]
                     PROVE  i = j
            OBVIOUS
        <3>1. n + i = n + j
            BY <1>9 DEF Linked
        <3> QED BY <3>1
    <2>3. ASSUME NEW k \in Keys, mapData'[k] # NoElement
          PROVE  \E i \in 1..Len(pendingData') :
                    pendingData'[i] = mapData'[k] /\ value[pendingData'[i]].cacheId = k
        <3>1. k \notin gone /\ mapData'[k] = map[k]
            BY <2>3, <1>4
        <3>2. PICK j \in 1..Len(list) : list[j] = map[k] /\ value[list[j]].cacheId = k
            BY <2>3, <3>1 DEF Linked
        <3>3. j \notin 1..n
            BY <3>1, <3>2 DEF gone
        <3>4. j - n \in 1..Len(pendingData') /\ n + (j - n) = j
            BY <1>1, <1>3, <3>3
        <3> QED BY <3>1, <3>2, <3>4, <1>9
    <2> QED BY <1>3, <1>5, <2>1, <2>2, <2>3 DEF Linked
<1>11. Ordered(pendingData', value)
    <2>1. \A i \in 1..Len(pendingData') : value[pendingData'[i]].lastTime <= now
        BY <1>9 DEF Ordered
    <2>2. \A i, j \in 1..Len(pendingData') :
             i <= j => value[pendingData'[i]].lastTime <= value[pendingData'[j]].lastTime
        <3> SUFFICES ASSUME NEW i \in 1..Len(pendingData'), NEW j \in 1..Len(pendingData'),
                            i <= j
                     PROVE  value[pendingData'[i]].lastTime <= value[pendingData'[j]].lastTime
            OBVIOUS
        <3>1. n + i <= n + j
            OBVIOUS
        <3> QED BY <3>1, <1>9 DEF Ordered
    <2> QED BY <2>1, <2>2 DEF Ordered
<1>12. \A k \in Keys : mapData'[k] = NoElement \/ mapData'[k] = map[k]
    BY <1>4
<1> QED BY <1>3, <1>8, <1>10, <1>11, <1>12

----------------------------------------------------------------------------
(* An upsert: what the list, the entries and the map are before eviction.   *)

Chosen(k, e)      == IF Has(k) THEN e = mapData[k] ELSE ~Listed(e)
NewList(k, e)     == IF Has(k) THEN MoveToBack(e) ELSE PushBack(e)
NewEntry(k, e, row) == [cacheId |-> IF Has(k) THEN Value[e].cacheId ELSE k,
                        lastTime |-> now, data |-> row]
NewValue(k, e, row) == [Value EXCEPT ![e] = NewEntry(k, e, row)]
NewMap(k, e)      == [mapData EXCEPT ![k] = e]

LEMMA UpsertParts ==
    ASSUME NEW k, NEW row, UpsertData(k, row)
    PROVE  \E e \in Elements : \E n \in 0..Len(NewList(k, e)) :
              /\ Chosen(k, e)
              /\ Value' = NewValue(k, e, row)
              /\ Leave(NewList(k, e), NewValue(k, e, row), n)
              /\ Evict(NewList(k, e), NewValue(k, e, row), NewMap(k, e), n)
              /\ lastCheckTime' = IF CheckDue THEN now ELSE lastCheckTime
              /\ UNCHANGED <<now, ret>>
BY DEF UpsertData, Chosen, NewList, NewEntry, NewValue, NewMap

LEMMA UpsertLinked ==
    ASSUME Inv, NEW k \in Keys, NEW row \in Rows, NEW e \in Elements, Chosen(k, e)
    PROVE  LET list  == NewList(k, e)
               value == NewValue(k, e, row)
           IN /\ Linked(list, value, NewMap(k, e))
              /\ Ordered(list, value)
              /\ Len(list) \in 1..maxCap + 1
              /\ list[Len(list)] = e
              /\ value[e] = [cacheId |-> k, lastTime |-> now, data |-> row]
<1> DEFINE entry == [cacheId |-> k, lastTime |-> now, data |-> row]
<1>1. /\ Linked(pendingData, Value, mapData) /\ Ordered(pendingData, Value)
      /\ now \in Nat
    BY InvIsLinked DEF Inv
<1>2. Len(pendingData) \in 0..maxCap /\ pendingData \in Seq(Elements)
    BY <1>1, LenProperties, FCMapAssumption DEF Inv, SizeBounded, Linked
<1>3. entry \in cacheData /\ entry.cacheId = k /\ entry.lastTime = now
    BY <1>1 DEF cacheData
<1> HIDE DEF entry
<1>4. CASE Has(k)
    <2>1. e = mapData[k]
        BY <1>4 DEF Chosen
    <2> DEFINE map == [mapData EXCEPT ![k] = NoElement]
    <2>2. /\ Value[e].cacheId = k /\ Listed(e)
          /\ Linked(Without(e), Value, map)
          /\ Ordered(Without(e), Value)
          /\ Len(Without(e)) = Len(pendingData) - 1
          /\ \A i \in 1..Len(Without(e)) : Without(e)[i] # e
        BY <1>1, <1>4, <2>1, WithoutLinked
    <2>3. map[k] = NoElement
        BY <1>1 DEF Linked
    <2>4. [map EXCEPT ![k] = e] = [mapData EXCEPT ![k] = e]
        BY <1>1 DEF Linked
    <2> HIDE DEF map
    <2>5. /\ Linked(Append(Without(e), e), [Value EXCEPT ![e] = entry], [map EXCEPT ![k] = e])
          /\ Ordered(Append(Without(e), e), [Value EXCEPT ![e] = entry])
        BY <1>1, <1>3, <2>2, <2>3, AppendLinked
    <2>6. /\ NewList(k, e) = Append(Without(e), e)
          /\ NewValue(k, e, row) = [Value EXCEPT ![e] = entry]
          /\ NewMap(k, e) = [map EXCEPT ![k] = e]
        BY <1>4, <2>2, <2>4 DEF NewList, MoveToBack, NewValue, NewEntry, NewMap, entry
    <2>7. /\ Len(Append(Without(e), e)) = Len(pendingData)
          /\ Append(Without(e), e)[Len(pendingData)] = e
        BY <1>2, <2>2, AppendProperties DEF Linked
    <2>8. Len(pendingData) >= 1
        BY <1>1, <1>2, <1>4 DEF Linked, Has
    <2>9. [Value EXCEPT ![e] = entry][e] = entry
        BY <1>1 DEF Linked
    <2> QED BY <1>2, <2>5, <2>6, <2>7, <2>8, <2>9, FCMapAssumption DEF entry
<1>5. CASE ~Has(k)
    <2>1. \A i \in 1..Len(pendingData) : pendingData[i] # e
        BY <1>5 DEF Chosen, Listed
    <2>2. mapData[k] = NoElement
        BY <1>5 DEF Has
    <2>3. /\ Linked(Append(pendingData, e), [Value EXCEPT ![e] = entry],
                    [mapData EXCEPT ![k] = e])
          /\ Ordered(Append(pendingData, e), [Value EXCEPT ![e] = entry])
        BY <1>1, <1>3, <2>1, <2>2, AppendLinked
    <2>4. /\ NewList(k, e) = Append(pendingData, e)
          /\ NewValue(k, e, row) = [Value EXCEPT ![e] = entry]
          /\ NewMap(k, e) = [mapData EXCEPT ![k] = e]
        BY <1>5 DEF NewList, PushBack, NewValue, NewEntry, NewMap, entry
    <2>5. /\ Len(Append(pendingData, e)) = Len(pendingData) + 1
          /\ Append(pendingData, e)[Len(pendingData) + 1] = e
        BY <1>2, AppendProperties
    <2>6. [Value EXCEPT ![e] = entry][e] = entry
        BY <1>1 DEF Linked
    <2> QED BY <1>2, <2>3, <2>4, <2>5, <2>6, FCMapAssumption DEF entry
<1> QED BY <1>4, <1>5

\* The element of the row that is written never leaves.
LEMMA WrittenStays ==
    ASSUME Inv, NEW k \in Keys, NEW row \in Rows, NEW e \in Elements, Chosen(k, e),
           NEW n \in 0..Len(NewList(k, e)),
           Leave(NewList(k, e), NewValue(k, e, row), n)
    PROVE  n < Len(NewList(k, e)) /\ Len(NewList(k, e)) - n <= maxCap
<1> DEFINE list == NewList(k, e)
           value == NewValue(k, e, row)
           over == Excess(list)
<1>1. /\ Len(list) \in 1..maxCap + 1
      /\ value[list[Len(list)]].lastTime = now
    <2>1. /\ Len(list) \in 1..maxCap + 1
          /\ list[Len(list)] = e
          /\ value[e] = [cacheId |-> k, lastTime |-> now, data |-> row]
        BY UpsertLinked
    <2> HIDE DEF list, value
    <2> QED BY <2>1
<1>2. now \in Nat /\ lastCheckTime \in Nat
    BY DEF Inv, TypeOK
<1>3. over \in 0..1 /\ (over = 1 <=> Len(list) > maxCap)
    BY DEF Excess
<1>4. ~Expired(value[list[Len(list)]])
    BY <1>1, <1>2, FCMapAssumption DEF Expired
<1>5. over <= n /\ \A i \in over + 1..n : Expired(value[list[i]])
    BY <1>3 DEF Leave
<1> HIDE DEF list, value, over
<1>6. n # Len(list)
    <2> SUFFICES ASSUME n = Len(list) PROVE FALSE
        OBVIOUS
    <2>1. over < n
        BY <1>1, <1>3, FCMapAssumption
    <2> QED BY <2>1, <1>1, <1>3, <1>4, <1>5
<1> QED BY <1>1, <1>3, <1>5, <1>6, FCMapAssumption DEF list

----------------------------------------------------------------------------
(* The invariant.                                                           *)

LEMMA InitInv == Init => Inv
<1> SUFFICES ASSUME Init PROVE Inv
    OBVIOUS
<1>1. pendingData = <<>> /\ Len(pendingData) = 0 /\ pendingData \in Seq(Elements)
    BY DEF Init
<1> QED BY <1>1, FCMapAssumption DEF Init, Inv, TypeOK, MapIsList, Has, SizeBounded, OrderedByUse

LEMMA UpsertInv ==
    ASSUME Inv, NEW k \in Keys, NEW row \in Rows, UpsertData(k, row)
    PROVE  Inv'
<1>1. PICK e \in Elements : \E n \in 0..Len(NewList(k, e)) :
         /\ Chosen(k, e)
         /\ Value' = NewValue(k, e, row)
         /\ Leave(NewList(k, e), NewValue(k, e, row), n)
         /\ Evict(NewList(k, e), NewValue(k, e, row), NewMap(k, e), n)
         /\ lastCheckTime' = IF CheckDue THEN now ELSE lastCheckTime
         /\ UNCHANGED <<now, ret>>
    BY UpsertParts
<1>2. PICK n \in 0..Len(NewList(k, e)) :
         /\ Leave(NewList(k, e), NewValue(k, e, row), n)
         /\ Evict(NewList(k, e), NewValue(k, e, row), NewMap(k, e), n)
    BY <1>1
<1>3. Len(NewList(k, e)) - n <= maxCap
    BY <1>1, <1>2, WrittenStays
<1>4. /\ Linked(NewList(k, e), NewValue(k, e, row), NewMap(k, e))
      /\ Ordered(NewList(k, e), NewValue(k, e, row))
    BY <1>1, UpsertLinked
<1>5. /\ Linked(pendingData', Value', mapData')
      /\ Ordered(pendingData', Value')
      /\ Len(pendingData') = Len(NewList(k, e)) - n
    BY <1>1, <1>2, <1>4, EvictLinked
<1>6. /\ lastCheckTime' \in Nat /\ now' = now /\ now \in Nat
      /\ ret' \in Rows \cup {NoRow}
    BY <1>1 DEF Inv, TypeOK
<1> QED BY <1>3, <1>5, <1>6, LinkedNext

LEMMA FindInv ==
    ASSUME Inv, NEW k \in Keys, FindData(k)
    PROVE  Inv'
<1>1. CASE ~Has(k)
    BY <1>1 DEF FindData, Inv, TypeOK, MapIsList, SizeBounded, OrderedByUse, Has
<1>2. CASE Has(k)
    <2> DEFINE e == mapData[k]
               list == Without(e)
               map == [mapData EXCEPT ![k] = NoElement]
               entry == [Value[e] EXCEPT !.lastTime = now]
    <2>1. /\ Linked(pendingData, Value, mapData) /\ Ordered(pendingData, Value)
          /\ now \in Nat /\ lastCheckTime \in Nat
        BY InvIsLinked DEF Inv
    <2>2. /\ e \in Elements /\ Value[e] \in cacheData /\ Value[e].cacheId = k /\ Listed(e)
          /\ Linked(list, Value, map) /\ Ordered(list, Value)
          /\ Len(list) = Len(pendingData) - 1
          /\ \A i \in 1..Len(list) : list[i] # e
        BY <1>2, <2>1, WithoutLinked
    <2>3. /\ Value' = [Value EXCEPT ![e] = entry]
          /\ pendingData' = Append(list, e)
          /\ ret' = Value[e].data
          /\ UNCHANGED <<mapData, lastCheckTime, now>>
        BY <1>2, <2>2 DEF FindData, Found, MoveToBack
    <2>4. entry \in cacheData /\ entry.cacheId = k /\ entry.lastTime = now
        BY <2>1, <2>2 DEF cacheData
    <2>5. map[k] = NoElement /\ [map EXCEPT ![k] = e] = mapData
        BY <2>1 DEF Linked
    <2>6. Len(pendingData') = Len(pendingData)
        BY <2>2, <2>3, AppendProperties DEF Linked
    <2> HIDE DEF e, list, map, entry
    <2>7. /\ Linked(pendingData', Value', mapData')
          /\ Ordered(pendingData', Value')
        BY <2>1, <2>2, <2>3, <2>4, <2>5, AppendLinked
    <2>8. ret' \in Rows \cup {NoRow}
        BY <2>2, <2>3 DEF cacheData
    <2>9. Len(pendingData') <= maxCap
        BY <2>6 DEF Inv, SizeBounded
    <2> QED BY <2>1, <2>3, <2>7, <2>8, <2>9, LinkedNext
<1> QED BY <1>1, <1>2

LEMMA RemoveInv ==
    ASSUME Inv, NEW k \in Keys, RemoveCache(k)
    PROVE  Inv'
<1>1. /\ Linked(pendingData, Value, mapData) /\ Ordered(pendingData, Value)
      /\ now \in Nat /\ lastCheckTime \in Nat /\ ret \in Rows \cup {NoRow}
    BY InvIsLinked DEF Inv
<1>2. /\ Has(k)
      /\ mapData' = [mapData EXCEPT ![k] = NoElement]
      /\ pendingData' = Without(mapData[k])
      /\ UNCHANGED <<Value, lastCheckTime, now, ret>>
    BY DEF RemoveCache
<1>3. /\ Linked(pendingData', Value', mapData')
      /\ Ordered(pendingData', Value')
      /\ Len(pendingData') = Len(pendingData) - 1
    BY <1>1, <1>2, WithoutLinked
<1>4. Len(pendingData') <= maxCap
    BY <1>1, <1>3, LenProperties, FCMapAssumption DEF Inv, SizeBounded, Linked
<1> QED BY <1>1, <1>2, <1>3, <1>4, LinkedNext

LEMMA TickInv ==
    ASSUME Inv, Tick
    PROVE  Inv'
<1>1. now' > now /\ now' \in Nat /\ now \in Nat
    BY DEF Tick, Inv, TypeOK
<1>2. \A i \in 1..Len(pendingData) : Value[pendingData[i]].lastTime \in Nat
    BY DEF Inv, TypeOK, cacheData
<1>3. OrderedByUse'
    BY <1>1, <1>2 DEF Tick, Inv, OrderedByUse
<1> QED BY <1>1, <1>3 DEF Tick, Inv, TypeOK, MapIsList, Has, SizeBounded

LEMMA NextInv == Inv /\ [Next]_vars => Inv'
<1> SUFFICES ASSUME Inv, [Next]_vars PROVE Inv'
    OBVIOUS
<1>1. ASSUME NEW k \in Keys, NEW row \in Rows, UpsertData(k, row) PROVE Inv'
    BY <1>1, UpsertInv
<1>2. ASSUME NEW k \in Keys, FindData(k) PROVE Inv'
    BY <1>2, FindInv
<1>3. ASSUME NEW k \in Keys, RemoveCache(k) PROVE Inv'
    BY <1>3, RemoveInv
<1>4. CASE Tick
    BY <1>4, TickInv
<1>5. CASE UNCHANGED vars
    BY <1>5 DEF vars, Inv, TypeOK, MapIsList, SizeBounded, OrderedByUse, Has
<1> QED BY <1>1, <1>2, <1>3, <1>4, <1>5 DEF Next

\* The list and the map hold the same entries in the order of their use, never
\* more than the capacity, for every sequence of calls and clock steps.
THEOREM FCMapInv == Spec => []Inv
<1>1. Init => Inv
    BY InitInv
<1>2. Inv /\ [Next]_vars => Inv'
    BY NextInv
<1> QED BY <1>1, <1>2, PTL DEF Spec

\* The invariants of the run, one by one.
THEOREM TypeCorrect == Spec => []TypeOK
BY FCMapInv, PTL DEF Inv

\* The map and the list never come apart, so no lookup reaches an element that
\* went back to the pool and holds another key's row (FCMap.go:311-390).
THEOREM MapIsListAlways == Spec => []MapIsList
BY FCMapInv, PTL DEF Inv

\* The capacity holds although an insertion evicts one row at most.
THEOREM SizeBoundedAlways == Spec => []SizeBounded
BY FCMapInv, PTL DEF Inv

\* The front of the list is always the row used longest ago.
THEOREM OrderedByUseAlways == Spec => []OrderedByUse
BY FCMapInv, PTL DEF Inv

----------------------------------------------------------------------------
(* Eviction.                                                                *)

\* An upsert before eviction touches no other key.
LEMMA OthersKept ==
    ASSUME Inv, NEW k \in Keys, NEW row \in Rows, NEW e \in Elements, Chosen(k, e),
           NEW other \in Keys \ {k}
    PROVE  /\ NewMap(k, e)[k] = e
           /\ NewMap(k, e)[other] = mapData[other]
           /\ Has(other) =>
                 NewValue(k, e, row)[mapData[other]] = Value[mapData[other]]
<1>1. Linked(pendingData, Value, mapData)
    BY InvIsLinked DEF Inv
<1>2. NewMap(k, e)[k] = e /\ NewMap(k, e)[other] = mapData[other]
    BY <1>1 DEF NewMap, Linked
<1>3. ASSUME Has(other)
      PROVE  NewValue(k, e, row)[mapData[other]] = Value[mapData[other]]
    <2>1. PICK i \in 1..Len(pendingData) :
             pendingData[i] = mapData[other] /\ Value[pendingData[i]].cacheId = other
        BY <1>1, <1>3 DEF Linked, Has
    <2>2. mapData[other] # e
        <3>1. CASE Has(k)
            BY <1>1, <2>1, <3>1 DEF Chosen, Linked, Has
        <3>2. CASE ~Has(k)
            BY <2>1, <3>2 DEF Chosen, Listed
        <3> QED BY <3>1, <3>2
    <2>3. mapData[other] \in Elements
        BY <1>1, <1>3 DEF Linked, Has
    <2> QED BY <1>1, <2>2, <2>3 DEF NewValue, Linked
<1> QED BY <1>2, <1>3

\* What an upsert that evicts n elements does to the map, key by key.
Evicting(k, row, e, n) ==
    /\ k \in Keys /\ row \in Rows /\ e \in Elements
    /\ n \in 0..Len(NewList(k, e))
    /\ Chosen(k, e)
    /\ Value' = NewValue(k, e, row)
    /\ Leave(NewList(k, e), NewValue(k, e, row), n)
    /\ Evict(NewList(k, e), NewValue(k, e, row), NewMap(k, e), n)
    /\ lastCheckTime' = IF CheckDue THEN now ELSE lastCheckTime
    /\ UNCHANGED <<now, ret>>

Evicted(k, row, e, n) ==
    /\ n < Len(NewList(k, e)) /\ n \in Nat /\ Len(NewList(k, e)) \in Nat
    /\ Linked(NewList(k, e), Value', NewMap(k, e)) /\ Ordered(NewList(k, e), Value')
    /\ mapData'[k] = e
    /\ Value'[e] = [cacheId |-> k, lastTime |-> now, data |-> row]
    /\ \A l \in Keys \ {k} : mapData'[l] # NoElement =>
          mapData'[l] = mapData[l] /\ Value'[mapData[l]] = Value[mapData[l]]
    /\ \A l \in Keys : mapData[l] # NoElement /\ mapData'[l] = NoElement =>
          /\ l # k
          /\ Value'[mapData[l]] = Value[mapData[l]]
          /\ \E i \in 1..n : NewList(k, e)[i] = mapData[l] /\ Value'[NewList(k, e)[i]].cacheId = l
    /\ \A l \in Keys : mapData'[l] # NoElement =>
          \E i \in n + 1..Len(NewList(k, e)) :
             NewList(k, e)[i] = mapData'[l] /\ Value'[NewList(k, e)[i]].cacheId = l
    /\ \A i \in 1..n : \E l \in Keys :
          l = Value'[NewList(k, e)[i]].cacheId /\ mapData[l] # NoElement /\ mapData'[l] = NoElement

LEMMA EvictedAndKept ==
    ASSUME Inv, NEW k, NEW row, NEW e, NEW n, Evicting(k, row, e, n)
    PROVE  Evicted(k, row, e, n)
<1> DEFINE list == NewList(k, e)
           value == NewValue(k, e, row)
           map == NewMap(k, e)
<1>0. e \in Elements /\ e # NoElement
    BY FCMapAssumption DEF Evicting
<1>1. /\ Linked(list, value, map) /\ Ordered(list, value)
      /\ Len(list) \in 1..maxCap + 1
      /\ list[Len(list)] = e
      /\ value[e] = [cacheId |-> k, lastTime |-> now, data |-> row]
    BY UpsertLinked DEF Evicting
<1>2. /\ Linked(pendingData', value, mapData')
      /\ Len(pendingData') = Len(list) - n
      /\ \A i \in 1..Len(list) - n : pendingData'[i] = list[n + i]
      /\ \A l \in Keys : mapData'[l] = NoElement \/ mapData'[l] = map[l]
      /\ \A i \in n + 1..Len(list) : mapData'[value[list[i]].cacheId] = list[i]
    BY <1>1, EvictLinked DEF Evicting
<1>3. n < Len(list) /\ n \in Nat /\ Len(list) \in Nat
    BY <1>1, WrittenStays, FCMapAssumption DEF Evicting
<1>4. \A l \in Keys \ {k} :
         /\ map[k] = e /\ map[l] = mapData[l]
         /\ mapData[l] # NoElement => value[mapData[l]] = Value[mapData[l]]
    BY OthersKept DEF Evicting, Has
<1>5. Value' = value
    BY DEF Evicting
<1>6. \A l \in Keys :
         mapData'[l] = IF l \in {value[list[i]].cacheId : i \in 1..n} THEN NoElement ELSE map[l]
    BY DEF Evicting, Evict
<1> HIDE DEF list, value, map
<1>7. mapData'[k] = e
    <2>1. Len(list) \in n + 1..Len(list)
        BY <1>3
    <2>2. value[list[Len(list)]].cacheId = k
        BY <1>1
    <2> QED BY <1>1, <1>2, <2>1, <2>2
<1>8. ASSUME NEW l \in Keys, mapData[l] # NoElement, mapData'[l] = NoElement
      PROVE  /\ l # k
             /\ Value'[mapData[l]] = Value[mapData[l]]
             /\ \E i \in 1..n : list[i] = mapData[l] /\ Value'[list[i]].cacheId = l
    <2>1. l # k
        BY <1>7, <1>8, <1>0 DEF Has
    <2>2. map[l] = mapData[l] /\ Value'[mapData[l]] = Value[mapData[l]]
        BY <1>4, <1>5, <1>8, <2>1
    <2>3. PICK i \in 1..Len(list) : list[i] = map[l] /\ value[list[i]].cacheId = l
        BY <1>1, <1>8, <2>2 DEF Linked, Has
    <2>4. i \in 1..n
        BY <1>2, <1>3, <1>8, <2>2, <2>3 DEF Has
    <2> QED BY <1>5, <2>1, <2>2, <2>3, <2>4
<1>9. ASSUME NEW l \in Keys, mapData'[l] # NoElement
      PROVE  \E i \in n + 1..Len(list) :
                list[i] = mapData'[l] /\ Value'[list[i]].cacheId = l
    <2>1. PICK j \in 1..Len(pendingData') :
             pendingData'[j] = mapData'[l] /\ value[pendingData'[j]].cacheId = l
        BY <1>2, <1>9 DEF Linked, Has
    <2>2. n + j \in n + 1..Len(list) /\ list[n + j] = pendingData'[j]
        BY <1>2, <1>3, <2>1
    <2> QED BY <1>5, <2>1, <2>2
<1>10. ASSUME NEW i \in 1..n
       PROVE  \E l \in Keys : l = Value'[list[i]].cacheId /\ mapData[l] # NoElement /\ mapData'[l] = NoElement
    <2> DEFINE l == value[list[i]].cacheId
    <2>1. i \in 1..Len(list) /\ i # Len(list)
        BY <1>3
    <2>2. l \in Keys /\ map[l] = list[i]
        BY <1>1, <2>1 DEF Linked, cacheData
    <2>3. mapData'[l] = NoElement
        BY <1>6, <2>2
    <2>4. list[i] \in Elements /\ e # NoElement
        BY <1>1, <2>1, ElementOfSeq, FCMapAssumption DEF Linked
    <2>5. l # k
        BY <1>7, <2>3, <2>4
    <2>6. mapData[l] # NoElement
        BY <1>4, <2>2, <2>4, <2>5, FCMapAssumption DEF Has
    <2>7. PICK j \in Keys : j = l
        BY <2>2
    <2>8. j = Value'[list[i]].cacheId /\ mapData[j] # NoElement /\ mapData'[j] = NoElement
        BY <1>5, <2>3, <2>6, <2>7
    <2> QED BY <2>8 DEF Has
<1>11. ASSUME NEW l \in Keys \ {k}, mapData'[l] # NoElement
       PROVE  mapData'[l] = mapData[l] /\ Value'[mapData[l]] = Value[mapData[l]]
    <2>1. mapData'[l] = mapData[l]
        BY <1>2, <1>4, <1>11 DEF Has
    <2> QED BY <2>1, <1>4, <1>5, <1>11 DEF Has
<1>12. Linked(list, Value', map) /\ Ordered(list, Value')
    BY <1>1, <1>5
<1>13. Value'[e] = [cacheId |-> k, lastTime |-> now, data |-> row]
    BY <1>1, <1>5
<1> QED BY <1>3, <1>7, <1>8, <1>9, <1>10, <1>11, <1>12, <1>13 DEF list, map, Evicted

LEMMA UpsertEvicts ==
    ASSUME NEW k \in Keys, NEW row \in Rows, UpsertData(k, row)
    PROVE  \E e, n : Evicting(k, row, e, n)
BY UpsertParts DEF Evicting

LEMMA StepOldest == Inv /\ [Next]_vars => [Oldest]_vars
<1> SUFFICES ASSUME Inv, Next, NEW k \in Keys, NEW other \in Keys,
                    Has(k), ~Has(k)', Has(other)', ~RemoveCache(k)
             PROVE  Value[mapData[k]].lastTime <= Value'[mapData'[other]].lastTime
    BY DEF Oldest
<1>1. ASSUME NEW l \in Keys, NEW row \in Rows, UpsertData(l, row)
      PROVE  Value[mapData[k]].lastTime <= Value'[mapData'[other]].lastTime
    <2>1. PICK e, n : Evicting(l, row, e, n)
        BY <1>1, UpsertEvicts
    <2>2. Evicted(l, row, e, n)
        BY <2>1, EvictedAndKept
    <2> DEFINE list == NewList(l, e)
    <2>3. PICK i \in 1..n : list[i] = mapData[k] /\ Value'[mapData[k]] = Value[mapData[k]]
        BY <2>2 DEF Evicted, Has
    <2>4. PICK j \in n + 1..Len(list) : list[j] = mapData'[other]
        BY <2>2 DEF Evicted, Has
    <2>5. Ordered(list, Value') /\ n < Len(list) /\ n \in Nat /\ Len(list) \in Nat
        BY <2>2 DEF Evicted
    <2> HIDE DEF list
    <2>6. i \in 1..Len(list) /\ j \in 1..Len(list) /\ i <= j
        BY <2>5
    <2>7. Value'[list[i]].lastTime <= Value'[list[j]].lastTime
        BY <2>5, <2>6 DEF Ordered
    <2> QED BY <2>3, <2>4, <2>7
<1>2. ASSUME NEW l \in Keys, RemoveCache(l) PROVE FALSE
    BY <1>2 DEF RemoveCache, Has, Inv, TypeOK
<1>3. CASE (\E l \in Keys : FindData(l)) \/ Tick
    BY <1>3 DEF FindData, Found, Tick, Has
<1> QED BY <1>1, <1>2, <1>3 DEF Next

\* What is evicted was used no later than anything that stays.
THEOREM EvictsOldestAlways == Spec => EvictsOldest
<1>1. Inv /\ [Next]_vars => [Oldest]_vars
    BY StepOldest
<1> QED BY <1>1, FCMapInv, PTL DEF Spec, EvictsOldest

\* The number of rows an upsert evicts.
LEMMA EvictedCount ==
    ASSUME Inv, NEW k, NEW row, NEW e, NEW n, Evicting(k, row, e, n)
    PROVE  Cardinality({l \in Keys : Has(l) /\ ~Has(l)'}) = n
<1> DEFINE list == NewList(k, e)
           gone == {l \in Keys : mapData[l] # NoElement /\ mapData'[l] = NoElement}
           id(i) == Value'[list[i]].cacheId
           f == [i \in 1..n |-> id(i)]
<1>1. Evicted(k, row, e, n)
    BY EvictedAndKept
<1>2. /\ Linked(list, Value', NewMap(k, e))
      /\ n < Len(list) /\ n \in Nat /\ Len(list) \in Nat
    BY <1>1 DEF Evicted
<1>3. \A l \in gone : \E i \in 1..n : id(i) = l
    BY <1>1 DEF Evicted
<1>4. ASSUME NEW i \in 1..n PROVE id(i) \in gone
    <2>1. PICK l \in Keys :
             l = id(i) /\ mapData[l] # NoElement /\ mapData'[l] = NoElement
        BY <1>1 DEF Evicted
    <2> HIDE DEF id
    <2> QED BY <2>1
<1>5. \A i, j \in 1..n : id(i) = id(j) => i = j
    <2> SUFFICES ASSUME NEW i \in 1..n, NEW j \in 1..n, id(i) = id(j)
                 PROVE  i = j
        OBVIOUS
    <2> HIDE DEF list
    <2>1. i \in 1..Len(list) /\ j \in 1..Len(list)
        BY <1>2
    <2>2. NewMap(k, e)[id(i)] = list[i] /\ NewMap(k, e)[id(j)] = list[j]
        BY <1>2, <2>1 DEF Linked
    <2> QED BY <1>2, <2>1, <2>2 DEF Linked
<1> HIDE DEF list, gone, id
<1>6. f \in Bijection(1..n, gone)
    BY <1>3, <1>4, <1>5 DEF Bijection, Injection, Surjection, IsInjective
<1>7. ExistsBijection(1..n, gone)
    BY <1>6 DEF ExistsBijection
<1>8. Cardinality(gone) = n
    BY <1>2, <1>7, FS_CountingElements
<1>9. gone = {l \in Keys : Has(l) /\ ~Has(l)'}
    BY DEF gone, Has
<1> QED BY <1>8, <1>9

LEMMA StepThorough == Inv /\ [Next]_vars => [Thorough]_vars
<1> SUFFICES ASSUME Inv, Next, lastCheckTime' # lastCheckTime,
                    Cardinality({k \in Keys : Has(k) /\ ~Has(k)'}) < intervalCheckNum,
                    NEW k \in Keys, Has(k)'
             PROVE  now - Value'[mapData'[k]].lastTime < expirationTime
    BY DEF Thorough
<1>1. PICK l \in Keys, row \in Rows : UpsertData(l, row)
    BY DEF Next, FindData, Found, RemoveCache, Tick
<1>2. PICK e, n : Evicting(l, row, e, n)
    BY <1>1, UpsertEvicts
<1>3. Evicted(l, row, e, n)
    BY <1>2, EvictedAndKept
<1> DEFINE list == NewList(l, e)
           over == Excess(list)
<1>4. n < intervalCheckNum
    BY <1>2, EvictedCount
<1>5. /\ n < Len(list) /\ n \in Nat /\ Len(list) \in Nat
      /\ Linked(list, Value', NewMap(l, e)) /\ Ordered(list, Value')
    BY <1>3 DEF Evicted
<1>6. PICK j \in n + 1..Len(list) : list[j] = mapData'[k]
    BY <1>3 DEF Evicted, Has
<1>7. CheckDue /\ Value' = NewValue(l, e, row) /\ Leave(list, NewValue(l, e, row), n)
    BY <1>2 DEF Evicting
<1>8. over \in 0..1
    BY DEF Excess
<1> HIDE DEF list
<1>9. ~Expired(Value'[list[n + 1]])
    <2>1. n # over + intervalCheckNum
        BY <1>4, <1>5, <1>8, FCMapAssumption
    <2> HIDE DEF over
    <2>2. n \notin {Len(list), over + intervalCheckNum}
        BY <1>5, <2>1
    <2>3. Leave(list, Value', n)
        BY <1>7
    <2> QED BY <1>7, <2>2, <2>3 DEF Leave, over
<1>10. Value'[list[n + 1]].lastTime <= Value'[list[j]].lastTime
    <2>1. n + 1 \in 1..Len(list) /\ j \in 1..Len(list) /\ n + 1 <= j
        BY <1>5
    <2> QED BY <1>5, <2>1 DEF Ordered
<1>11. /\ now \in Nat
       /\ Value'[list[n + 1]].lastTime \in Nat /\ Value'[list[j]].lastTime \in Nat
    <2>1. n + 1 \in 1..Len(list) /\ j \in 1..Len(list)
        BY <1>5
    <2> QED BY <1>5, <2>1 DEF Linked, cacheData, Inv, TypeOK
<1>12. now - Value'[list[n + 1]].lastTime < expirationTime
    BY <1>9, <1>11, FCMapAssumption DEF Expired
<1>13. now - Value'[list[j]].lastTime < expirationTime
    <2> DEFINE first == Value'[list[n + 1]].lastTime
               later == Value'[list[j]].lastTime
    <2>1. first \in Nat /\ later \in Nat /\ first <= later /\ now - first < expirationTime
        BY <1>10, <1>11, <1>12
    <2> HIDE DEF first, later
    <2>2. now - later < expirationTime
        BY <2>1, <1>11, FCMapAssumption
    <2> QED BY <2>2 DEF later
<1> QED BY <1>6, <1>13

\* A check that stops early has removed every expired row.
THEOREM CheckIsThoroughAlways == Spec => CheckIsThorough
<1>1. Inv /\ [Next]_vars => [Thorough]_vars
    BY StepThorough
<1> QED BY <1>1, FCMapInv, PTL DEF Spec, CheckIsThorough

----------------------------------------------------------------------------
(* FCMap implements Cache.                                                  *)

Store == [k \in Keys |-> Cached(k)]

LEMMA CachedType ==
    ASSUME Inv
    PROVE  \A k \in Keys : Cached(k) \in Rows \cup {NoRow}
<1> SUFFICES ASSUME NEW k \in Keys PROVE Cached(k) \in Rows \cup {NoRow}
    OBVIOUS
<1>1. CASE Has(k)
    <2>1. PICK i \in 1..Len(pendingData) : pendingData[i] = mapData[k]
        BY <1>1 DEF Inv, MapIsList
    <2> QED BY <1>1, <2>1 DEF Inv, TypeOK, cacheData, Cached
<1> QED BY <1>1 DEF Cached

StoreOK == Store \in [Keys -> Rows \cup {NoRow}]

LEMMA StoreType == Inv => StoreOK
BY CachedType DEF Store, StoreOK

LEMMA StoreTypeNext == Inv' => StoreOK'
BY StoreType, PTL

LEMMA UpsertRefines ==
    ASSUME Inv, Inv', NEW k \in Keys, NEW row \in Rows, UpsertData(k, row)
    PROVE  CacheSpec!Upsert(k, row)
<1>1. PICK e, n : Evicting(k, row, e, n)
    BY UpsertEvicts
<1>2. Evicted(k, row, e, n)
    BY <1>1, EvictedAndKept
<1>3. Store' \in [Keys -> Rows \cup {NoRow}]
    BY StoreTypeNext DEF StoreOK
<1>4. Store'[k] = row
    <2>1. mapData'[k] = e /\ Value'[e].data = row
        BY <1>2 DEF Evicted
    <2>2. e # NoElement
        BY <1>1, FCMapAssumption DEF Evicting
    <2> QED BY <2>1, <2>2 DEF Store, Cached, Has
<1>5. ASSUME NEW other \in Keys \ {k}
      PROVE  Store'[other] \in {Store[other], NoRow}
    <2>1. mapData'[other] # NoElement =>
             mapData'[other] = mapData[other] /\ Value'[mapData[other]] = Value[mapData[other]]
        BY <1>2 DEF Evicted
    <2> QED BY <2>1 DEF Store, Cached, Has
<1>6. UNCHANGED ret
    BY <1>1 DEF Evicting
<1> QED BY <1>3, <1>4, <1>5, <1>6 DEF CacheSpec!Upsert, CacheSpec!Put, Store

LEMMA SameStore ==
    ASSUME mapData' = mapData, \A k \in Keys : Has(k) => Value'[mapData[k]].data = Value[mapData[k]].data
    PROVE  Store' = Store
BY DEF Store, Cached, Has

LEMMA FindRefines ==
    ASSUME Inv, NEW k \in Keys, FindData(k)
    PROVE  CacheSpec!Find(k)
<1>1. mapData' = mapData /\ ret' = Store[k]
    BY DEF FindData, Found, Store, Cached
<1>2. \A l \in Keys : Has(l) => Value'[mapData[l]].data = Value[mapData[l]].data
    <2> SUFFICES ASSUME NEW l \in Keys, Has(l)
                 PROVE  Value'[mapData[l]].data = Value[mapData[l]].data
        OBVIOUS
    <2>1. CASE Value' = Value
        BY <2>1
    <2>2. CASE Has(k) /\ Value' = [Value EXCEPT ![mapData[k]].lastTime = now]
        <3>1. mapData[l] \in Elements /\ mapData[k] \in Elements
            BY <2>2 DEF Inv, TypeOK, Has
        <3>2. PICK i \in 1..Len(pendingData) : pendingData[i] = mapData[k]
            BY <2>2 DEF Inv, MapIsList
        <3>3. Value[mapData[k]] \in cacheData
            BY <3>2 DEF Inv, TypeOK
        <3> QED BY <2>2, <3>1, <3>3 DEF Inv, TypeOK, cacheData
    <2> QED BY <2>1, <2>2 DEF FindData, Found
<1>3. Store' = Store
    BY <1>1, <1>2, SameStore
<1> QED BY <1>1, <1>3 DEF CacheSpec!Find, Store

LEMMA RemoveRefines ==
    ASSUME Inv, NEW k \in Keys, RemoveCache(k)
    PROVE  CacheSpec!Remove(k)
<1>1. mapData' = [mapData EXCEPT ![k] = NoElement] /\ Value' = Value /\ ret' = ret
    BY DEF RemoveCache
<1>2. \A l \in Keys : Cached(l)' = IF l = k THEN NoRow ELSE Cached(l)
    BY <1>1 DEF Cached, Has, Inv, TypeOK
<1>3. Store' = [Store EXCEPT ![k] = NoRow]
    BY <1>2 DEF Store
<1> QED BY <1>1, <1>3 DEF CacheSpec!Remove, Store

\* A lookup returns the row written last or nothing, whatever the capacity, the
\* expiration and the order of calls.
THEOREM FCMapImplementsCache == Spec => ImplementsCache
<1>1. Init => CacheSpec!Init
    BY DEF Init, CacheSpec!Init, Cached, Has
<1>2. Inv /\ Inv' /\ [Next]_vars => [CacheSpec!Next]_(CacheSpec!vars)
    <2> SUFFICES ASSUME Inv, Inv', [Next]_vars
                 PROVE  CacheSpec!Next \/ UNCHANGED CacheSpec!vars
        OBVIOUS
    <2>1. ASSUME NEW k \in Keys, NEW row \in Rows, UpsertData(k, row)
          PROVE  CacheSpec!Next
        BY <2>1, UpsertRefines DEF CacheSpec!Next
    <2>2. ASSUME NEW k \in Keys, FindData(k) PROVE CacheSpec!Next
        BY <2>2, FindRefines DEF CacheSpec!Next
    <2>3. ASSUME NEW k \in Keys, RemoveCache(k) PROVE CacheSpec!Next
        BY <2>3, RemoveRefines DEF CacheSpec!Next
    <2>4. CASE Tick \/ UNCHANGED vars
        <3>1. mapData' = mapData /\ Value' = Value /\ ret' = ret
            BY <2>4 DEF Tick, vars
        <3>2. Store' = Store
            BY <3>1, SameStore
        <3> QED BY <3>1, <3>2 DEF CacheSpec!vars, Store
    <2> QED BY <2>1, <2>2, <2>3, <2>4 DEF Next
<1> QED BY <1>1, <1>2, FCMapInv, PTL DEF Spec, ImplementsCache, CacheSpec!Spec
=============================================================================
