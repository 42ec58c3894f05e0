------------------------ MODULE IdempotencyCacheProofs ------------------------
(***************************************************************************)
(* Proofs about IdempotencyCache, for any requests, keys, bound on the     *)
(* cache and number of panics: the cache's list and index agree, only a    *)
(* full cache evicts, and the cache implements ReplayRegister.             *)
(***************************************************************************)
EXTENDS IdempotencyCache, SequenceTheorems, TLAPS

(* The list as a set of entries, without repetitions. *)
Entries(s) == {s[i] : i \in DOMAIN s}
Distinct(s) == \A i, k \in DOMAIN s : s[i] = s[k] => i = k

LEMMA RemoveAtFacts ==
  ASSUME NEW s \in Seq(Requests), Distinct(s), NEW i \in DOMAIN s
  PROVE  /\ RemoveAt(s, i) \in Seq(Requests)
         /\ Len(RemoveAt(s, i)) = Len(s) - 1
         /\ Distinct(RemoveAt(s, i))
         /\ Entries(RemoveAt(s, i)) = Entries(s) \ {s[i]}
  <1> DEFINE t == RemoveAt(s, i)
  <1>1. /\ t \in Seq(Requests) /\ Len(t) = Len(s) - 1
        /\ DOMAIN t = 1..(Len(s) - 1) /\ DOMAIN s = 1..Len(s)
        /\ \A k \in 1..(Len(s) - 1) : t[k] = IF k < i THEN s[k] ELSE s[k + 1]
    <2> DEFINE a == SubSeq(s, 1, i - 1)
               b == SubSeq(s, i + 1, Len(s))
    <2>1. i \in 1..Len(s) /\ Len(s) \in Nat
      OBVIOUS
    <2>2. a \in Seq(Requests) /\ Len(a) = i - 1 /\ \A k \in 1..(i - 1) : a[k] = s[k]
      BY <2>1
    <2>3. b \in Seq(Requests) /\ Len(b) = Len(s) - i /\ \A k \in 1..(Len(s) - i) : b[k] = s[i + k]
      BY <2>1
    <2>4. t = a \o b
      BY DEF RemoveAt
    <2> HIDE DEF a, b, t
    <2>5. \A k \in 1..(Len(a) + Len(b)) : t[k] = IF k <= Len(a) THEN a[k] ELSE b[k - Len(a)]
      BY <2>2, <2>3, <2>4, ConcatProperties
    <2>6. /\ t \in Seq(Requests) /\ Len(t) = Len(s) - 1
          /\ DOMAIN t = 1..(Len(s) - 1) /\ DOMAIN s = 1..Len(s)
      BY <2>1, <2>2, <2>3, <2>4, ConcatProperties
    <2>7. ASSUME NEW k \in 1..(Len(s) - 1) PROVE t[k] = IF k < i THEN s[k] ELSE s[k + 1]
      <3>1. CASE k < i
        <4>1. k \in 1..(i - 1) /\ k \in 1..(Len(a) + Len(b)) /\ k <= Len(a)
          BY <3>1, <2>1, <2>2, <2>3
        <4>2. t[k] = a[k]
          BY <4>1, <2>5
        <4>3. QED
          BY <4>1, <4>2, <3>1, <2>2
      <3>2. CASE ~ (k < i)
        <4>0. /\ k \in 1..(Len(a) + Len(b)) /\ ~ (k <= Len(a)) /\ Len(a) = i - 1
              /\ k - (i - 1) \in 1..(Len(s) - i)
          BY <3>2, <2>1, <2>2, <2>3
        <4>1. t[k] = b[k - (i - 1)] /\ k - (i - 1) \in 1..(Len(s) - i)
          BY <4>0, <2>5
        <4>2. QED
          BY <4>1, <3>2, <2>1, <2>3
      <3>3. QED
        BY <3>1, <3>2
    <2>8. QED
      BY <2>6, <2>7
  <1> HIDE DEF t
  <1> DEFINE m(k) == IF k < i THEN k ELSE k + 1
  <1>2. \A k \in DOMAIN t : m(k) \in DOMAIN s /\ m(k) # i /\ t[k] = s[m(k)]
    BY <1>1
  <1>3. Distinct(t)
    <2> SUFFICES ASSUME NEW k \in DOMAIN t, NEW l \in DOMAIN t, t[k] = t[l] PROVE k = l
      BY DEF Distinct
    <2>1. m(k) = m(l)
      BY <1>2 DEF Distinct
    <2>2. QED
      BY <2>1, <1>1
  <1>4. ASSUME NEW k \in DOMAIN t PROVE t[k] \in Entries(s) \ {s[i]}
    BY <1>2 DEF Distinct, Entries
  <1>5. ASSUME NEW k \in DOMAIN s, s[k] # s[i] PROVE s[k] \in Entries(t)
    <2>1. CASE k < i
      BY <2>1, <1>1 DEF Entries
    <2>2. CASE k > i
      <3>1. k - 1 \in DOMAIN t /\ t[k - 1] = s[k]
        BY <2>2, <1>1
      <3>2. QED
        BY <3>1 DEF Entries
    <2>3. QED
      BY <2>1, <2>2, <1>5, <1>1
  <1>6. Entries(t) = Entries(s) \ {s[i]}
    BY <1>4, <1>5 DEF Entries
  <1>7. QED
    BY <1>1, <1>3, <1>6 DEF t

LEMMA PushFacts ==
  ASSUME TypeOK, NEW r \in Requests, Distinct(order), r \notin Entries(order)
  PROVE  /\ Pushed(r) \in Seq(Requests)
         /\ Len(Pushed(r)) <= MaxItems
         /\ Distinct(Pushed(r))
         /\ r \notin Evicted(r)
         /\ Evicted(r) \subseteq Entries(order)
         /\ Entries(Pushed(r)) = (Entries(order) \ Evicted(r)) \cup {r}
  <1> DEFINE n == Len(order)
             m == IF n + 1 <= MaxItems THEN n + 1 ELSE MaxItems
             t == Pushed(r)
  <1>1. order \in Seq(Requests) /\ n \in Nat /\ n <= MaxItems /\ MaxItems \in Nat \ {0}
    BY CacheAssumption DEF TypeOK
  <1>2. /\ t \in Seq(Requests) /\ Len(t) = m
        /\ DOMAIN t = 1..m /\ DOMAIN order = 1..n
        /\ \A k \in 1..m : t[k] = IF k = 1 THEN r ELSE order[k - 1]
    BY <1>1 DEF Pushed
  <1>3. Evicted(r) = {order[k] : k \in m..n}
    BY <1>2 DEF Evicted
  <1> HIDE DEF t
  <1>4. m \in 1..MaxItems /\ m <= n + 1
    BY <1>1
  <1> HIDE DEF n, m
  <1>5. \A k \in m..n : k \in DOMAIN order
    BY <1>1, <1>2, <1>4
  <1>6. Evicted(r) \subseteq Entries(order) /\ r \notin Evicted(r)
    BY <1>3, <1>5 DEF Entries
  <1>7. Distinct(t)
    <2> SUFFICES ASSUME NEW i \in DOMAIN t, NEW k \in DOMAIN t, t[i] = t[k] PROVE i = k
      BY DEF Distinct
    <2>1. /\ i # 1 => i - 1 \in DOMAIN order /\ t[i] = order[i - 1] /\ t[i] \in Entries(order)
          /\ k # 1 => k - 1 \in DOMAIN order /\ t[k] = order[k - 1] /\ t[k] \in Entries(order)
      BY <1>1, <1>2, <1>4 DEF Entries
    <2>2. (i = 1 => t[i] = r) /\ (k = 1 => t[k] = r) /\ i \in Int /\ k \in Int
      BY <1>2, <1>4
    <2>3. (i = 1) = (k = 1)
      BY <2>1, <2>2
    <2>4. CASE i # 1
      <3>1. i - 1 = k - 1
        BY <2>1, <2>3, <2>4 DEF Distinct
      <3>2. QED
        BY <3>1, <2>2
    <2>5. QED
      BY <2>3, <2>4
  <1>8. ASSUME NEW k \in DOMAIN t PROVE t[k] \in (Entries(order) \ Evicted(r)) \cup {r}
    <2>1. CASE k = 1
      BY <2>1, <1>2
    <2>2. CASE k # 1
      <3>1. k - 1 \in DOMAIN order /\ t[k] = order[k - 1] /\ k - 1 < m
        BY <2>2, <1>1, <1>2, <1>4
      <3>2. \A i \in m..n : order[i] # order[k - 1]
        BY <3>1, <1>4, <1>5 DEF Distinct
      <3>3. QED
        BY <3>1, <3>2, <1>3 DEF Entries
    <2>3. QED
      BY <2>1, <2>2
  <1>9. ASSUME NEW k \in DOMAIN order, order[k] \notin Evicted(r) PROVE order[k] \in Entries(t)
    <2>1. k \in 1..n /\ k < m
      BY <1>2, <1>3, <1>4, <1>9
    <2>2. k + 1 \in DOMAIN t /\ t[k + 1] = order[k]
      BY <2>1, <1>1, <1>2, <1>4
    <2>3. QED
      BY <2>2 DEF Entries
  <1>10. 1 \in DOMAIN t /\ t[1] = r
    BY <1>2, <1>4
  <1>11. Entries(t) = (Entries(order) \ Evicted(r)) \cup {r}
    BY <1>8, <1>9, <1>10 DEF Entries
  <1>12. QED
    BY <1>2, <1>4, <1>6, <1>7, <1>11 DEF t

-------------------------------------------------------------------------------
(* The inductive invariant.                                                *)

IInv == TypeOK /\ OrderMatchesItems /\ OwnersRun /\ KeysMatch

Matched == Distinct(order) /\ \A e \in Requests : e \in Entries(order) <=> items[KeyOf[e]] = e

LEMMA MatchedIsOrderMatchesItems == Matched <=> OrderMatchesItems
  BY DEF Matched, OrderMatchesItems, Distinct, Entries

(* A step that leaves the list and the index alone leaves them in agreement. *)
LEMMA MatchedStays ==
  ASSUME Matched, order' = order, items' = items
  PROVE  Matched'
  BY DEF Matched, Distinct, Entries

LEMMA DropFacts ==
  ASSUME IInv, NEW k \in Keys, DropExpired(k)
  PROVE  /\ order' \in Seq(Requests) /\ Len(order') <= MaxItems
         /\ items' = [items EXCEPT ![k] = None]
         /\ items' \in [Keys -> Requests \cup {None}]
         /\ Matched'
  <1>1. TypeOK /\ Matched /\ KeysMatch
    BY MatchedIsOrderMatchesItems DEF IInv
  <1>2. items' = [items EXCEPT ![k] = None] /\ items' \in [Keys -> Requests \cup {None}]
    BY <1>1 DEF DropExpired, TypeOK
  <1>3. order \in Seq(Requests) /\ Len(order) <= MaxItems /\ MaxItems \in Nat
        /\ Distinct(order) /\ KeyOf \in [Requests -> Keys] /\ None \notin Requests
    BY <1>1, CacheAssumption DEF TypeOK, Matched
  <1>4. CASE items[k] = None
    <2>1. order' = order /\ items' = items
      BY <1>1, <1>2, <1>4 DEF DropExpired, TypeOK
    <2>2. Matched'
      BY <2>1, <1>1, MatchedStays
    <2>3. QED
      BY <2>1, <2>2, <1>2, <1>3
  <1>5. CASE items[k] # None
    <2> DEFINE e == items[k]
               i == Position(e)
    <2>1. e \in Requests /\ KeyOf[e] = k
      BY <1>1, <1>5 DEF TypeOK, KeysMatch
    <2>2. e \in Entries(order)
      BY <1>1, <2>1 DEF Matched
    <2>3. i \in DOMAIN order /\ order[i] = e
      BY <2>2 DEF Position, Entries
    <2>4. order' = RemoveAt(order, i)
      BY <1>5 DEF DropExpired
    <2> HIDE DEF i
    <2>5. /\ order' \in Seq(Requests) /\ Len(order') = Len(order) - 1
          /\ Distinct(order') /\ Entries(order') = Entries(order) \ {e}
      BY <1>3, <2>3, <2>4, RemoveAtFacts
    <2>6. Len(order') <= MaxItems
      BY <1>3, <2>5
    <2>7. ASSUME NEW x \in Requests PROVE x \in Entries(order') <=> items'[KeyOf[x]] = x
      <3>1. x \in Entries(order') <=> items[KeyOf[x]] = x /\ x # e
        BY <1>1, <2>5 DEF Matched
      <3>2. KeyOf[x] \in Keys /\ x # None
        BY <1>3
      <3>3. items'[KeyOf[x]] = IF KeyOf[x] = k THEN None ELSE items[KeyOf[x]]
        BY <1>1, <1>2, <3>2 DEF TypeOK
      <3>4. QED
        BY <2>1, <3>1, <3>2, <3>3
    <2>8. Matched'
      BY <2>5, <2>7, <1>3 DEF Matched, Distinct, Entries
    <2>9. QED
      BY <1>2, <2>5, <2>6, <2>8
  <1>6. QED
    BY <1>4, <1>5

LEMMA FinishFacts ==
  ASSUME IInv, NEW r \in Requests, Finish(r)
  PROVE  /\ r \notin expired /\ items[KeyOf[r]] = None
         /\ order' \in Seq(Requests) /\ Len(order') <= MaxItems
         /\ items' \in [Keys -> Requests \cup {None}]
         /\ items'[KeyOf[r]] = r
         /\ \A k \in Keys : k # KeyOf[r] => items'[k] \in {items[k], None}
         /\ Matched'
  <1> DEFINE K == KeyOf[r]
  <1>1. TypeOK /\ Matched /\ KeysMatch /\ OwnersRun
    BY MatchedIsOrderMatchesItems DEF IInv
  <1>2. KeyOf \in [Requests -> Keys] /\ None \notin Requests /\ K \in Keys
    BY CacheAssumption
  <1>3. pc[r] = "run" /\ order' = Pushed(r)
        /\ items' = [k \in Keys |-> IF \E e \in Evicted(r) : KeyOf[e] = k THEN None
                                    ELSE IF k = K THEN r ELSE items[k]]
    BY DEF Finish, Respond
  <1>4. inflight[K] = r /\ r \notin expired /\ items[K] = None
    BY <1>1, <1>2, <1>3 DEF OwnersRun, KeysMatch
  <1>5. r \notin Entries(order) /\ Distinct(order)
    BY <1>1, <1>2, <1>4 DEF Matched
  <1>6. /\ Pushed(r) \in Seq(Requests) /\ Len(Pushed(r)) <= MaxItems
        /\ Distinct(Pushed(r)) /\ Evicted(r) \subseteq Entries(order)
        /\ Entries(Pushed(r)) = (Entries(order) \ Evicted(r)) \cup {r}
    BY <1>1, <1>5, PushFacts
  <1>7. Evicted(r) \subseteq Requests
    BY <1>1, <1>6 DEF Entries, TypeOK
  <1>8. \A e \in Evicted(r) : items[KeyOf[e]] = e /\ KeyOf[e] # K
    BY <1>1, <1>2, <1>4, <1>6, <1>7 DEF Matched
  <1>9. items' \in [Keys -> Requests \cup {None}] /\ items'[K] = r
        /\ \A k \in Keys : k # K => items'[k] \in {items[k], None}
    BY <1>1, <1>2, <1>3, <1>8 DEF TypeOK
  <1>10. ASSUME NEW x \in Requests PROVE x \in Entries(order') <=> items'[KeyOf[x]] = x
    <2>1. x \in Entries(order') <=> (items[KeyOf[x]] = x /\ x \notin Evicted(r)) \/ x = r
      BY <1>1, <1>3, <1>6 DEF Matched
    <2>2. KeyOf[x] \in Keys /\ x # None
      BY <1>2
    <2>3. CASE KeyOf[x] = K
      BY <2>1, <2>2, <2>3, <1>4, <1>9
    <2>4. CASE KeyOf[x] # K
      <3>1. items'[KeyOf[x]] = IF \E e \in Evicted(r) : KeyOf[e] = KeyOf[x] THEN None ELSE items[KeyOf[x]]
        BY <1>3, <2>2, <2>4
      <3>2. items[KeyOf[x]] = x => ((\E e \in Evicted(r) : KeyOf[e] = KeyOf[x]) <=> x \in Evicted(r))
        BY <1>8
      <3>3. QED
        BY <2>1, <2>2, <2>4, <3>1, <3>2
    <2>5. QED
      BY <2>3, <2>4
  <1>11. Matched'
    BY <1>3, <1>6, <1>10, <1>2 DEF Matched, Distinct, Entries
  <1>12. QED
    BY <1>3, <1>4, <1>6, <1>9, <1>11

LEMMA Initially == Init => IInv
  <1> SUFFICES ASSUME Init PROVE IInv
    OBVIOUS
  <1>1. KeyOf \in [Requests -> Keys] /\ None \notin Requests /\ MaxItems \in Nat
    BY CacheAssumption
  <1>2. TypeOK
    BY <1>1 DEF Init, TypeOK
  <1>3. Matched
    BY <1>1 DEF Init, Matched, Distinct, Entries
  <1>4. OwnersRun
    BY <1>1 DEF Init, OwnersRun
  <1>5. KeysMatch
    BY <1>1 DEF Init, KeysMatch
  <1>6. QED
    BY <1>2, <1>3, <1>4, <1>5, MatchedIsOrderMatchesItems DEF IInv

LEMMA Inductive == IInv /\ [Next]_vars => IInv'
  <1> SUFFICES ASSUME IInv, [Next]_vars PROVE IInv'
    OBVIOUS
  <1>1. TypeOK /\ Matched /\ OwnersRun /\ KeysMatch
    BY MatchedIsOrderMatchesItems DEF IInv
  <1>2. /\ KeyOf \in [Requests -> Keys] /\ None \notin Requests
        /\ MaxItems \in Nat /\ \A r \in Requests : KeyOf[r] \in Keys
    BY CacheAssumption
  <1>3. SUFFICES TypeOK' /\ Matched' /\ OwnersRun' /\ KeysMatch'
    <2>1. Matched' => OrderMatchesItems'
      BY DEF Matched, OrderMatchesItems, Distinct, Entries
    <2>2. QED
      BY <2>1 DEF IInv
  <1>4. ASSUME NEW r \in Requests, Replay(r) PROVE TypeOK' /\ Matched' /\ OwnersRun' /\ KeysMatch'
    <2>1. Matched'
      BY <1>1, <1>4, MatchedStays DEF Replay
    <2>2. TypeOK'
      BY <1>1, <1>2, <1>4 DEF Replay, Go, TypeOK, Live
    <2>3. OwnersRun'
      BY <1>1, <1>2, <1>4 DEF Replay, Go, TypeOK, OwnersRun
    <2>4. KeysMatch'
      BY <1>1, <1>4 DEF Replay, KeysMatch
    <2>5. QED
      BY <2>1, <2>2, <2>3, <2>4
  <1>5. ASSUME NEW r \in Requests, Reserve(r) PROVE TypeOK' /\ Matched' /\ OwnersRun' /\ KeysMatch'
    <2>1. DropExpired(KeyOf[r])
      BY <1>5 DEF Reserve
    <2>2. /\ Matched' /\ order' \in Seq(Requests) /\ Len(order') <= MaxItems
          /\ items' = [items EXCEPT ![KeyOf[r]] = None]
          /\ items' \in [Keys -> Requests \cup {None}]
      BY <2>1, <1>2, DropFacts
    <2>3. TypeOK'
      BY <1>1, <1>2, <1>5, <2>2 DEF Reserve, Go, TypeOK
    <2>4. OwnersRun'
      BY <1>1, <1>2, <1>5, <2>2 DEF Reserve, Go, TypeOK, OwnersRun
    <2>5. KeysMatch'
      BY <1>1, <1>2, <1>5, <2>2 DEF Reserve, TypeOK, KeysMatch
    <2>6. QED
      BY <2>2, <2>3, <2>4, <2>5
  <1>6. ASSUME NEW r \in Requests, Wait(r) PROVE TypeOK' /\ Matched' /\ OwnersRun' /\ KeysMatch'
    <2>1. DropExpired(KeyOf[r])
      BY <1>6 DEF Wait
    <2>2. /\ Matched' /\ order' \in Seq(Requests) /\ Len(order') <= MaxItems
          /\ items' = [items EXCEPT ![KeyOf[r]] = None]
          /\ items' \in [Keys -> Requests \cup {None}]
      BY <2>1, <1>2, DropFacts
    <2>3. TypeOK'
      BY <1>1, <1>2, <1>6, <2>2 DEF Wait, Go, TypeOK
    <2>4. OwnersRun'
      BY <1>1, <1>2, <1>6, <2>2 DEF Wait, Go, TypeOK, OwnersRun
    <2>5. KeysMatch'
      BY <1>1, <1>2, <1>6, <2>2 DEF Wait, TypeOK, KeysMatch
    <2>6. QED
      BY <2>2, <2>3, <2>4, <2>5
  <1>7. ASSUME NEW r \in Requests, Wake(r) PROVE TypeOK' /\ Matched' /\ OwnersRun' /\ KeysMatch'
    <2>1. Matched'
      BY <1>1, <1>7, MatchedStays DEF Wake
    <2>2. TypeOK'
      BY <1>1, <1>7 DEF Wake, Go, TypeOK
    <2>3. OwnersRun'
      BY <1>1, <1>2, <1>7 DEF Wake, Go, TypeOK, OwnersRun
    <2>4. KeysMatch'
      BY <1>1, <1>7 DEF Wake, KeysMatch
    <2>5. QED
      BY <2>1, <2>2, <2>3, <2>4
  <1>8. ASSUME NEW r \in Requests, Finish(r) PROVE TypeOK' /\ Matched' /\ OwnersRun' /\ KeysMatch'
    <2>1. /\ r \notin expired
          /\ order' \in Seq(Requests) /\ Len(order') <= MaxItems
          /\ items' \in [Keys -> Requests \cup {None}]
          /\ items'[KeyOf[r]] = r
          /\ \A k \in Keys : k # KeyOf[r] => items'[k] \in {items[k], None}
          /\ Matched'
      BY <1>8, FinishFacts
    <2>2. TypeOK'
      BY <1>1, <1>2, <1>8, <2>1 DEF Finish, Respond, Release, Go, TypeOK
    <2>3. OwnersRun'
      BY <1>1, <1>2, <1>8, <2>1 DEF Finish, Respond, Release, Go, TypeOK, OwnersRun
    <2>4. KeysMatch'
      BY <1>1, <1>2, <1>8, <2>1 DEF Finish, Release, TypeOK, KeysMatch
    <2>5. QED
      BY <2>1, <2>2, <2>3, <2>4
  <1>9. ASSUME NEW r \in Requests, Abort(r) PROVE TypeOK' /\ Matched' /\ OwnersRun' /\ KeysMatch'
    <2>1. Matched'
      BY <1>1, <1>9, MatchedStays DEF Abort
    <2>2. TypeOK'
      BY <1>1, <1>2, <1>9 DEF Abort, Respond, Release, Go, TypeOK
    <2>3. OwnersRun'
      BY <1>1, <1>2, <1>9 DEF Abort, Respond, Release, Go, TypeOK, OwnersRun
    <2>4. KeysMatch'
      BY <1>1, <1>2, <1>9 DEF Abort, Release, TypeOK, KeysMatch
    <2>5. QED
      BY <2>1, <2>2, <2>3, <2>4
  <1>10. ASSUME NEW r \in Requests, Close(r) PROVE TypeOK' /\ Matched' /\ OwnersRun' /\ KeysMatch'
    <2>1. Matched'
      BY <1>1, <1>10, MatchedStays DEF Close
    <2>2. TypeOK'
      BY <1>1, <1>10 DEF Close, Go, TypeOK
    <2>3. OwnersRun'
      BY <1>1, <1>2, <1>10 DEF Close, Go, TypeOK, OwnersRun
    <2>4. KeysMatch'
      BY <1>1, <1>10 DEF Close, KeysMatch
    <2>5. QED
      BY <2>1, <2>2, <2>3, <2>4
  <1>11. ASSUME NEW r \in Requests, Panic(r) PROVE TypeOK' /\ Matched' /\ OwnersRun' /\ KeysMatch'
    <2>1. Matched'
      BY <1>1, <1>11, MatchedStays DEF Panic
    <2>2. TypeOK'
      BY <1>1, <1>11 DEF Panic, Go, TypeOK
    <2>3. OwnersRun'
      BY <1>1, <1>2, <1>11 DEF Panic, Go, TypeOK, OwnersRun
    <2>4. KeysMatch'
      BY <1>1, <1>11 DEF Panic, KeysMatch
    <2>5. QED
      BY <2>1, <2>2, <2>3, <2>4
  <1>12. ASSUME NEW r \in Requests, Expire(r) PROVE TypeOK' /\ Matched' /\ OwnersRun' /\ KeysMatch'
    <2>1. Matched'
      BY <1>1, <1>12, MatchedStays DEF Expire
    <2>2. TypeOK'
      BY <1>1, <1>12 DEF Expire, TypeOK
    <2>3. items[KeyOf[r]] = r
      BY <1>1, <1>12 DEF Expire, Matched, Entries
    <2>4. OwnersRun'
      BY <1>1, <1>2, <1>12, <2>3 DEF Expire, TypeOK, OwnersRun
    <2>5. KeysMatch'
      BY <1>1, <1>12 DEF Expire, KeysMatch
    <2>6. QED
      BY <2>1, <2>2, <2>4, <2>5
  <1>13. CASE UNCHANGED vars
    <2>1. Matched'
      BY <1>1, <1>13, MatchedStays DEF vars
    <2>2. TypeOK' /\ OwnersRun' /\ KeysMatch'
      BY <1>1, <1>13 DEF vars, TypeOK, OwnersRun, KeysMatch
    <2>3. QED
      BY <2>1, <2>2
  <1>14. QED
    BY <1>4, <1>5, <1>6, <1>7, <1>8, <1>9, <1>10, <1>11, <1>12, <1>13 DEF Next, Step, Over

THEOREM Invariance == Spec => []IInv
  BY Initially, Inductive, PTL DEF Spec

(* The cache never holds more than maxItems entries, and every table of it      *)
(* leads to requests (idempotency.go, finish).                                  *)
THEOREM TypeCorrect == Spec => []TypeOK
  BY Invariance, PTL DEF IInv

(* The list and the index of the cache agree, whatever expires, is evicted or   *)
(* is executed meanwhile (idempotency.go).                                      *)
THEOREM ListMatchesIndex == Spec => []OrderMatchesItems
  BY Invariance, PTL DEF IInv

-------------------------------------------------------------------------------
(* What an eviction takes out of the list: the oldest entry of a full one.      *)
LEMMA EvictedIsOldest ==
  ASSUME TypeOK, NEW r \in Requests, NEW e \in Evicted(r)
  PROVE  Len(order) = MaxItems /\ order[MaxItems] = e
  <1>1. order \in Seq(Requests) /\ Len(order) \in Nat /\ Len(order) <= MaxItems /\ MaxItems \in Nat \ {0}
    BY CacheAssumption DEF TypeOK
  <1>2. PICK i \in Len(Pushed(r))..Len(order) : e = order[i]
    BY DEF Evicted
  <1>3. PICK n, m : n = Len(order) /\ m = Len(Pushed(r))
    OBVIOUS
  <1>4. m = IF n + 1 <= MaxItems THEN n + 1 ELSE MaxItems
    BY <1>1, <1>3 DEF Pushed
  <1>5. i \in m..n /\ n \in Nat /\ n <= MaxItems
    BY <1>1, <1>2, <1>3
  <1>6. n = MaxItems /\ i = MaxItems
    BY <1>1, <1>4, <1>5
  <1>7. QED
    BY <1>2, <1>3, <1>6

LEMMA FinishEvictsOldest ==
  ASSUME IInv, NEW r \in Requests, Finish(r), NEW k \in Keys, Live(k), items'[k] # items[k]
  PROVE  Len(order) = MaxItems /\ order[MaxItems] = items[k] /\ order' # order
  <1>1. TypeOK /\ Matched
    BY MatchedIsOrderMatchesItems DEF IInv
  <1>2. items[KeyOf[r]] = None /\ Matched'
    BY FinishFacts
  <1>3. items[k] # None /\ k # KeyOf[r]
    BY <1>2 DEF Live
  <1>4. PICK e \in Evicted(r) : KeyOf[e] = k
    BY <1>3 DEF Finish
  <1>5. Len(order) = MaxItems /\ order[MaxItems] = e
    BY <1>1, EvictedIsOldest
  <1>6. r \notin Entries(order) /\ Distinct(order) /\ None \notin Requests
    BY <1>1, <1>2, CacheAssumption DEF Matched
  <1>7. Evicted(r) \subseteq Entries(order) /\ r \in Entries(Pushed(r))
    BY <1>1, <1>6, PushFacts
  <1>8. e \in Requests /\ e \in Entries(order)
    BY <1>1, <1>7 DEF Entries, TypeOK
  <1>9. items[k] = e
    BY <1>1, <1>4, <1>8 DEF Matched
  <1>10. order' # order
    BY <1>6, <1>7 DEF Finish
  <1>11. QED
    BY <1>5, <1>9, <1>10

LEMMA StepEvictsOldest ==
  ASSUME IInv, [Next]_vars, NEW k \in Keys, Live(k), items'[k] # items[k]
  PROVE  Len(order) = MaxItems /\ order[MaxItems] = items[k] /\ order' # order
  <1>1. ASSUME NEW r \in Requests, Reserve(r) \/ Wait(r) PROVE FALSE
    <2>1. ~ Live(KeyOf[r]) /\ items' = [items EXCEPT ![KeyOf[r]] = None]
      BY <1>1 DEF Reserve, Wait, DropExpired
    <2>2. items \in [Keys -> Requests \cup {None}]
      BY DEF IInv, TypeOK
    <2>3. k # KeyOf[r] /\ items'[k] = items[k]
      BY <2>1, <2>2
    <2>4. QED
      BY <2>3
  <1>2. ASSUME NEW r \in Requests, Finish(r)
        PROVE  Len(order) = MaxItems /\ order[MaxItems] = items[k] /\ order' # order
    BY <1>2, FinishEvictsOldest
  <1>3. QED
    BY <1>1, <1>2
    DEF Next, Step, Over, vars, Replay, Wake, Abort, Close, Panic, Expire

(* A response that has not expired is given up only by a full cache, the oldest *)
(* first and for a newer one (idempotency.go, finish).                          *)
THEOREM EvictionIsOldestFirst == Spec => EvictsOldestWhenFull
  <1> DEFINE Oldest == \A k \in Keys : Live(k) /\ items'[k] # items[k] =>
        Len(order) = MaxItems /\ order[MaxItems] = items[k] /\ order' # order
  <1>1. IInv /\ [Next]_vars => [Oldest]_vars
    BY StepEvictsOldest
  <1>2. QED
    BY <1>1, Invariance, PTL DEF Spec, EvictsOldestWhenFull

-------------------------------------------------------------------------------
(* The cache implements the register.                                      *)

LEMMA RefinesInit == Init => Register!RegisterInit
  BY DEF Init, Register!RegisterInit, Answer, Live

(* Dropping an expired entry changes no answer.                             *)
LEMMA DropHidesNothing ==
  ASSUME IInv, NEW k \in Keys, DropExpired(k), ~ Live(k), expired' = expired
  PROVE  Answer' = Answer
  <1>1. items' = [items EXCEPT ![k] = None] /\ items \in [Keys -> Requests \cup {None}]
    BY DropFacts DEF IInv, TypeOK
  <1>2. \A x \in Keys : (IF Live(x) THEN items[x] ELSE None)' = IF Live(x) THEN items[x] ELSE None
    BY <1>1 DEF Live
  <1>3. QED
    BY <1>2 DEF Answer

LEMMA RefinesStep == IInv /\ [Next]_vars => [Register!RegisterNext]_Register!rvars
  <1> SUFFICES ASSUME IInv, [Next]_vars PROVE [Register!RegisterNext]_Register!rvars
    OBVIOUS
  <1>1. TypeOK /\ Matched /\ OwnersRun /\ KeysMatch
    BY MatchedIsOrderMatchesItems DEF IInv
  <1>2. None \notin Requests /\ \A r \in Requests : KeyOf[r] \in Keys
    BY CacheAssumption
  <1>3. ASSUME NEW r \in Requests, Replay(r) PROVE Register!RegisterNext
    <2>1. Register!ReplayAnswer(r)
      BY <1>1, <1>2, <1>3 DEF Replay, Register!ReplayAnswer, Answer, Live, OwnersRun
    <2>2. QED
      BY <2>1 DEF Register!RegisterNext
  <1>4. ASSUME NEW r \in Requests, Reserve(r) PROVE Register!RegisterNext
    <2>1. Answer' = Answer
      BY <1>2, <1>4, DropHidesNothing DEF Reserve
    <2>2. Register!ExecuteRequest(r)
      BY <1>1, <1>2, <1>4, <2>1 DEF Reserve, Register!ExecuteRequest, Answer, OwnersRun
    <2>3. QED
      BY <2>2 DEF Register!RegisterNext
  <1>5. ASSUME NEW r \in Requests, Wait(r) PROVE UNCHANGED Register!rvars
    <2>1. Answer' = Answer
      BY <1>2, <1>5, DropHidesNothing DEF Wait
    <2>2. QED
      BY <2>1, <1>5 DEF Wait, Register!rvars
  <1>6. ASSUME NEW r \in Requests, Wake(r) \/ Close(r) \/ Panic(r) PROVE UNCHANGED Register!rvars
    BY <1>6 DEF Wake, Close, Panic, Register!rvars, Answer, Live
  <1>7. ASSUME NEW r \in Requests, Finish(r) PROVE Register!RegisterNext
    <2>1. /\ r \notin expired /\ items'[KeyOf[r]] = r
          /\ \A k \in Keys : k # KeyOf[r] => items'[k] \in {items[k], None}
      BY <1>7, FinishFacts
    <2> DEFINE S == {k \in Keys : items'[k] = None}
    <2>2. expired' = expired /\ r # None
      BY <1>2, <1>7 DEF Finish
    <2>3. ASSUME NEW k \in Keys
          PROVE  Answer'[k] = IF k = KeyOf[r] THEN r ELSE IF k \in S THEN None ELSE Answer[k]
      BY <2>1, <2>2 DEF Answer, Live
    <2>4. Answer' = [Register!Without(S) EXCEPT ![KeyOf[r]] = r]
      BY <2>3, <1>2 DEF Register!Without, Answer
    <2>5. Register!Return(r) /\ failed' = failed
      BY <1>1, <1>7 DEF Finish, Respond, Release, Register!Return, OwnersRun
    <2>6. S \in SUBSET Keys
      OBVIOUS
    <2>7. Register!Succeed(r)
      BY <2>4, <2>5, <2>6 DEF Register!Succeed
    <2>8. QED
      BY <2>7 DEF Register!RegisterNext
  <1>8. ASSUME NEW r \in Requests, Abort(r) PROVE Register!RegisterNext
    <2>1. Register!Fail(r)
      BY <1>1, <1>8 DEF Abort, Respond, Release, Register!Fail, Register!Return, OwnersRun, Answer, Live
    <2>2. QED
      BY <2>1 DEF Register!RegisterNext
  <1>9. ASSUME NEW r \in Requests, Expire(r) PROVE Register!RegisterNext
    <2> DEFINE S == {k \in Keys : items[k] = r}
    <2>1. Answer' = Register!Without(S)
      BY <1>9 DEF Expire, Answer, Live, Register!Without
    <2>2. S \in SUBSET Keys
      OBVIOUS
    <2>3. Register!Forget
      BY <2>1, <2>2, <1>9 DEF Expire, Register!Forget
    <2>4. QED
      BY <2>3 DEF Register!RegisterNext
  <1>10. CASE UNCHANGED vars
    BY <1>10 DEF vars, Register!rvars, Answer, Live
  <1>11. QED
    BY <1>3, <1>4, <1>5, <1>6, <1>7, <1>8, <1>9, <1>10 DEF Next, Step, Over

(* Requests with the same key execute one at a time, a response answers every   *)
(* later request until it expires or is evicted, and a server error is never    *)
(* replayed (withIdempotency).                                                  *)
THEOREM CacheImplementsRegister == Spec => Refines
  <1>1. Spec => Register!RegisterInit /\ [][Register!RegisterNext]_Register!rvars
    BY RefinesInit, RefinesStep, Invariance, PTL DEF Spec
  <1>2. QED
    BY <1>1 DEF Refines, Register!RegisterSpec

===============================================================================
