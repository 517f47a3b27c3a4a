----------------------------- MODULE StoreProofs -----------------------------
(* What each operation of Store does to the map, the file and the pending    *)
(* writes, stated for any store: the modules that hold one instantiate this  *)
(* module beside it.                                                         *)
EXTENDS Store, TLAPS, SequenceTheorems

Maps(Values) == [Keys -> Values \cup {Nothing}]
Write(Values, Tasks) == [map : Maps(Values), task : Tasks]

StoreInv(Values, Tasks) ==
  /\ mem \in Maps(Values)
  /\ disk \in Maps(Values)
  /\ lost \in BOOLEAN
  /\ writes \in Seq(Write(Values, Tasks))

-----------------------------------------------------------------------------
(* The queue of pending writes.                                              *)

(* q2 is q without its element d, in the same order. *)
Without(q2, q, d) ==
  \A i, j \in DOMAIN q2 : i <= j =>
    \E k, l \in DOMAIN q \ {d} :
      k <= l /\ q2[i] = q[k] /\ q2[j] = q[l] /\ (i < j => k < l)

(* q2 is q with e behind it. *)
Longer(q2, q, e) ==
  \A i, j \in DOMAIN q2 : i <= j =>
    \/ i \in DOMAIN q /\ j \in DOMAIN q /\ q2[i] = q[i] /\ q2[j] = q[j]
    \/ i \in DOMAIN q /\ i < j /\ q2[i] = q[i] /\ q2[j] = e
    \/ i = j /\ q2[i] = e

(* Append puts its element behind the others and leaves them alone. *)
LEMMA AppendQueue ==
  ASSUME NEW S, NEW q \in Seq(S), NEW e \in S
  PROVE  Append(q, e) \in Seq(S) /\ Longer(Append(q, e), q, e)
<1> DEFINE r == Append(q, e)
           n == Len(q)
<1>1. /\ n \in Nat /\ DOMAIN q = 1 .. n
      /\ r \in Seq(S) /\ DOMAIN r = 1 .. n + 1
      /\ \A i \in 1 .. n : r[i] = q[i]
      /\ r[n + 1] = e
  BY AppendProperties, LenProperties
<1> HIDE DEF r, n
<1>2. Longer(r, q, e)
  BY <1>1 DEF Longer
<1> QED  BY <1>1, <1>2 DEF r

(* Tail takes the oldest write out and keeps the order of the others. *)
LEMMA TailQueue ==
  ASSUME NEW S, NEW q \in Seq(S), q # <<>>
  PROVE  /\ Tail(q) \in Seq(S) /\ Without(Tail(q), q, 1)
         /\ 1 \in DOMAIN q /\ Head(q) = q[1]
<1>1. /\ DOMAIN q = 1 .. Len(q) /\ Len(q) \in Nat \ {0}
      /\ DOMAIN Tail(q) = 1 .. Len(q) - 1
      /\ Tail(q) \in Seq(S)
      /\ \A i \in 1 .. Len(q) - 1 : Tail(q)[i] = q[i + 1]
      /\ Head(q) = q[1]
  BY HeadTailProperties, LenProperties, EmptySeq
<1>2. ASSUME NEW i \in DOMAIN Tail(q), NEW j \in DOMAIN Tail(q), i <= j
      PROVE  /\ i + 1 \in DOMAIN q \ {1} /\ j + 1 \in DOMAIN q \ {1} /\ i + 1 <= j + 1
             /\ Tail(q)[i] = q[i + 1] /\ Tail(q)[j] = q[j + 1] /\ (i < j => i + 1 < j + 1)
  BY <1>1, <1>2
<1>3. 1 \in DOMAIN q
  BY <1>1
<1> QED  BY <1>1, <1>2, <1>3, Zenon DEF Without

(* RemoveAt takes the element d out; those behind it move up. *)
LEMMA RemovePlaces ==
  ASSUME NEW S, NEW q \in Seq(S), NEW d \in DOMAIN q
  PROVE  /\ RemoveAt(q, d) \in Seq(S) /\ Len(RemoveAt(q, d)) = Len(q) - 1
         /\ DOMAIN RemoveAt(q, d) = 1 .. Len(q) - 1
         /\ \A i \in 1 .. Len(q) - 1 : RemoveAt(q, d)[i] = q[IF i < d THEN i ELSE i + 1]
<1>1. DOMAIN q = 1 .. Len(q) /\ Len(q) \in Nat /\ \A i \in 1 .. Len(q) : q[i] \in S
  BY LenProperties, ElementOfSeq
<1> DEFINE x == SubSeq(q, 1, d - 1)
           y == SubSeq(q, d + 1, Len(q))
           n == Len(q)
<1>2. /\ x \in Seq(S) /\ Len(x) = d - 1
      /\ \A i \in 1 .. d - 1 : x[i] = q[i]
  <2>1. \A i \in 1 .. d - 1 : q[i] \in S
    BY <1>1
  <2>2. /\ x \in Seq(S)
        /\ Len(x) = IF 1 <= d - 1 THEN (d - 1) - 1 + 1 ELSE 0
        /\ \A i \in 1 .. (d - 1) - 1 + 1 : x[i] = q[1 + i - 1]
    BY <1>1, <2>1, SubSeqProperties
  <2> HIDE DEF x
  <2> QED  BY <1>1, <2>2
<1>3. n \in Nat /\ d \in 1 .. n /\ DOMAIN q = 1 .. n
  BY <1>1
<1>4. /\ y \in Seq(S) /\ Len(y) = n - d
      /\ \A i \in 1 .. n - d : y[i] = q[d + i]
  <2>1. \A i \in d + 1 .. n : q[i] \in S
    BY <1>1
  <2>2. /\ y \in Seq(S)
        /\ Len(y) = IF d + 1 <= n THEN n - (d + 1) + 1 ELSE 0
        /\ \A i \in 1 .. n - (d + 1) + 1 : y[i] = q[(d + 1) + i - 1]
    BY <1>1, <2>1, SubSeqProperties
  <2> HIDE DEF y, n
  <2>3. n - (d + 1) + 1 = n - d /\ (~(d + 1 <= n) => n - d = 0)
    BY <1>3
  <2>4. \A i \in 1 .. n - d : (d + 1) + i - 1 = d + i
    BY <1>3
  <2> QED  BY <2>2, <2>3, <2>4
<1> HIDE DEF x, y, n
<1> DEFINE r == x \o y
           F(i) == IF i < d THEN i ELSE i + 1
<1>5. /\ r \in Seq(S) /\ Len(r) = Len(x) + Len(y)
      /\ \A i \in 1 .. Len(x) + Len(y) : r[i] = IF i <= Len(x) THEN x[i] ELSE y[i - Len(x)]
  BY <1>2, <1>4, ConcatProperties
<1> HIDE DEF r
<1>6. Len(r) = n - 1 /\ Len(x) + Len(y) = n - 1
  BY <1>2, <1>3, <1>4, <1>5
<1>7. DOMAIN r = 1 .. n - 1
  BY <1>5, <1>6, LenProperties
<1>8. ASSUME NEW i \in DOMAIN r  PROVE r[i] = q[F(i)]
  <2>1. CASE i < d
    BY <1>2, <1>3, <1>5, <1>6, <1>7, <2>1
  <2>2. CASE ~(i < d)
    <3>1. i - (d - 1) \in 1 .. n - d /\ d + (i - (d - 1)) = i + 1 /\ ~(i <= Len(x))
      BY <1>2, <1>3, <1>7, <2>2
    <3>2. r[i] = y[i - (d - 1)]
      BY <1>2, <1>5, <1>6, <1>7, <3>1
    <3> QED  BY <1>3, <1>4, <1>7, <2>2, <3>1, <3>2
  <2> QED  BY <2>1, <2>2
<1>9. \A i \in 1 .. n - 1 : r[i] = q[IF i < d THEN i ELSE i + 1]
  BY <1>7, <1>8
<1> HIDE DEF F
<1>10. RemoveAt(q, d) = r
  BY DEF RemoveAt, r, x, y, n
<1> QED  BY <1>5, <1>6, <1>7, <1>9, <1>10 DEF n

(* What is left keeps its order. *)
LEMMA RemoveQueue ==
  ASSUME NEW S, NEW q \in Seq(S), NEW d \in DOMAIN q
  PROVE  RemoveAt(q, d) \in Seq(S) /\ Without(RemoveAt(q, d), q, d)
<1> DEFINE r == RemoveAt(q, d)
           n == Len(q)
           F(i) == IF i < d THEN i ELSE i + 1
<1>1. /\ n \in Nat /\ DOMAIN q = 1 .. n /\ d \in 1 .. n
      /\ r \in Seq(S) /\ DOMAIN r = 1 .. n - 1
      /\ \A i \in 1 .. n - 1 : r[i] = q[F(i)]
  BY RemovePlaces, LenProperties
<1> HIDE DEF r, n
<1>2. ASSUME NEW i \in DOMAIN r  PROVE F(i) \in DOMAIN q \ {d} /\ r[i] = q[F(i)]
  BY <1>1
<1>3. ASSUME NEW i \in DOMAIN r, NEW j \in DOMAIN r, i <= j
      PROVE  F(i) <= F(j) /\ (i < j => F(i) < F(j))
  BY <1>1, <1>3
<1> HIDE DEF F
<1> QED  BY <1>1, <1>2, <1>3 DEF Without, r

-----------------------------------------------------------------------------
(* What is under way to the file, for one key.                               *)

(* What the file is to hold after the first i writes of q. *)
Held(q, d, i) == IF i = 0 THEN d ELSE q[i].map

(* The file d will come to hold the value of k in m, but for writes at the   *)
(* end of q that t awaits: whatever becomes of those, the value is the same. *)
Synced(q, d, m, k, t) ==
  \A i \in 0 .. Len(q) :
    (\A j \in i + 1 .. Len(q) : q[j].task = t) => Held(q, d, i)[k] = m[k]

(* A write of the map m2 goes behind the others. *)
LEMMA SyncedAppend ==
  ASSUME NEW S, NEW q \in Seq(S), NEW e \in S, NEW d, NEW m, NEW m2, NEW k, NEW t,
         e.map = m2,
         e.task # t \/ (Synced(q, d, m, k, t) /\ m2[k] = m[k])
  PROVE  Synced(Append(q, e), d, m2, k, t)
<1> DEFINE r == Append(q, e)
           n == Len(q)
<1>1. /\ n \in Nat /\ Len(r) = n + 1
      /\ \A i \in 1 .. n : r[i] = q[i]
      /\ r[n + 1] = e
  BY AppendProperties, LenProperties
<1> HIDE DEF r
<1>2. SUFFICES ASSUME NEW i \in 0 .. n + 1, \A j \in i + 1 .. n + 1 : r[j].task = t
               PROVE  Held(r, d, i)[k] = m2[k]
  BY <1>1 DEF Synced, r
<1>3. CASE i = n + 1
  BY <1>1, <1>3 DEF Held
<1>4. CASE i # n + 1
  <2>1. i \in 0 .. n /\ n + 1 \in i + 1 .. n + 1
    BY <1>1, <1>2, <1>4
  <2>2. e.task = t
    BY <1>1, <1>2, <2>1
  <2>3. Synced(q, d, m, k, t) /\ m2[k] = m[k]
    BY <2>2
  <2>4. \A j \in i + 1 .. n : q[j].task = t
    BY <1>1, <1>2, <2>1
  <2>5. Held(q, d, i)[k] = m[k]
    BY <2>1, <2>3, <2>4 DEF Synced
  <2>6. Held(r, d, i) = Held(q, d, i)
    BY <1>1, <2>1 DEF Held
  <2> QED  BY <2>3, <2>5, <2>6
<1> QED  BY <1>3, <1>4

(* The oldest write becomes the file. *)
LEMMA SyncedTail ==
  ASSUME NEW S, NEW q \in Seq(S), q # <<>>, NEW d, NEW m, NEW k, NEW t,
         Synced(q, d, m, k, t)
  PROVE  Synced(Tail(q), Head(q).map, m, k, t)
<1> DEFINE r == Tail(q)
           n == Len(q)
           f == Head(q).map
<1>1. /\ n \in Nat \ {0} /\ Len(r) = n - 1
      /\ \A i \in 1 .. n - 1 : r[i] = q[i + 1]
      /\ f = q[1].map
  BY HeadTailProperties, LenProperties, EmptySeq
<1> HIDE DEF r, f
<1>2. SUFFICES ASSUME NEW i \in 0 .. n - 1, \A j \in i + 1 .. n - 1 : r[j].task = t
               PROVE  Held(r, f, i)[k] = m[k]
  BY <1>1 DEF Synced, r, f
<1>3. i + 1 \in 0 .. n /\ i + 1 # 0
  BY <1>1, <1>2
<1>4. ASSUME NEW j \in (i + 1) + 1 .. n  PROVE q[j].task = t
  <2>1. j - 1 \in i + 1 .. n - 1 /\ j - 1 \in 1 .. n - 1 /\ (j - 1) + 1 = j
    BY <1>1, <1>2, <1>4
  <2> QED  BY <1>1, <1>2, <2>1
<1>5. Held(q, d, i + 1)[k] = m[k]
  BY <1>3, <1>4 DEF Synced
<1>6. Held(r, f, i) = Held(q, d, i + 1)
  BY <1>1, <1>2, <1>3 DEF Held
<1> QED  BY <1>5, <1>6

(* One of t's writes is lost. *)
LEMMA SyncedRemove ==
  ASSUME NEW S, NEW q \in Seq(S), NEW x \in DOMAIN q, NEW d, NEW m, NEW k, NEW t,
         q[x].task = t, Synced(q, d, m, k, t)
  PROVE  Synced(RemoveAt(q, x), d, m, k, t)
<1> DEFINE r == RemoveAt(q, x)
           n == Len(q)
<1>1. /\ n \in Nat /\ x \in 1 .. n /\ Len(r) = n - 1
      /\ \A i \in 1 .. n - 1 : r[i] = q[IF i < x THEN i ELSE i + 1]
  BY RemovePlaces, LenProperties
<1> HIDE DEF r
<1>2. SUFFICES ASSUME NEW i \in 0 .. n - 1, \A j \in i + 1 .. n - 1 : r[j].task = t
               PROVE  Held(r, d, i)[k] = m[k]
  BY <1>1 DEF Synced, r
<1> DEFINE g == IF i < x THEN i ELSE i + 1
<1>3. g \in 0 .. n
  BY <1>1
<1>4. ASSUME NEW j \in g + 1 .. n, j # x  PROVE q[j].task = t
  <2> DEFINE p == IF j < x THEN j ELSE j - 1
  <2>1. p \in i + 1 .. n - 1 /\ p \in 1 .. n - 1 /\ (IF p < x THEN p ELSE p + 1) = j
    BY <1>1, <1>4
  <2> HIDE DEF p
  <2>2. r[p] = q[j]
    BY <1>1, <2>1
  <2> QED  BY <1>2, <2>1, <2>2
<1>5. Held(q, d, g)[k] = m[k]
  <2>1. \A j \in g + 1 .. n : q[j].task = t
    BY <1>4
  <2> HIDE DEF g
  <2> QED  BY <1>3, <2>1 DEF Synced
<1>6. Held(r, d, i) = Held(q, d, g)
  BY <1>1, <1>2 DEF Held
<1> QED  BY <1>5, <1>6

-----------------------------------------------------------------------------
(* The operations.                                                           *)

(* A store never written satisfies the invariant. *)
LEMMA StoreInitOK ==
  ASSUME NEW Values, NEW Tasks, StoreInit
  PROVE  StoreInv(Values, Tasks)
BY EmptySeq DEF StoreInit, StoreInv, Maps, Blank

(* Every pending write carries a whole map. *)
LEMMA WriteOK ==
  ASSUME NEW Values, NEW Tasks, StoreInv(Values, Tasks), NEW i \in DOMAIN writes
  PROVE  writes[i].map \in Maps(Values) /\ writes[i].task \in Tasks
<1>1. writes \in Seq(Write(Values, Tasks))
  BY DEF StoreInv
<1>2. i \in 1 .. Len(writes)
  BY <1>1, LenProperties
<1>3. writes[i] \in Write(Values, Tasks)
  BY <1>1, <1>2, ElementOfSeq
<1> QED  BY <1>3 DEF Write

(* The invariant is at least what Store itself calls OK. *)
LEMMA StoreInvOK ==
  ASSUME NEW Values, NEW Tasks, StoreInv(Values, Tasks)
  PROVE  StoreOK(Values)
BY WriteOK, Zenon DEF StoreInv, StoreOK, Maps

(* setItem and deleteItem change one key and put a write at the end. *)
LEMMA SetItemStep ==
  ASSUME NEW Values, NEW Tasks, StoreInv(Values, Tasks),
         NEW k \in Keys, NEW v \in Values \cup {Nothing}, NEW t \in Tasks,
         SetItem(k, v, t)
  PROVE  /\ StoreInv(Values, Tasks)'
         /\ mem'[k] = v /\ \A l \in Keys \ {k} : mem'[l] = mem[l]
         /\ disk' = disk
         /\ Longer(writes', writes, [map |-> mem', task |-> t])
<1>1. mem' \in Maps(Values) /\ mem'[k] = v /\ \A l \in Keys \ {k} : mem'[l] = mem[l]
  BY DEF StoreInv, SetItem, Maps
<1>2. [map |-> mem', task |-> t] \in Write(Values, Tasks)
  BY <1>1 DEF Write
<1>3. writes' = Append(writes, [map |-> mem', task |-> t])
  BY DEF SetItem
<1>4. /\ writes' \in Seq(Write(Values, Tasks))
      /\ Longer(writes', writes, [map |-> mem', task |-> t])
  BY <1>2, <1>3, AppendQueue DEF StoreInv
<1> QED  BY <1>1, <1>4 DEF StoreInv, SetItem

(* The oldest write becomes the file. *)
LEMMA WrittenStep ==
  ASSUME NEW Values, NEW Tasks, StoreInv(Values, Tasks), NEW t, Written(t)
  PROVE  /\ StoreInv(Values, Tasks)'
         /\ 1 \in DOMAIN writes /\ writes[1].task = t
         /\ disk' = writes[1].map /\ mem' = mem
         /\ Without(writes', writes, 1)
<1>1. /\ writes' \in Seq(Write(Values, Tasks)) /\ Without(writes', writes, 1)
      /\ 1 \in DOMAIN writes /\ Head(writes) = writes[1]
  BY TailQueue DEF StoreInv, Written
<1>2. writes[1].map \in Maps(Values)
  BY <1>1, WriteOK
<1> QED  BY <1>1, <1>2 DEF StoreInv, Written

(* The same, and the task that awaited it sets a key at once. *)
LEMMA WrittenThenSetStep ==
  ASSUME NEW Values, NEW Tasks, StoreInv(Values, Tasks),
         NEW k \in Keys, NEW v \in Values \cup {Nothing}, NEW t \in Tasks,
         WrittenThenSet(t, k, v)
  PROVE  /\ StoreInv(Values, Tasks)'
         /\ 1 \in DOMAIN writes /\ writes[1].task = t
         /\ disk' = writes[1].map
         /\ mem'[k] = v /\ \A l \in Keys \ {k} : mem'[l] = mem[l]
         /\ Without(Tail(writes), writes, 1)
         /\ Longer(writes', Tail(writes), [map |-> mem', task |-> t])
<1>1. /\ Tail(writes) \in Seq(Write(Values, Tasks)) /\ Without(Tail(writes), writes, 1)
      /\ 1 \in DOMAIN writes /\ Head(writes) = writes[1]
  BY TailQueue DEF StoreInv, WrittenThenSet
<1>2. writes[1].map \in Maps(Values)
  BY <1>1, WriteOK
<1>3. mem' \in Maps(Values) /\ mem'[k] = v /\ \A l \in Keys \ {k} : mem'[l] = mem[l]
  BY DEF StoreInv, WrittenThenSet, Maps
<1>4. [map |-> mem', task |-> t] \in Write(Values, Tasks)
  BY <1>3 DEF Write
<1>5. writes' = Append(Tail(writes), [map |-> mem', task |-> t])
  BY DEF WrittenThenSet
<1>6. /\ writes' \in Seq(Write(Values, Tasks))
      /\ Longer(writes', Tail(writes), [map |-> mem', task |-> t])
  BY <1>1, <1>4, <1>5, AppendQueue
<1> QED  BY <1>1, <1>2, <1>3, <1>6 DEF StoreInv, WrittenThenSet

(* A write that fails is dropped; map and file stay. *)
LEMMA WriteFailsStep ==
  ASSUME NEW Values, NEW Tasks, StoreInv(Values, Tasks), NEW t, WriteFails(t)
  PROVE  /\ StoreInv(Values, Tasks)'
         /\ disk' = disk /\ mem' = mem
         /\ \E d \in DOMAIN writes : writes[d].task = t /\ Without(writes', writes, d)
<1>1. PICK d \in DOMAIN writes :
        /\ writes[d].task = t
        /\ writes' = RemoveAt(writes, d)
        /\ lost' = (lost \/ d = Len(writes))
        /\ UNCHANGED <<mem, disk>>
  BY DEF WriteFails
<1>2. writes' \in Seq(Write(Values, Tasks)) /\ Without(writes', writes, d)
  BY <1>1, RemoveQueue DEF StoreInv
<1>3. lost' \in BOOLEAN
  BY <1>1, Zenon DEF StoreInv
<1> QED  BY <1>1, <1>2, <1>3 DEF StoreInv

(* A new process finds the file. *)
LEMMA ReloadStep ==
  ASSUME NEW Values, NEW Tasks, StoreInv(Values, Tasks), Reload
  PROVE  /\ StoreInv(Values, Tasks)'
         /\ mem' = disk /\ disk' = disk /\ DOMAIN writes' = {}
<1>1. writes' \in Seq(Write(Values, Tasks)) /\ DOMAIN writes' = {}
  BY EmptySeq, LenProperties DEF Reload
<1> QED  BY <1>1 DEF StoreInv, Reload
=============================================================================
