----------------------------- MODULE ListProofs -----------------------------
(* Theorems about the three lists the app keeps in a store, for any contents *)
(* and bounds: the notifications, the words searched for and the bookmarks.  *)
(* Each store is a queue of writes and the file they go to, so the lemmas on *)
(* such a queue come first and serve the three.                              *)
EXTENDS Notifications, Search, Wishlist, TLAPS, SequenceTheorems

FP == INSTANCE StoreProofs WITH
        Keys <- {"notifications", "message-id"}, Nothing <- NoValue,
        mem <- Mem, disk <- file, writes <- fileWrites, lost <- fileLost

-----------------------------------------------------------------------------
(* A queue of pending writes, and the file they go to, for any store.        *)

(* The file holds the map m, or will once the newest write has ended.        *)
SyncOK(q, d, l, m) == ~l => (IF q = <<>> THEN d ELSE q[Len(q)].map) = m

(* q2 is q without its element d.                                            *)
Dropped(T, q2, q, d) ==
  /\ q2 \in Seq(T) /\ Len(q2) = Len(q) - 1
  /\ \A i \in 1 .. Len(q) - 1 : q2[i] = q[IF i < d THEN i ELSE i + 1]

LEMMA SeqIs ==
  ASSUME NEW T, NEW q \in Seq(T)
  PROVE  /\ Len(q) \in Nat /\ DOMAIN q = 1 .. Len(q) /\ \A i \in DOMAIN q : q[i] \in T
         /\ q = <<>> <=> Len(q) = 0
<1>1. Len(q) \in Nat /\ DOMAIN q = 1 .. Len(q) /\ \A i \in DOMAIN q : q[i] \in T
  BY LenProperties
<1>2. q = <<>> <=> Len(q) = 0
  BY EmptySeq
<1> QED  BY <1>1, <1>2

LEMMA TailDropped ==
  ASSUME NEW T, NEW q \in Seq(T), q # <<>>
  PROVE  Dropped(T, Tail(q), q, 1) /\ 1 \in DOMAIN q /\ Head(q) = q[1]
<1>1. /\ Tail(q) \in Seq(T) /\ Len(Tail(q)) = Len(q) - 1
      /\ \A i \in 1 .. Len(q) - 1 : Tail(q)[i] = q[i + 1]
      /\ Head(q) = q[1]
  BY HeadTailProperties, SeqIs
<1>2. 1 \in DOMAIN q /\ \A i \in 1 .. Len(q) - 1 : ~(i < 1)
  BY SeqIs
<1> QED  BY <1>1, <1>2 DEF Dropped

LEMMA RemovedDropped ==
  ASSUME NEW T, NEW q \in Seq(T), NEW d \in DOMAIN q
  PROVE  Dropped(T, RemoveAt(q, d), q, d)
<1>1. RemoveAt(q, d) = FP!RemoveAt(q, d)
  BY DEF RemoveAt, FP!RemoveAt
<1> QED  BY <1>1, FP!RemovePlaces DEF Dropped

(* Where the elements of a shorter queue were.                               *)
LEMMA DroppedPlaces ==
  ASSUME NEW T, NEW q \in Seq(T), NEW q2, NEW d \in DOMAIN q, Dropped(T, q2, q, d)
  PROVE  /\ \A i \in DOMAIN q2 : \E k \in DOMAIN q \ {d} : q2[i] = q[k]
         /\ \A i, j \in DOMAIN q2 : i < j =>
              \E k, l \in DOMAIN q \ {d} : k < l /\ q2[i] = q[k] /\ q2[j] = q[l]
         /\ \A k \in DOMAIN q \ {d} : \E i \in DOMAIN q2 : q2[i] = q[k]
<1> DEFINE F(i) == IF i < d THEN i ELSE i + 1
<1>1. /\ DOMAIN q = 1 .. Len(q) /\ Len(q) \in Nat
      /\ DOMAIN q2 = 1 .. Len(q) - 1
  BY SeqIs DEF Dropped
<1>2. \A i \in DOMAIN q2 : F(i) \in DOMAIN q \ {d} /\ q2[i] = q[F(i)]
  BY <1>1 DEF Dropped
<1>3. \A i, j \in DOMAIN q2 : i < j => F(i) < F(j)
  BY <1>1
<1>4. ASSUME NEW k \in DOMAIN q \ {d}  PROVE \E i \in DOMAIN q2 : k = F(i)
  <2>1. CASE k < d
    <3>1. k \in DOMAIN q2 /\ k = F(k)
      BY <1>1, <2>1
    <3> QED  BY <3>1
  <2>2. CASE ~(k < d)
    <3>1. k - 1 \in DOMAIN q2 /\ k = F(k - 1)
      BY <1>1, <2>2
    <3> QED  BY <3>1
  <2> QED  BY <2>1, <2>2
<1> HIDE DEF F
<1> QED  BY <1>2, <1>3, <1>4

LEMMA AppendPlaces ==
  ASSUME NEW T, NEW q \in Seq(T), NEW e \in T
  PROVE  /\ Append(q, e) \in Seq(T) /\ Append(q, e) # <<>>
         /\ Len(Append(q, e)) = Len(q) + 1
         /\ DOMAIN Append(q, e) = DOMAIN q \cup {Len(q) + 1}
         /\ \A i \in DOMAIN q : Append(q, e)[i] = q[i] /\ i < Len(q) + 1
         /\ Append(q, e)[Len(q) + 1] = e
<1> DEFINE r == Append(q, e)
<1>1. /\ r \in Seq(T) /\ Len(r) = Len(q) + 1
      /\ \A i \in 1 .. Len(q) : r[i] = q[i]
      /\ r[Len(q) + 1] = e
  BY AppendProperties
<1> HIDE DEF r
<1>2. DOMAIN q = 1 .. Len(q) /\ Len(q) \in Nat /\ DOMAIN r = 1 .. Len(q) + 1 /\ r # <<>>
  BY <1>1, SeqIs
<1> QED  BY <1>1, <1>2 DEF r

LEMMA SyncSets ==
  ASSUME NEW T, NEW q \in Seq(T), NEW e \in T, NEW f
  PROVE  SyncOK(Append(q, e), f, FALSE, e.map)
BY AppendPlaces DEF SyncOK

(* The oldest write becomes the file. *)
LEMMA SyncWritten ==
  ASSUME NEW T, NEW q \in Seq(T), q # <<>>, NEW f, NEW l, NEW m, SyncOK(q, f, l, m)
  PROVE  SyncOK(Tail(q), Head(q).map, l, m)
<1> DEFINE r == Tail(q)
           k == Len(q)
<1>1. /\ r \in Seq(T) /\ Len(r) = k - 1 /\ k \in Nat \ {0}
      /\ \A i \in 1 .. k - 1 : r[i] = q[i + 1]
      /\ Head(q) = q[1]
  BY HeadTailProperties, SeqIs
<1> HIDE DEF r, k
<1>2. r = <<>> <=> k = 1
  BY <1>1, SeqIs
<1>3. k # 1 => r[Len(r)] = q[k]
  <2> SUFFICES ASSUME k # 1  PROVE r[k - 1] = q[k]
    BY <1>1
  <2>1. k - 1 \in 1 .. k - 1 /\ (k - 1) + 1 = k
    BY <1>1
  <2> QED  BY <1>1, <2>1
<1> QED  BY <1>1, <1>2, <1>3 DEF SyncOK, k, r

(* A write is lost: the newest, or one of those before it.                   *)
LEMMA SyncFails ==
  ASSUME NEW T, NEW q \in Seq(T), NEW q2, NEW d \in DOMAIN q, Dropped(T, q2, q, d),
         NEW f, NEW l \in BOOLEAN, NEW m, SyncOK(q, f, l, m)
  PROVE  SyncOK(q2, f, l \/ d = Len(q), m)
<1> SUFFICES ASSUME ~l, d # Len(q)
             PROVE  (IF q2 = <<>> THEN f ELSE q2[Len(q2)].map) = m
  BY DEF SyncOK
<1> DEFINE k == Len(q)
<1>1. k \in Nat /\ d \in 1 .. k /\ d # k /\ q # <<>>
  BY SeqIs
<1>2. /\ q2 \in Seq(T) /\ Len(q2) = k - 1
      /\ \A i \in 1 .. k - 1 : q2[i] = q[IF i < d THEN i ELSE i + 1]
  BY DEF Dropped
<1>3. q2 # <<>>
  BY <1>1, <1>2, SeqIs
<1>4. q2[k - 1] = q[k]
  <2>1. k - 1 \in 1 .. k - 1 /\ ~(k - 1 < d) /\ (k - 1) + 1 = k
    BY <1>1
  <2> QED  BY <1>2, <2>1
<1> QED  BY <1>1, <1>2, <1>3, <1>4 DEF SyncOK

-----------------------------------------------------------------------------
(* What a list and a file may hold, given the ids of the pushes that came.   *)

Nums(list) == {list[i].n : i \in DOMAIN list}
Stored(v) == IF v = NoValue THEN <<>> ELSE v

(* Two pushes of one id have another between them.                           *)
Separate(S, ids) ==
  \A n, m \in S : n < m /\ ids[n] = ids[m] /\ ids[n] # NoValue =>
    \E k \in n + 1 .. m - 1 : ids[k] # ids[n]

(* The last id is that of a push no older than those of S.                   *)
Since(S, id, ids) == \A n \in S : \E k \in n .. Len(ids) : id = ids[k]

Descends(list) == \A i, j \in DOMAIN list : i < j => list[i].n > list[j].n

GoodEntry(e, ids) ==
  /\ e \in Entries
  /\ e.n \in 1 .. Len(ids) /\ e.id = ids[e.n]
  /\ e.titled => e.shown

GoodList(list, ids) ==
  list \in Seq(Entries) /\ \A i \in DOMAIN list : GoodEntry(list[i], ids)

GoodMap(m, ids, one) ==
  LET list == Stored(m["notifications"]) IN
  /\ m["message-id"] \in Ids \cup {NoValue}
  /\ GoodList(list, ids)
  /\ Separate(Nums(list), ids) /\ Since(Nums(list), m["message-id"], ids)
  /\ one => Descends(list)

(* More pushes come. *)
Extends(ids2, ids) ==
  /\ ids \in Seq(Ids \cup {NoValue}) /\ ids2 \in Seq(Ids \cup {NoValue})
  /\ Len(ids) <= Len(ids2)
  /\ \A i \in 1 .. Len(ids) : ids2[i] = ids[i]

LEMMA NumsAre ==
  ASSUME NEW list, NEW ids, ids \in Seq(Ids \cup {NoValue}), GoodList(list, ids)
  PROVE  Nums(list) \subseteq 1 .. Len(ids) /\ Len(ids) \in Nat
<1>1. Len(ids) \in Nat
  BY LenProperties
<1> QED  BY <1>1 DEF Nums, GoodList, GoodEntry

LEMMA SeparateLater ==
  ASSUME NEW ids, NEW ids2, Extends(ids2, ids), NEW S \in SUBSET (1 .. Len(ids)),
         Separate(S, ids)
  PROVE  Separate(S, ids2)
<1>1. Len(ids) \in Nat
  BY LenProperties DEF Extends
<1> SUFFICES ASSUME NEW n \in S, NEW m \in S, n < m, ids2[n] = ids2[m], ids2[n] # NoValue
             PROVE  \E k \in n + 1 .. m - 1 : ids2[k] # ids2[n]
  BY DEF Separate
<1>2. n \in 1 .. Len(ids) /\ m \in 1 .. Len(ids) /\ ids2[n] = ids[n] /\ ids2[m] = ids[m]
  BY DEF Extends
<1>3. PICK k \in n + 1 .. m - 1 : ids[k] # ids[n]
  BY <1>2 DEF Separate
<1>4. k \in 1 .. Len(ids)
  BY <1>1, <1>2
<1> QED  BY <1>2, <1>3, <1>4 DEF Extends

LEMMA SinceLater ==
  ASSUME NEW ids, NEW ids2, Extends(ids2, ids), NEW S \in SUBSET (1 .. Len(ids)),
         NEW latest, Since(S, latest, ids)
  PROVE  Since(S, latest, ids2)
<1>1. Len(ids) \in Nat /\ Len(ids2) \in Nat /\ Len(ids) <= Len(ids2)
  BY LenProperties DEF Extends
<1> SUFFICES ASSUME NEW n \in S  PROVE \E k \in n .. Len(ids2) : latest = ids2[k]
  BY DEF Since
<1>2. PICK k \in n .. Len(ids) : latest = ids[k]
  BY DEF Since
<1>3. k \in 1 .. Len(ids) /\ k \in n .. Len(ids2)
  BY <1>1, <1>2
<1> QED  BY <1>2, <1>3 DEF Extends

LEMMA GoodListLater ==
  ASSUME NEW ids, NEW ids2, Extends(ids2, ids), NEW list, GoodList(list, ids)
  PROVE  GoodList(list, ids2)
<1>1. Len(ids) \in Nat /\ Len(ids2) \in Nat /\ Len(ids) <= Len(ids2)
  BY LenProperties DEF Extends
<1>2. ASSUME NEW e, GoodEntry(e, ids)  PROVE GoodEntry(e, ids2)
  <2>1. e.n \in 1 .. Len(ids2) /\ ids2[e.n] = ids[e.n]
    BY <1>1, <1>2 DEF GoodEntry, Extends
  <2> QED  BY <1>2, <2>1 DEF GoodEntry
<1> QED  BY <1>2 DEF GoodList

(* A map that was good stays good.                                           *)
LEMMA GoodMapLater ==
  ASSUME NEW ids, NEW ids2, Extends(ids2, ids), NEW m, NEW one, NEW one2,
         GoodMap(m, ids, one), one2 => one
  PROVE  GoodMap(m, ids2, one2)
<1> DEFINE list == Stored(m["notifications"])
<1>1. Nums(list) \subseteq 1 .. Len(ids)
  BY NumsAre DEF Extends, GoodMap
<1>2. /\ GoodList(list, ids2) /\ Separate(Nums(list), ids2)
      /\ Since(Nums(list), m["message-id"], ids2)
  BY <1>1, SeparateLater, SinceLater, GoodListLater DEF GoodMap
<1> QED  BY <1>2 DEF GoodMap

(* What is part of something separate and recent is so too.                  *)
LEMMA PartOf ==
  ASSUME NEW S, NEW T \in SUBSET S, NEW ids, NEW latest
  PROVE  /\ Separate(S, ids) => Separate(T, ids)
         /\ Since(S, latest, ids) => Since(T, latest, ids)
BY DEF Separate, Since

(* A push whose id is not the last one is separate from all there are.       *)
LEMMA PushSeparate ==
  ASSUME NEW ids \in Seq(Ids \cup {NoValue}), NEW id \in Ids \cup {NoValue}, NEW latest,
         NEW S \in SUBSET (1 .. Len(ids)),
         Separate(S, ids), Since(S, latest, ids), id = NoValue \/ latest # id
  PROVE  /\ Extends(Append(ids, id), ids)
         /\ Separate(S \cup {Len(ids) + 1}, Append(ids, id))
         /\ Since(S \cup {Len(ids) + 1}, id, Append(ids, id))
         /\ Since(S, id, Append(ids, id))
<1> DEFINE ids2 == Append(ids, id)
           n2 == Len(ids) + 1
<1>1. /\ Len(ids) \in Nat /\ ids2 \in Seq(Ids \cup {NoValue}) /\ Len(ids2) = n2
      /\ \A i \in 1 .. Len(ids) : ids2[i] = ids[i]
      /\ ids2[n2] = id
  BY AppendProperties, LenProperties
<1> HIDE DEF ids2
<1>2. Extends(ids2, ids)
  BY <1>1 DEF Extends
<1>3. \A n \in S \cup {n2} : n2 \in n .. Len(ids2)
  BY <1>1
<1>4. Separate(S, ids2)
  BY <1>2, SeparateLater
<1>5. ASSUME NEW n \in S, ids2[n] = id, id # NoValue
      PROVE  \E k \in n + 1 .. n2 - 1 : ids2[k] # ids2[n]
  <2>1. PICK k \in n .. Len(ids) : latest = ids[k]
    BY DEF Since
  <2>2. n \in 1 .. Len(ids) /\ k \in 1 .. Len(ids) /\ ids2[k] = ids[k] /\ ids2[n] = ids[n]
    BY <1>1, <2>1
  <2>3. k # n
    BY <1>5, <2>1, <2>2
  <2>4. k \in n + 1 .. n2 - 1
    BY <1>1, <2>1, <2>2, <2>3
  <2> QED  BY <1>5, <2>1, <2>2, <2>4
<1>6. Separate(S \cup {n2}, ids2)
  <2> SUFFICES ASSUME NEW n \in S \cup {n2}, NEW m \in S \cup {n2}, n < m,
                      ids2[n] = ids2[m], ids2[n] # NoValue
               PROVE  \E k \in n + 1 .. m - 1 : ids2[k] # ids2[n]
    BY DEF Separate
  <2>1. n \in S
    BY <1>1
  <2>2. CASE m \in S
    BY <1>4, <2>1, <2>2 DEF Separate
  <2>3. CASE m = n2
    BY <1>1, <1>5, <2>1, <2>3
  <2> QED  BY <2>2, <2>3
<1> QED  BY <1>1, <1>2, <1>3, <1>6 DEF Since, ids2

-----------------------------------------------------------------------------
(* The operations on a list.                                                 *)

LEMMA GoodListIs ==
  ASSUME NEW ids, NEW list, GoodList(list, ids)
  PROVE  /\ list \in Seq(Entries) /\ DOMAIN list = 1 .. Len(list) /\ Len(list) \in Nat
         /\ \A i \in DOMAIN list : /\ list[i] \in Entries /\ list[i].n \in Nat
                                   /\ GoodEntry(list[i], ids)
BY LenProperties DEF GoodList, GoodEntry, Entries

LEMMA EmptyList ==
  ASSUME NEW ids
  PROVE  GoodList(<<>>, ids) /\ Nums(<<>>) = {} /\ Descends(<<>>)
<1>1. <<>> \in Seq(Entries) /\ DOMAIN <<>> = {}
  BY EmptySeq, LenProperties
<1> QED  BY <1>1 DEF GoodList, Nums, Descends

LEMMA InsertedList ==
  ASSUME NEW ids, NEW list, GoodList(list, ids), NEW e, GoodEntry(e, ids)
  PROVE  /\ GoodList(Inserted(list, e), ids)
         /\ Nums(Inserted(list, e)) = Nums(list) \cup {e.n}
         /\ Descends(list) /\ (\A m \in Nums(list) : m < e.n) => Descends(Inserted(list, e))
<1> DEFINE r == Inserted(list, e)
           k == Len(list)
<1>1. <<e>> \in Seq(Entries) /\ Len(<<e>>) = 1 /\ <<e>>[1] = e
  BY DEF GoodEntry
<1>2. list \in Seq(Entries) /\ DOMAIN list = 1 .. k /\ k \in Nat
  BY GoodListIs
<1>3. /\ r \in Seq(Entries) /\ Len(r) = 1 + k
      /\ \A i \in 1 .. 1 + k : r[i] = IF i <= 1 THEN <<e>>[i] ELSE list[i - 1]
  BY <1>1, <1>2, ConcatProperties DEF Inserted
<1> HIDE DEF r, k
<1>4. DOMAIN r = 1 .. k + 1
  BY <1>2, <1>3, LenProperties
<1>5. r[1] = e /\ \A i \in 1 .. k : r[i + 1] = list[i]
  <2>1. r[1] = e
    BY <1>1, <1>2, <1>3
  <2>2. ASSUME NEW i \in 1 .. k  PROVE r[i + 1] = list[i]
    <3>1. i + 1 \in 1 .. 1 + k /\ ~(i + 1 <= 1) /\ (i + 1) - 1 = i
      BY <1>2, <2>2
    <3> QED  BY <1>3, <3>1
  <2> QED  BY <2>1, <2>2
<1>6. \A j \in DOMAIN r : j = 1 \/ \E i \in DOMAIN list : j = i + 1
  <2> SUFFICES ASSUME NEW j \in DOMAIN r, j # 1  PROVE \E i \in DOMAIN list : j = i + 1
    OBVIOUS
  <2>1. j - 1 \in 1 .. k /\ j = (j - 1) + 1
    BY <1>2, <1>4
  <2> QED  BY <1>2, <2>1
<1>7. GoodList(r, ids)
  <2>1. ASSUME NEW j \in DOMAIN r  PROVE GoodEntry(r[j], ids)
    <3>1. CASE j = 1
      BY <1>5, <3>1
    <3>2. ASSUME NEW i \in DOMAIN list, j = i + 1  PROVE GoodEntry(r[j], ids)
      <4>1. r[j] = list[i] /\ GoodEntry(list[i], ids)
        BY <1>2, <1>5, <3>2 DEF GoodList
      <4> QED  BY <4>1
    <3> QED  BY <1>6, <3>1, <3>2
  <2> QED  BY <1>3, <2>1, Zenon DEF GoodList
<1>8. Nums(r) = Nums(list) \cup {e.n}
  <2>1. 1 \in DOMAIN r /\ \A i \in DOMAIN list : i + 1 \in DOMAIN r
    BY <1>2, <1>4
  <2> QED  BY <1>2, <1>5, <1>6, <2>1 DEF Nums
<1>9. ASSUME Descends(list), \A m \in Nums(list) : m < e.n  PROVE Descends(r)
  <2> SUFFICES ASSUME NEW i \in DOMAIN r, NEW j \in DOMAIN r, i < j
               PROVE  r[i].n > r[j].n
    BY DEF Descends
  <2>1. \A m \in DOMAIN list : m \in Int /\ list[m].n \in Nat /\ list[m].n < e.n
    BY <1>2, <1>9, GoodListIs DEF Nums
  <2>2. e.n \in Nat
    BY DEF GoodEntry, Entries
  <2>3. PICK b \in DOMAIN list : j = b + 1
    BY <1>2, <1>4, <1>6
  <2>4. r[j] = list[b]
    BY <1>2, <1>5, <2>3
  <2>5. CASE i = 1
    BY <1>5, <2>1, <2>2, <2>4, <2>5
  <2>6. CASE i # 1
    <3>1. PICK a \in DOMAIN list : i = a + 1
      BY <1>6, <2>6
    <3>2. r[i] = list[a] /\ a < b
      BY <1>2, <1>5, <2>3, <3>1
    <3> QED  BY <1>9, <2>4, <3>2 DEF Descends
  <2> QED  BY <2>5, <2>6
<1> QED  BY <1>7, <1>8, <1>9 DEF r

LEMMA RemovedList ==
  ASSUME NEW ids, NEW list, GoodList(list, ids), NEW d \in DOMAIN list
  PROVE  /\ GoodList(Removed(list, d), ids)
         /\ Nums(Removed(list, d)) \subseteq Nums(list)
         /\ Descends(list) => /\ Descends(Removed(list, d))
                              /\ Nums(list) \ Nums(Removed(list, d)) = {list[d].n}
         /\ Nums(list) \subseteq Nums(Removed(list, d)) \cup {list[d].n}
<1> DEFINE r == Removed(list, d)
           k == Len(list)
           F(i) == IF i < d THEN i ELSE i + 1
<1>1. /\ k \in Nat /\ DOMAIN list = 1 .. k /\ d \in 1 .. k
      /\ r \in Seq(Entries) /\ DOMAIN r = 1 .. k - 1
      /\ \A i \in 1 .. k - 1 : r[i] = list[F(i)]
  <2>1. list \in Seq(Entries) /\ DOMAIN list = 1 .. k /\ k \in Nat
    BY GoodListIs
  <2>2. r = FP!RemoveAt(list, d)
    BY DEF Removed, RemoveAt, FP!RemoveAt
  <2> HIDE DEF r
  <2> QED  BY <2>1, <2>2, FP!RemovePlaces
<1> HIDE DEF r, k
<1>2. \A i \in DOMAIN r : F(i) \in DOMAIN list /\ r[i] = list[F(i)] /\ F(i) # d
  BY <1>1
<1>3. \A i, j \in DOMAIN r : i < j => F(i) < F(j)
  BY <1>1
<1>4. \A j \in DOMAIN list : j # d => \E i \in DOMAIN r : j = F(i)
  <2> SUFFICES ASSUME NEW j \in DOMAIN list, j # d  PROVE \E i \in DOMAIN r : j = F(i)
    OBVIOUS
  <2>1. CASE j < d
    <3>1. j \in DOMAIN r /\ j = F(j)
      BY <1>1, <2>1
    <3> QED  BY <3>1
  <2>2. CASE ~(j < d)
    <3>1. j - 1 \in DOMAIN r /\ j = F(j - 1)
      BY <1>1, <2>2
    <3> QED  BY <3>1
  <2> QED  BY <2>1, <2>2
<1> HIDE DEF F
<1>5. GoodList(r, ids)
  BY <1>1, <1>2 DEF GoodList
<1>6. Nums(r) \subseteq Nums(list)
  BY <1>2 DEF Nums
<1>7. Nums(list) \subseteq Nums(r) \cup {list[d].n}
  BY <1>2, <1>4 DEF Nums
<1>8. ASSUME Descends(list)  PROVE Descends(r)
  BY <1>2, <1>3, <1>8 DEF Descends
<1>9. ASSUME Descends(list)  PROVE list[d].n \notin Nums(r)
  <2>1. ASSUME NEW i \in DOMAIN r  PROVE r[i].n # list[d].n
    <3>1. F(i) \in DOMAIN list /\ r[i] = list[F(i)] /\ (F(i) < d \/ d < F(i))
      BY <1>1, <1>2
    <3>2. list[F(i)].n > list[d].n \/ list[d].n > list[F(i)].n
      BY <1>9, <3>1 DEF Descends
    <3>3. list[F(i)].n \in Nat /\ list[d].n \in Nat
      BY <3>1, GoodListIs
    <3> QED  BY <3>1, <3>2, <3>3
  <2> QED  BY <2>1 DEF Nums
<1>10. list[d].n \in Nums(list)
  BY DEF Nums
<1> QED  BY <1>5, <1>6, <1>7, <1>8, <1>9, <1>10 DEF r

LEMMA OpenedEntry ==
  ASSUME NEW ids, NEW e, GoodEntry(e, ids)
  PROVE  GoodEntry(Opened(e), ids) /\ Opened(e).n = e.n
BY DEF GoodEntry, Opened, Entries

LEMMA ReplacedList ==
  ASSUME NEW ids, NEW list, GoodList(list, ids), NEW d \in DOMAIN list,
         NEW e, GoodEntry(e, ids)
  PROVE  LET r == [list EXCEPT ![d] = e] IN
         /\ GoodList(r, ids)
         /\ Nums(r) \subseteq Nums(list) \cup {e.n}
         /\ e.n = list[d].n => /\ Nums(r) = Nums(list)
                               /\ Descends(list) => Descends(r)
                               /\ DOMAIN r = DOMAIN list
                               /\ \A i \in DOMAIN list : r[i].n = list[i].n
<1> DEFINE r == [list EXCEPT ![d] = e]
<1>1. /\ DOMAIN list = 1 .. Len(list) /\ Len(list) \in Nat
      /\ \A i \in DOMAIN list : list[i] \in Entries
  BY GoodListIs
<1>2. e \in Entries
  BY DEF GoodEntry
<1>3. /\ DOMAIN r = DOMAIN list /\ \A i \in DOMAIN list : r[i] = IF i = d THEN e ELSE list[i]
      /\ r \in [1 .. Len(list) -> Entries]
  <2>1. list \in [1 .. Len(list) -> Entries]
    BY LenProperties DEF GoodList
  <2> QED  BY <1>1, <1>2, <2>1
<1> HIDE DEF r
<1>4. r \in Seq(Entries)
  BY <1>1, <1>3, SeqDef
<1>5. GoodList(r, ids)
  BY <1>3, <1>4 DEF GoodList
<1>6. Nums(r) \subseteq Nums(list) \cup {e.n}
  BY <1>3 DEF Nums
<1>7. ASSUME e.n = list[d].n
      PROVE  /\ Nums(r) = Nums(list)
             /\ Descends(list) => Descends(r)
             /\ \A i \in DOMAIN list : r[i].n = list[i].n
  BY <1>3, <1>7 DEF Nums, Descends
<1> QED  BY <1>3, <1>5, <1>6, <1>7 DEF r

-----------------------------------------------------------------------------
(* The queue of pending writes.                                              *)

Maps == [{"notifications", "message-id"} -> Seq(Entries) \cup Ids \cup {NoValue}]
Task == {Opens, Removes, Gone} \cup {Saves(n) : n \in Nat}
Write == [map : Maps, task : Task]

(* Each push of U, of N that came, awaits one write, in the order they came. *)
QueueOK(q, U, N) ==
  /\ \A n \in U : \E i \in DOMAIN q : q[i].task = Saves(n)
  /\ \A i, j \in DOMAIN q : i < j => \A m, n \in U :
       q[i].task = Saves(m) /\ q[j].task = Saves(n) => m < n
  /\ \A i \in DOMAIN q :
       \/ q[i].task \in {Opens, Removes, Gone}
       \/ \E n \in 1 .. N : q[i].task = Saves(n)

FileOK(q, d, ids, one) ==
  /\ GoodMap(d, ids, one)
  /\ \A i \in DOMAIN q : GoodMap(q[i].map, ids, one)

LEMMA TaskNames ==
  /\ \A m, n : Saves(m) = Saves(n) => m = n
  /\ \A n : Saves(n) \notin {Opens, Removes, Gone}
  /\ Removes \notin {Opens, Gone}
BY DEF Saves, Opens, Removes, Gone

LEMMA QueueIs ==
  ASSUME NEW q \in Seq(Write)
  PROVE  /\ Len(q) \in Nat /\ DOMAIN q = 1 .. Len(q)
         /\ \A i \in DOMAIN q : q[i] \in Write /\ q[i].map \in Maps /\ q[i].task \in Task
         /\ q = <<>> <=> Len(q) = 0
<1>1. Len(q) \in Nat /\ DOMAIN q = 1 .. Len(q) /\ \A i \in DOMAIN q : q[i] \in Write
  BY LenProperties
<1>2. q = <<>> <=> Len(q) = 0
  BY EmptySeq
<1> QED  BY <1>1, <1>2 DEF Write

(* A write ends: its task need not wait any more.                            *)
LEMMA QueueDrops ==
  ASSUME NEW q \in Seq(Write), NEW q2, NEW d \in DOMAIN q, Dropped(Write, q2, q, d),
         NEW U, NEW U2 \in SUBSET U, NEW N, QueueOK(q, U, N),
         \A n \in U2 : q[d].task # Saves(n)
  PROVE  QueueOK(q2, U2, N)
<1>1. \A n \in U2 : \E i \in DOMAIN q2 : q2[i].task = Saves(n)
  BY DroppedPlaces DEF QueueOK
<1>2. \A i \in DOMAIN q2 :
       \/ q2[i].task \in {Opens, Removes, Gone}
       \/ \E n \in 1 .. N : q2[i].task = Saves(n)
  BY DroppedPlaces DEF QueueOK
<1>3. ASSUME NEW i \in DOMAIN q2, NEW j \in DOMAIN q2, i < j, NEW m \in U2, NEW n \in U2,
             q2[i].task = Saves(m), q2[j].task = Saves(n)
      PROVE  m < n
  <2>1. PICK k \in DOMAIN q \ {d}, l \in DOMAIN q \ {d} :
          k < l /\ q2[i] = q[k] /\ q2[j] = q[l]
    BY <1>3, DroppedPlaces
  <2> QED  BY <1>3, <2>1 DEF QueueOK
<1> QED  BY <1>1, <1>2, <1>3 DEF QueueOK

LEMMA FileDrops ==
  ASSUME NEW q \in Seq(Write), NEW q2, NEW d \in DOMAIN q, Dropped(Write, q2, q, d),
         NEW f, NEW ids, NEW one, FileOK(q, f, ids, one)
  PROVE  FileOK(q2, f, ids, one) /\ FileOK(q2, q[d].map, ids, one)
BY DroppedPlaces DEF FileOK

(* A write that none of U awaits.                                            *)
LEMMA QueueAppends ==
  ASSUME NEW q \in Seq(Write), NEW e \in Write, NEW U, NEW N, QueueOK(q, U, N),
         \/ e.task \in {Opens, Removes, Gone}
         \/ \E n \in 1 .. N : n \notin U /\ e.task = Saves(n)
  PROVE  QueueOK(Append(q, e), U, N)
<1> DEFINE r == Append(q, e)
<1>1. /\ DOMAIN r = DOMAIN q \cup {Len(q) + 1} /\ r[Len(q) + 1] = e
      /\ \A i \in DOMAIN q : r[i] = q[i] /\ i < Len(q) + 1
  BY AppendPlaces
<1> HIDE DEF r
<1>2. \A n \in U : e.task # Saves(n)
  BY TaskNames
<1>3. \A n \in U : \E i \in DOMAIN r : r[i].task = Saves(n)
  BY <1>1 DEF QueueOK
<1>4. \A i \in DOMAIN r :
       \/ r[i].task \in {Opens, Removes, Gone}
       \/ \E n \in 1 .. N : r[i].task = Saves(n)
  BY <1>1 DEF QueueOK
<1>5. ASSUME NEW i \in DOMAIN r, NEW j \in DOMAIN r, i < j, NEW m \in U, NEW n \in U,
             r[i].task = Saves(m), r[j].task = Saves(n)
      PROVE  m < n
  <2>1. i \in DOMAIN q /\ j \in DOMAIN q
    BY <1>1, <1>2, <1>5
  <2> QED  BY <1>1, <1>5, <2>1 DEF QueueOK
<1> QED  BY <1>3, <1>4, <1>5 DEF QueueOK, r

(* The write of the id of a new push.                                        *)
LEMMA QueuePushes ==
  ASSUME NEW q \in Seq(Write), NEW e \in Write, NEW N \in Nat, NEW U \in SUBSET (1 .. N),
         QueueOK(q, U, N), e.task = Saves(N + 1)
  PROVE  QueueOK(Append(q, e), U \cup {N + 1}, N + 1)
<1> DEFINE r == Append(q, e)
<1>1. /\ DOMAIN r = DOMAIN q \cup {Len(q) + 1} /\ r[Len(q) + 1] = e
      /\ \A i \in DOMAIN q : r[i] = q[i] /\ i < Len(q) + 1 /\ i \in Nat
      /\ Len(q) \in Nat
  BY AppendPlaces, QueueIs
<1> HIDE DEF r
<1>2. \A n \in 1 .. N : Saves(n) # Saves(N + 1)
  BY TaskNames
<1>3. \A i \in DOMAIN q : q[i].task # Saves(N + 1)
  BY <1>2, TaskNames DEF QueueOK
<1>4. \A n \in U \cup {N + 1} : \E i \in DOMAIN r : r[i].task = Saves(n)
  BY <1>1 DEF QueueOK
<1>5. \A i \in DOMAIN r :
       \/ r[i].task \in {Opens, Removes, Gone}
       \/ \E n \in 1 .. N + 1 : r[i].task = Saves(n)
  <2>1. 1 .. N \subseteq 1 .. N + 1 /\ N + 1 \in 1 .. N + 1
    OBVIOUS
  <2> QED  BY <1>1, <2>1 DEF QueueOK
<1>6. ASSUME NEW i \in DOMAIN r, NEW j \in DOMAIN r, i < j,
             NEW m \in U \cup {N + 1}, NEW n \in U \cup {N + 1},
             r[i].task = Saves(m), r[j].task = Saves(n)
      PROVE  m < n
  <2>1. i \in DOMAIN q
    BY <1>1, <1>6
  <2>2. m \in U
    BY <1>1, <1>3, <1>6, <2>1
  <2>3. CASE j \in DOMAIN q
    <3>1. n \in U
      BY <1>1, <1>3, <1>6, <2>3
    <3> QED  BY <1>1, <1>6, <2>1, <2>2, <2>3, <3>1 DEF QueueOK
  <2>4. CASE j = Len(q) + 1
    <3>1. n = N + 1
      BY <1>1, <1>6, <2>4, TaskNames
    <3> QED  BY <2>2, <3>1
  <2> QED  BY <1>1, <2>3, <2>4
<1> QED  BY <1>4, <1>5, <1>6 DEF QueueOK, r

LEMMA FileAppends ==
  ASSUME NEW q \in Seq(Write), NEW e \in Write, NEW f, NEW ids, NEW one,
         FileOK(q, f, ids, one), GoodMap(e.map, ids, one)
  PROVE  FileOK(Append(q, e), f, ids, one)
BY AppendPlaces DEF FileOK

LEMMA FileLater ==
  ASSUME NEW q, NEW f, NEW ids, NEW ids2, NEW one, NEW one2,
         FileOK(q, f, ids, one), Extends(ids2, ids), one2 => one
  PROVE  FileOK(q, f, ids2, one2)
BY GoodMapLater DEF FileOK

-----------------------------------------------------------------------------
(* The lists in memory.                                                      *)

ids == arrived.ids
OneList == "two lists" \notin upsets
UnderWay == {n \in DOMAIN saving : saving[n].pc = "id"}
Live == {n \in 1 .. Len(ids) : n \in UnderWay \/ \E o \in DOMAIN heap : n \in Nums(heap[o])}
Save == [pc : {"no", "id"}, list : Nat, titled : BOOLEAN]

ArrivedOK ==
  /\ arrived \in [ids : Seq(Ids \cup {NoValue}), count : Nat]
  /\ saving \in Seq(Save)
  /\ Len(saving) = Len(ids)
  /\ \A n \in UnderWay : saving[n].list \in 0 .. Len(heap)

HeapOK ==
  /\ heap \in Seq(Seq(Entries))
  /\ \A o \in DOMAIN heap : GoodList(heap[o], ids)
  /\ bound \in 0 .. Len(heap) /\ (bound = 0 => heap = <<>>)
  /\ lastId \in Ids \cup {NoValue}

(* The pushes listed or under way are separate, and a push under way is      *)
(* newer than any that is listed.                                            *)
LiveOK ==
  /\ Separate(Live, ids) /\ Since(Live, lastId, ids)
  /\ \A n \in UnderWay, o \in DOMAIN heap : \A m \in Nums(heap[o]) : m < n

OneListOK ==
  OneList => /\ bound = Len(heap) /\ bound < 2
             /\ Descends(ListAt(bound))

ListsOK == ArrivedOK /\ HeapOK /\ LiveOK /\ OneListOK

LEMMA HeapIs ==
  ASSUME HeapOK
  PROVE  /\ DOMAIN heap = 1 .. Len(heap) /\ Len(heap) \in Nat
         /\ bound # 0 => bound \in DOMAIN heap
         /\ bound \notin DOMAIN heap => bound = 0
         /\ ListAt(bound) = IF bound = 0 THEN <<>> ELSE heap[bound]
         /\ heap = <<>> => Len(heap) = 0
<1>1. DOMAIN heap = 1 .. Len(heap) /\ Len(heap) \in Nat /\ (heap = <<>> => Len(heap) = 0)
  BY LenProperties, EmptySeq DEF HeapOK
<1>2. bound # 0 <=> bound \in DOMAIN heap
  BY <1>1 DEF HeapOK
<1> QED  BY <1>1, <1>2 DEF ListAt

LEMMA SavingIs ==
  ASSUME ArrivedOK
  PROVE  /\ ids \in Seq(Ids \cup {NoValue}) /\ Len(ids) \in Nat /\ DOMAIN ids = 1 .. Len(ids)
         /\ DOMAIN saving = 1 .. Len(ids)
         /\ \A n \in DOMAIN saving : saving[n] \in Save
         /\ UnderWay \subseteq 1 .. Len(ids)
<1>1. ids \in Seq(Ids \cup {NoValue}) /\ Len(ids) \in Nat /\ DOMAIN ids = 1 .. Len(ids)
  BY LenProperties DEF ArrivedOK, ids
<1>2. DOMAIN saving = 1 .. Len(ids) /\ \A n \in DOMAIN saving : saving[n] \in Save
  BY <1>1, LenProperties DEF ArrivedOK
<1> QED  BY <1>1, <1>2 DEF UnderWay

LEMMA LiveIs ==
  ASSUME ArrivedOK, HeapOK
  PROVE  /\ Live \subseteq 1 .. Len(ids)
         /\ \A o \in DOMAIN heap : Nums(heap[o]) \subseteq Live
         /\ Nums(ListAt(bound)) \subseteq Live
         /\ GoodList(ListAt(bound), ids)
<1>1. \A o \in DOMAIN heap : Nums(heap[o]) \subseteq 1 .. Len(ids)
  BY NumsAre, SavingIs DEF HeapOK
<1>2. Live \subseteq 1 .. Len(ids) /\ \A o \in DOMAIN heap : Nums(heap[o]) \subseteq Live
  BY <1>1 DEF Live
<1>3. Nums(ListAt(bound)) \subseteq Live /\ GoodList(ListAt(bound), ids)
  <2>1. CASE bound = 0
    BY <2>1, HeapIs, EmptyList
  <2>2. CASE bound # 0
    <3>1. bound \in DOMAIN heap /\ ListAt(bound) = heap[bound]
      BY <2>2, HeapIs
    <3> QED  BY <1>2, <3>1 DEF HeapOK
  <2> QED  BY <2>1, <2>2
<1> QED  BY <1>2, <1>3

(* What the storage holds in memory may be written. *)
LEMMA GoodMem ==
  ASSUME ListsOK
  PROVE  /\ Mem \in Maps /\ GoodMap(Mem, ids, OneList)
         /\ Stored(Mem["notifications"]) = ListAt(bound) /\ Mem["message-id"] = lastId
<1> USE DEF ListsOK
<1>1. Mem["message-id"] = lastId /\ Mem["notifications"] = IF bound = 0 THEN NoValue ELSE heap[bound]
  BY DEF Mem
<1>2. bound # 0 => heap[bound] \in Seq(Entries) /\ heap[bound] # NoValue
  BY HeapIs, NoValueIsNoList DEF HeapOK, GoodList
<1>3. Stored(Mem["notifications"]) = ListAt(bound)
  BY <1>1, <1>2, HeapIs DEF Stored
<1>4. Mem \in Maps
  BY <1>2 DEF Mem, Maps, HeapOK
<1>5. /\ GoodList(ListAt(bound), ids)
      /\ Separate(Nums(ListAt(bound)), ids) /\ Since(Nums(ListAt(bound)), lastId, ids)
  BY LiveIs, PartOf DEF LiveOK
<1> QED  BY <1>1, <1>3, <1>4, <1>5 DEF GoodMap, HeapOK, OneListOK

(* A list is changed, or one more is made.                                   *)
Stores(o, list) ==
  heap' = IF o > Len(heap) THEN Append(heap, list) ELSE [heap EXCEPT ![o] = list]

LEMMA StoresStep ==
  ASSUME HeapOK, NEW o \in 1 .. Len(heap) + 1, NEW list \in Seq(Entries), Stores(o, list)
  PROVE  /\ heap' \in Seq(Seq(Entries))
         /\ Len(heap') = IF o > Len(heap) THEN Len(heap) + 1 ELSE Len(heap)
         /\ DOMAIN heap' = DOMAIN heap \cup {o} /\ heap'[o] = list
         /\ \A k \in DOMAIN heap : k # o => heap'[k] = heap[k]
         /\ DOMAIN heap' = 1 .. Len(heap')
<1>1. DOMAIN heap = 1 .. Len(heap) /\ Len(heap) \in Nat /\ heap \in Seq(Seq(Entries))
  BY HeapIs DEF HeapOK
<1>2. CASE o > Len(heap)
  <2>1. /\ heap' \in Seq(Seq(Entries)) /\ Len(heap') = Len(heap) + 1
        /\ \A i \in 1 .. Len(heap) : heap'[i] = heap[i]
        /\ heap'[Len(heap) + 1] = list
    BY <1>1, <1>2, AppendProperties DEF Stores
  <2>2. DOMAIN heap' = 1 .. Len(heap) + 1
    BY <1>1, <2>1, LenProperties
  <2>3. o = Len(heap) + 1 /\ 1 .. Len(heap) + 1 = 1 .. Len(heap) \cup {Len(heap) + 1}
    BY <1>1, <1>2
  <2> QED  BY <1>1, <1>2, <2>1, <2>2, <2>3
<1>3. CASE ~(o > Len(heap))
  <2>1. o \in 1 .. Len(heap) /\ heap' = [heap EXCEPT ![o] = list]
    BY <1>1, <1>3 DEF Stores
  <2>2. /\ heap' \in Seq(Seq(Entries)) /\ Len(heap') = Len(heap)
        /\ \A k \in 1 .. Len(heap) : heap'[k] = IF k = o THEN list ELSE heap[k]
    BY <1>1, <2>1, ExceptSeq
  <2>3. DOMAIN heap' = 1 .. Len(heap')
    BY <2>2, LenProperties
  <2> QED  BY <1>1, <1>3, <2>1, <2>2, <2>3
<1> QED  BY <1>2, <1>3

-----------------------------------------------------------------------------
(* The lists, step by step.                                                  *)

(* Nothing but the count of the pushes changes. *)
LEMMA ListsStay ==
  ASSUME ListsOK, UNCHANGED <<heap, bound, lastId, saving>>, upsets \subseteq upsets',
         arrived' \in [ids : Seq(Ids \cup {NoValue}), count : Nat],
         arrived'.ids = arrived.ids
  PROVE  ListsOK' /\ ids' = ids /\ UnderWay' = UnderWay /\ (OneList' => OneList)
<1>1. ids' = ids /\ UnderWay' = UnderWay /\ (OneList' => OneList)
  BY DEF ids, UnderWay, OneList
<1>2. Live' = Live
  BY <1>1 DEF Live
<1>3. ListAt(bound)' = ListAt(bound)
  BY DEF ListAt
<1>4. ArrivedOK'
  BY <1>1 DEF ListsOK, ArrivedOK
<1>5. HeapOK'
  BY <1>1 DEF ListsOK, HeapOK
<1>6. LiveOK'
  BY <1>1, <1>2 DEF ListsOK, LiveOK
<1>7. OneListOK'
  BY <1>1, <1>3 DEF ListsOK, OneListOK
<1> QED  BY <1>1, <1>4, <1>5, <1>6, <1>7 DEF ListsOK

(* A push is no longer under way. *)
LEMMA SavingEnds ==
  ASSUME ArrivedOK, UNCHANGED arrived, NEW n \in UnderWay,
         saving' = [saving EXCEPT ![n] = Idle], Len(heap) <= Len(heap'),
         Len(heap) \in Nat, Len(heap') \in Nat
  PROVE  /\ ArrivedOK' /\ ids' = ids /\ n \in 1 .. Len(ids)
         /\ UnderWay' = UnderWay \ {n}
         /\ \A m \in UnderWay' : saving'[m] = saving[m]
<1>1. ids' = ids /\ n \in DOMAIN saving
  BY DEF ids, UnderWay
<1>2. /\ saving \in Seq(Save) /\ n \in 1 .. Len(saving) /\ Idle \in Save
      /\ DOMAIN saving = 1 .. Len(saving) /\ n \in 1 .. Len(ids)
  <2>1. Idle \in Save
    BY DEF Idle, Save
  <2>2. saving \in Seq(Save) /\ Len(saving) = Len(ids)
    BY DEF ArrivedOK
  <2> QED  BY <1>1, <2>1, <2>2, LenProperties
<1>3. saving' \in Seq(Save) /\ Len(saving') = Len(saving)
  BY <1>2, ExceptSeq
<1>4. /\ DOMAIN saving' = DOMAIN saving
      /\ \A m \in DOMAIN saving : saving'[m] = IF m = n THEN Idle ELSE saving[m]
  BY <1>2
<1>5. UnderWay' = UnderWay \ {n} /\ \A m \in UnderWay' : saving'[m] = saving[m]
  BY <1>4 DEF UnderWay, Idle
<1>6. \A m \in UnderWay' : saving'[m].list \in 0 .. Len(heap')
  <2>1. \A m \in UnderWay : saving[m].list \in 0 .. Len(heap)
    BY DEF ArrivedOK
  <2> QED  BY <1>5, <2>1
<1> QED  BY <1>1, <1>2, <1>3, <1>5, <1>6 DEF ArrivedOK

LEMMA ListsFails ==
  ASSUME ListsOK, NEW n \in UnderWay, IdFails(n)
  PROVE  ListsOK' /\ ids' = ids /\ UnderWay' = UnderWay \ {n} /\ (OneList' => OneList)
<1>1. UNCHANGED <<heap, bound, lastId, arrived>> /\ saving' = [saving EXCEPT ![n] = Idle]
  BY DEF IdFails, listVars
<1>2. Len(heap) \in Nat /\ Len(heap') = Len(heap)
  BY <1>1, HeapIs DEF ListsOK
<1>3. ArrivedOK' /\ ids' = ids /\ UnderWay' = UnderWay \ {n}
  <2>1. ArrivedOK /\ UNCHANGED arrived /\ saving' = [saving EXCEPT ![n] = Idle]
    BY <1>1 DEF ListsOK
  <2>2. Len(heap) \in Nat /\ Len(heap') \in Nat /\ Len(heap) <= Len(heap')
    BY <1>2
  <2> QED  BY <2>1, <2>2, SavingEnds
<1>4. OneList' => OneList
  <2>1. upsets \subseteq upsets'
    BY DEF IdFails
  <2> QED  BY <2>1 DEF OneList
<1>5. Live' \subseteq Live
  BY <1>1, <1>3 DEF Live
<1>6. ListAt(bound)' = ListAt(bound)
  BY <1>1 DEF ListAt
<1>7. HeapOK'
  BY <1>1, <1>3 DEF ListsOK, HeapOK
<1>8. LiveOK'
  <2>1. Separate(Live', ids) /\ Since(Live', lastId, ids)
    BY <1>5, PartOf DEF ListsOK, LiveOK
  <2> QED  BY <1>1, <1>3, <2>1 DEF ListsOK, LiveOK
<1>9. OneListOK'
  BY <1>1, <1>2, <1>4, <1>6 DEF ListsOK, OneListOK
<1> QED  BY <1>3, <1>4, <1>7, <1>8, <1>9 DEF ListsOK

LEMMA ListsPush ==
  ASSUME ListsOK, NEW id \in Ids \cup {NoValue}, NEW titled \in BOOLEAN, Push(id, titled)
  PROVE  /\ ListsOK' /\ Extends(ids', ids) /\ Len(ids') = Len(ids) + 1
         /\ UnderWay' = UnderWay \cup {Len(ids) + 1}
         /\ (OneList' => OneList)
<1> DEFINE N == Len(ids)
           e == [pc |-> "id", list |-> bound, titled |-> titled]
<1>1. /\ ids' = Append(ids, id) /\ saving' = Append(saving, e)
      /\ lastId' = id /\ heap' = heap /\ bound' = bound /\ upsets' = upsets
      /\ arrived' = [ids |-> Append(ids, id), count |-> arrived.count + 1]
      /\ id = NoValue \/ lastId # id
  BY DEF Push, ids, histVars
<1>2. /\ ids \in Seq(Ids \cup {NoValue}) /\ N \in Nat /\ UnderWay \subseteq 1 .. N
      /\ saving \in Seq(Save) /\ Len(saving) = N /\ arrived.count \in Nat
      /\ DOMAIN saving = 1 .. N
  BY SavingIs DEF ListsOK, ArrivedOK
<1>3. bound \in 0 .. Len(heap) /\ Len(heap) \in Nat /\ e \in Save
  BY HeapIs DEF ListsOK, HeapOK, Save
<1>4. /\ saving' \in Seq(Save) /\ Len(saving') = N + 1 /\ saving'[N + 1] = e
      /\ \A n \in 1 .. N : saving'[n] = saving[n]
  <2>1. saving' = Append(saving, e) /\ saving \in Seq(Save) /\ Len(saving) = N /\ e \in Save
    BY <1>1, <1>2, <1>3
  <2> HIDE DEF N, e
  <2>2. /\ Append(saving, e) \in Seq(Save) /\ Len(Append(saving, e)) = N + 1
        /\ Append(saving, e)[N + 1] = e
        /\ \A n \in 1 .. N : Append(saving, e)[n] = saving[n]
    BY <2>1, AppendProperties
  <2> QED  BY <2>1, <2>2
<1>5. DOMAIN saving' = 1 .. N + 1
  BY <1>2, <1>4, LenProperties
<1>6. /\ Live \subseteq 1 .. N
      /\ Separate(Live, ids) /\ Since(Live, lastId, ids)
  BY LiveIs DEF ListsOK, LiveOK
<1>7. /\ Extends(ids', ids)
      /\ Separate(Live \cup {N + 1}, ids') /\ Since(Live \cup {N + 1}, id, ids')
  <2> HIDE DEF e
  <2> QED  BY <1>1, <1>2, <1>6, PushSeparate
<1>8. ids' \in Seq(Ids \cup {NoValue}) /\ Len(ids') = N + 1
  BY <1>1, <1>2, AppendProperties
<1> HIDE DEF N
<1>9. UnderWay' = UnderWay \cup {N + 1}
  <2>1. \A n \in 1 .. N + 1 : n = N + 1 \/ n \in 1 .. N
    BY <1>2
  <2>2. \A n \in 1 .. N : n \in 1 .. N + 1
    BY <1>2
  <2>3. N + 1 \in 1 .. N + 1
    BY <1>2
  <2> QED  BY <1>2, <1>4, <1>5, <2>1, <2>2, <2>3 DEF UnderWay
<1>10. Live' \subseteq Live \cup {N + 1}
  <2>1. \A o \in DOMAIN heap : Nums(heap[o]) \subseteq Live
    BY LiveIs DEF ListsOK
  <2>2. UnderWay \subseteq Live
    BY <1>2 DEF Live, N
  <2> QED  BY <1>1, <1>9, <2>1, <2>2 DEF Live
<1>11. ArrivedOK'
  <2>1. arrived' \in [ids : Seq(Ids \cup {NoValue}), count : Nat]
    BY <1>1, <1>2, <1>8
  <2>2. \A n \in UnderWay' : saving'[n].list \in 0 .. Len(heap')
    <3> SUFFICES ASSUME NEW n \in UnderWay'  PROVE saving'[n].list \in 0 .. Len(heap)
      BY <1>1
    <3>1. CASE n = N + 1
      BY <1>3, <1>4, <3>1
    <3>2. CASE n # N + 1
      <4>1. n \in UnderWay /\ saving'[n] = saving[n]
        BY <1>2, <1>4, <1>9, <3>2
      <4> QED  BY <4>1 DEF ListsOK, ArrivedOK
    <3> QED  BY <3>1, <3>2
  <2> QED  BY <1>4, <1>8, <2>1, <2>2 DEF ArrivedOK
<1>12. HeapOK'
  BY <1>1, <1>7, GoodListLater DEF ListsOK, HeapOK
<1>13. LiveOK'
  <2>1. Separate(Live', ids') /\ Since(Live', id, ids')
    BY <1>7, <1>10, PartOf
  <2>2. ASSUME NEW n \in UnderWay', NEW o \in DOMAIN heap, NEW m \in Nums(heap[o])
        PROVE  m < n
    <3>1. m \in 1 .. N
      BY <1>6, LiveIs DEF ListsOK
    <3>2. CASE n = N + 1
      BY <1>2, <3>1, <3>2
    <3>3. CASE n \in UnderWay
      BY <3>3 DEF ListsOK, LiveOK
    <3> QED  BY <1>9, <3>2, <3>3
  <2> QED  BY <1>1, <2>1, <2>2 DEF LiveOK
<1>14. OneListOK' /\ (OneList' => OneList)
  BY <1>1 DEF ListsOK, OneListOK, OneList, ListAt
<1> QED  BY <1>7, <1>8, <1>9, <1>11, <1>12, <1>13, <1>14 DEF ListsOK, N

(* The list in use is changed in place. *)
LEMMA ListsChange ==
  ASSUME ListsOK, NEW list, bound # 0, heap' = [heap EXCEPT ![bound] = list],
         UNCHANGED <<bound, lastId, saving, arrived>>, upsets \subseteq upsets',
         GoodList(list, ids), OneList => Descends(list),
         \A m \in Nums(list) : \E o \in DOMAIN heap : m \in Nums(heap[o])
  PROVE  /\ ListsOK' /\ ids' = ids /\ UnderWay' = UnderWay /\ (OneList' => OneList)
         /\ Len(heap') = Len(heap) /\ ListAt(bound)' = list
<1>1. ids' = ids /\ UnderWay' = UnderWay /\ (OneList' => OneList)
  BY DEF ids, UnderWay, OneList
<1>2. bound \in 1 .. Len(heap) /\ Len(heap) \in Nat /\ DOMAIN heap = 1 .. Len(heap)
  BY HeapIs DEF ListsOK
<1>3. list \in Seq(Entries) /\ heap \in Seq(Seq(Entries))
  BY DEF GoodList, ListsOK, HeapOK
<1>4. /\ heap' \in Seq(Seq(Entries)) /\ Len(heap') = Len(heap)
      /\ \A o \in 1 .. Len(heap) : heap'[o] = IF o = bound THEN list ELSE heap[o]
  BY <1>2, <1>3, ExceptSeq
<1>5. DOMAIN heap' = DOMAIN heap
  BY <1>2, <1>4, LenProperties
<1>6. ListAt(bound)' = list
  BY <1>2, <1>4, <1>5 DEF ListAt
<1>7. ArrivedOK'
  BY <1>1, <1>4 DEF ListsOK, ArrivedOK
<1>8. HeapOK'
  <2>1. \A o \in DOMAIN heap' : GoodList(heap'[o], ids)
    BY <1>2, <1>4, <1>5 DEF ListsOK, HeapOK
  <2>2. bound # 0 /\ bound \in 0 .. Len(heap')
    BY <1>2, <1>4
  <2> QED  BY <1>1, <1>4, <2>1, <2>2 DEF ListsOK, HeapOK
<1>9. \A o \in DOMAIN heap' : \A m \in Nums(heap'[o]) : \E k \in DOMAIN heap : m \in Nums(heap[k])
  BY <1>2, <1>4, <1>5
<1>10. LiveOK'
  <2>1. Live' \subseteq Live
    BY <1>1, <1>9 DEF Live
  <2>2. Separate(Live', ids) /\ Since(Live', lastId, ids)
    BY <2>1, PartOf DEF ListsOK, LiveOK
  <2>3. \A n \in UnderWay', o \in DOMAIN heap' : \A m \in Nums(heap'[o]) : m < n
    BY <1>1, <1>9 DEF ListsOK, LiveOK
  <2> QED  BY <1>1, <2>2, <2>3 DEF LiveOK
<1>11. OneListOK'
  BY <1>1, <1>4, <1>6 DEF ListsOK, OneListOK
<1> QED  BY <1>1, <1>4, <1>6, <1>7, <1>8, <1>10, <1>11 DEF ListsOK

(* A push gets into its list, once those before it have. *)
LEMMA ListsWritten ==
  ASSUME ListsOK, NEW n \in UnderWay, IdWritten(n), \A m \in UnderWay \ {n} : n < m
  PROVE  /\ ListsOK' /\ ids' = ids /\ UnderWay' = UnderWay \ {n} /\ (OneList' => OneList)
         /\ Nums(ListAt(bound))' = Nums(ListAt(bound')) \cup {n}
         /\ OneList' => ListAt(bound') = ListAt(bound)
         /\ Len(heap) \in Nat /\ Len(heap') \in Nat /\ Len(heap) <= Len(heap')
<1> DEFINE o == ListFor(n)
           e == [n |-> n, id |-> arrived.ids[n], titled |-> saving[n].titled, shown |-> TRUE]
           list == Inserted(ListAt(o), e)
<1>1. /\ Stores(o, list) /\ bound' = o
      /\ saving' = [saving EXCEPT ![n] = Idle]
      /\ lastId' = lastId /\ arrived' = arrived
      /\ upsets \subseteq upsets' /\ (OneList' => bound \in {0, o})
  BY Zenon DEF IdWritten, Stores, OneList
<1>2. /\ Len(heap) \in Nat /\ DOMAIN heap = 1 .. Len(heap)
      /\ saving[n].list \in 0 .. Len(heap) /\ saving[n] \in Save
      /\ n \in 1 .. Len(ids)
  BY HeapIs, SavingIs DEF ListsOK, ArrivedOK, UnderWay
<1>3. o \in 1 .. Len(heap) + 1 /\ (bound = 0 => o = 1)
  <2>1. bound = 0 => Len(heap) = 0
    BY HeapIs DEF ListsOK, HeapOK
  <2> QED  BY <1>2, <2>1 DEF ListFor
<1>4. GoodList(ListAt(o), ids) /\ (o \in DOMAIN heap \/ ListAt(o) = <<>>)
  BY EmptyList DEF ListsOK, HeapOK, ListAt
<1>5. GoodEntry(e, ids) /\ e.n = n
  <2>1. arrived.ids[n] \in Ids \cup {NoValue} /\ arrived.ids[n] = ids[n] /\ n \in Nat
    BY <1>2, SavingIs DEF ListsOK, ids
  <2> QED  BY <1>2, <2>1 DEF GoodEntry, Entries, Save
<1>6. \A m \in Nums(ListAt(o)) : m < n
  BY <1>4, EmptyList DEF ListsOK, LiveOK, ListAt
<1> HIDE DEF o, e
<1>7. /\ GoodList(list, ids) /\ Nums(list) = Nums(ListAt(o)) \cup {n}
      /\ Descends(ListAt(o)) => Descends(list)
  BY <1>4, <1>5, <1>6, InsertedList
<1> HIDE DEF list
<1>8. /\ heap' \in Seq(Seq(Entries))
      /\ Len(heap') = IF o > Len(heap) THEN Len(heap) + 1 ELSE Len(heap)
      /\ DOMAIN heap' = DOMAIN heap \cup {o} /\ heap'[o] = list
      /\ \A k \in DOMAIN heap : k # o => heap'[k] = heap[k]
      /\ DOMAIN heap' = 1 .. Len(heap')
  BY <1>1, <1>3, <1>7, StoresStep DEF ListsOK, GoodList
<1>9. Len(heap') \in Nat /\ Len(heap) <= Len(heap') /\ o \in 1 .. Len(heap')
  BY <1>2, <1>3, <1>8
<1>10. ArrivedOK' /\ ids' = ids /\ UnderWay' = UnderWay \ {n}
  <2>1. ArrivedOK /\ UNCHANGED arrived
    BY <1>1 DEF ListsOK
  <2> QED  BY <1>1, <1>2, <1>9, <2>1, SavingEnds
<1>11. OneList' => OneList
  BY <1>1 DEF OneList
<1>12. HeapOK'
  <2>1. \A k \in DOMAIN heap' : GoodList(heap'[k], ids)
    BY <1>7, <1>8 DEF ListsOK, HeapOK
  <2>2. bound' \in 0 .. Len(heap') /\ bound' # 0
    BY <1>1, <1>9
  <2> QED  BY <1>1, <1>8, <1>10, <2>1, <2>2 DEF ListsOK, HeapOK
<1>13. Nums(ListAt(o)) \subseteq Live /\ \A k \in DOMAIN heap : Nums(heap[k]) \subseteq Live
  BY <1>4, EmptyList, LiveIs DEF ListsOK, ListAt
<1>14. \A k \in DOMAIN heap' : \A m \in Nums(heap'[k]) :
         \/ m = n
         \/ \E j \in DOMAIN heap : m \in Nums(heap[j])
  <2>1. \A m \in Nums(ListAt(o)) : \E j \in DOMAIN heap : m \in Nums(heap[j])
    BY <1>4, EmptyList DEF ListAt
  <2> QED  BY <1>7, <1>8, <2>1
<1>15. LiveOK'
  <2>1. Live' \subseteq Live
    BY <1>2, <1>10, <1>14 DEF Live
  <2>2. Separate(Live', ids) /\ Since(Live', lastId, ids)
    BY <2>1, PartOf DEF ListsOK, LiveOK
  <2>3. \A m2 \in UnderWay', k \in DOMAIN heap' : \A m \in Nums(heap'[k]) : m < m2
    BY <1>10, <1>14 DEF ListsOK, LiveOK
  <2> QED  BY <1>1, <1>10, <2>2, <2>3 DEF LiveOK
<1>16. ListAt(bound)' = list
  BY <1>1, <1>8 DEF ListAt
<1>17. OneList' => ListAt(o) = ListAt(bound)
  <2>1. CASE bound = 0
    <3>1. heap = <<>>
      BY <2>1 DEF ListsOK, HeapOK
    <3>2. DOMAIN heap = {}
      BY <3>1, EmptySeq, LenProperties
    <3> QED  BY <3>2 DEF ListAt
  <2> QED  BY <1>1, <2>1
<1>18. OneListOK'
  <2> SUFFICES ASSUME OneList'  PROVE /\ bound' = Len(heap') /\ bound' < 2
                                      /\ Descends(ListAt(bound)')
    BY DEF OneListOK
  <2>1. bound = Len(heap) /\ bound < 2 /\ Descends(ListAt(bound))
    BY <1>11 DEF ListsOK, OneListOK
  <2>2. Descends(ListAt(bound)')
    BY <1>7, <1>16, <1>17, <2>1
  <2>3. bound' = Len(heap') /\ bound' < 2
    <3>1. bound' = o /\ bound \in {0, o}
      BY <1>1
    <3>2. /\ Len(heap) \in Nat /\ o \in 1 .. Len(heap) + 1 /\ (bound = 0 => o = 1)
          /\ Len(heap') = IF o > Len(heap) THEN Len(heap) + 1 ELSE Len(heap)
      BY <1>2, <1>3, <1>8
    <3>3. o = 1
      BY <2>1, <3>1, <3>2
    <3> QED  BY <2>1, <3>1, <3>2, <3>3
  <2> QED  BY <2>2, <2>3
<1>19. /\ Nums(ListAt(bound))' = Nums(ListAt(bound')) \cup {n}
       /\ OneList' => ListAt(bound') = ListAt(bound)
  BY <1>1, <1>7, <1>16, <1>17
<1> QED  BY <1>2, <1>9, <1>10, <1>11, <1>12, <1>15, <1>18, <1>19 DEF ListsOK

(* What the file has is all there is after a restart. *)
LEMMA ListsRestart ==
  ASSUME ListsOK, GoodMap(file, ids, OneList), file \in Maps, Restart
  PROVE  /\ ListsOK' /\ ids' = ids /\ UnderWay' = {} /\ (OneList' => OneList)
         /\ ListAt(bound)' = Stored(file["notifications"])
<1> DEFINE stored == file["notifications"]
           list == Stored(stored)
<1>1. /\ heap' = IF stored = NoValue THEN <<>> ELSE <<stored>>
      /\ bound' = IF stored = NoValue THEN 0 ELSE 1
      /\ lastId' = file["message-id"]
      /\ saving' = [n \in DOMAIN saving |-> Idle]
      /\ arrived' = arrived /\ upsets \subseteq upsets'
  BY DEF Restart
<1>2. /\ lastId' \in Ids \cup {NoValue}
      /\ GoodList(list, ids) /\ Separate(Nums(list), ids) /\ Since(Nums(list), lastId', ids)
      /\ OneList => Descends(list)
  BY <1>1 DEF GoodMap
<1>3. ids' = ids /\ (OneList' => OneList)
  BY <1>1 DEF ids, OneList
<1>4. saving' \in Seq(Save) /\ Len(saving') = Len(saving) /\ UnderWay' = {}
  <2>1. saving \in Seq(Save) /\ DOMAIN saving = 1 .. Len(saving) /\ Len(saving) \in Nat
    BY LenProperties DEF ListsOK, ArrivedOK
  <2>2. Idle \in Save
    BY DEF Idle, Save
  <2>3. saving' \in [1 .. Len(saving) -> Save]
    BY <1>1, <2>1, <2>2
  <2>4. saving' \in Seq(Save)
    BY <2>1, <2>3, SeqDef
  <2>5. DOMAIN saving' = 1 .. Len(saving)
    BY <2>3
  <2>6. DOMAIN saving' = 1 .. Len(saving') /\ Len(saving') \in Nat
    BY <2>4, LenProperties
  <2>7. Len(saving') = Len(saving)
    BY <2>1, <2>5, <2>6
  <2> QED  BY <1>1, <2>4, <2>7 DEF UnderWay, Idle
<1>5. ArrivedOK'
  BY <1>1, <1>3, <1>4 DEF ListsOK, ArrivedOK
<1>6. CASE stored = NoValue
  <2>1. heap' = <<>> /\ bound' = 0 /\ list = <<>>
    BY <1>1, <1>6 DEF Stored
  <2>2. heap' \in Seq(Seq(Entries)) /\ Len(heap') = 0 /\ DOMAIN heap' = {}
    BY <2>1, EmptySeq, LenProperties
  <2>3. Live' = {}
    BY <1>4, <2>2 DEF Live
  <2>4. HeapOK' /\ LiveOK' /\ ListAt(bound)' = list
    BY <1>2, <1>4, <2>1, <2>2, <2>3 DEF HeapOK, LiveOK, Separate, Since, ListAt
  <2>5. OneListOK'
    BY <2>1, <2>2, <2>4, EmptyList DEF OneListOK
  <2> QED  BY <1>3, <1>4, <1>5, <2>4, <2>5 DEF ListsOK
<1>7. CASE stored # NoValue
  <2>1. heap' = <<stored>> /\ bound' = 1 /\ list = stored
    BY <1>1, <1>7 DEF Stored
  <2>2. list \in Seq(Entries)
    BY <1>2 DEF GoodList
  <2> HIDE DEF list
  <2>3. /\ heap' \in Seq(Seq(Entries)) /\ Len(heap') = 1 /\ DOMAIN heap' = {1}
        /\ heap'[1] = list
    BY <2>1, <2>2
  <2>4. Live' \subseteq Nums(list)
    BY <1>4, <2>3 DEF Live
  <2>5. Separate(Live', ids) /\ Since(Live', lastId', ids)
    BY <1>2, <2>4, PartOf
  <2>6. LiveOK'
    BY <1>3, <1>4, <2>5 DEF LiveOK
  <2>7. HeapOK' /\ ListAt(bound)' = list
    BY <1>2, <1>3, <2>1, <2>3 DEF HeapOK, ListAt
  <2>8. OneListOK'
    BY <1>2, <1>3, <2>1, <2>3, <2>7 DEF OneListOK
  <2> QED  BY <1>3, <1>4, <1>5, <2>6, <2>7, <2>8 DEF ListsOK, list
<1> QED  BY <1>6, <1>7

-----------------------------------------------------------------------------
(* The file, step by step.                                                   *)

FilesOK ==
  /\ fileWrites \in Seq(Write) /\ file \in Maps /\ fileLost \in BOOLEAN
  /\ FileOK(fileWrites, file, ids, OneList)
  /\ QueueOK(fileWrites, UnderWay, Len(ids))
  /\ SyncOK(fileWrites, file, fileLost, Mem)

(* Every push that came before is there still. *)
LEMMA ExtendsItself ==
  ASSUME ListsOK, ids' = ids  PROVE Extends(ids', ids)
<1>1. ids \in Seq(Ids \cup {NoValue}) /\ Len(ids) \in Nat
  BY SavingIs DEF ListsOK
<1> QED  BY <1>1 DEF Extends

MemOK == Mem \in Maps /\ GoodMap(Mem, ids, OneList)

LEMMA GoodMemLater ==
  ListsOK' => Mem' \in Maps /\ GoodMap(Mem', ids', OneList')
<1>1. ListsOK => MemOK
  BY GoodMem DEF MemOK
<1>2. ListsOK' => MemOK'
  BY <1>1, PTL
<1> QED  BY <1>2 DEF MemOK

(* A write of the map as it is now goes behind the others. *)
LEMMA FilesSet ==
  ASSUME FilesOK, ListsOK', Extends(ids', ids), OneList' => OneList, NEW t \in Task,
         file' = file, fileLost' = FALSE, fileWrites' = Append(fileWrites, [map |-> Mem', task |-> t]),
         QueueOK(fileWrites', UnderWay', Len(ids'))
  PROVE  FilesOK'
<1> DEFINE e == [map |-> Mem', task |-> t]
<1>1. Mem' \in Maps /\ GoodMap(Mem', ids', OneList')
  BY GoodMemLater
<1>2. e \in Write /\ fileWrites \in Seq(Write) /\ file \in Maps /\ e.map = Mem'
  BY <1>1 DEF Write, FilesOK
<1> HIDE DEF e
<1>3. FileOK(fileWrites, file, ids', OneList')
  BY FileLater DEF FilesOK
<1>4. FileOK(Append(fileWrites, e), file, ids', OneList')
  BY <1>1, <1>2, <1>3, FileAppends
<1>5. SyncOK(Append(fileWrites, e), file, FALSE, Mem')
  BY <1>2, SyncSets
<1>6. Append(fileWrites, e) \in Seq(Write)
  BY <1>2, AppendPlaces
<1> QED  BY <1>2, <1>4, <1>5, <1>6 DEF FilesOK, e

(* The oldest write becomes the file. *)
LEMMA FilesWritten ==
  ASSUME FilesOK, NEW t, FS!Written(t), ids' = ids, UnderWay' = UnderWay, ListsOK,
         OneList' => OneList, \A n \in UnderWay : t # Saves(n)
  PROVE  FilesOK'
<1>1. /\ fileWrites \in Seq(Write) /\ fileWrites # <<>> /\ Head(fileWrites).task = t
      /\ file' = Head(fileWrites).map /\ fileWrites' = Tail(fileWrites) /\ Mem' = Mem /\ fileLost' = fileLost
  BY DEF FilesOK, FS!Written
<1>2. Dropped(Write, fileWrites', fileWrites, 1) /\ 1 \in DOMAIN fileWrites /\ Head(fileWrites) = fileWrites[1]
  BY <1>1, TailDropped
<1>3. fileWrites[1].map \in Maps /\ fileWrites' \in Seq(Write)
  BY <1>1, <1>2, QueueIs DEF Dropped
<1>4. FileOK(fileWrites', fileWrites[1].map, ids, OneList)
  BY <1>1, <1>2, FileDrops DEF FilesOK
<1>5. FileOK(fileWrites', file', ids', OneList')
  BY <1>1, <1>2, <1>4, FileLater, ExtendsItself
<1>6. QueueOK(fileWrites', UnderWay', Len(ids'))
  BY <1>1, <1>2, QueueDrops DEF FilesOK
<1>7. SyncOK(fileWrites', file', fileLost', Mem')
  BY <1>1, SyncWritten DEF FilesOK
<1> QED  BY <1>1, <1>2, <1>3, <1>5, <1>6, <1>7 DEF FilesOK

(* A write fails, and nobody waits for it any more. *)
LEMMA FilesFail ==
  ASSUME FilesOK, NEW t, FS!WriteFails(t), ids' = ids, UnderWay' \subseteq UnderWay, ListsOK,
         OneList' => OneList, \A n \in UnderWay' : t # Saves(n)
  PROVE  FilesOK'
<1>1. PICK d \in DOMAIN fileWrites :
        /\ fileWrites[d].task = t /\ fileWrites' = FS!RemoveAt(fileWrites, d)
        /\ fileLost' = (fileLost \/ d = Len(fileWrites)) /\ Mem' = Mem /\ file' = file
  BY DEF FS!WriteFails
<1>8. fileWrites' = RemoveAt(fileWrites, d)
  BY <1>1 DEF RemoveAt, FS!RemoveAt
<1>2. fileWrites \in Seq(Write) /\ fileLost \in BOOLEAN /\ file \in Maps
  BY DEF FilesOK
<1>3. Dropped(Write, fileWrites', fileWrites, d) /\ fileWrites' \in Seq(Write)
  BY <1>1, <1>2, <1>8, RemovedDropped DEF Dropped
<1>4. FileOK(fileWrites', file', ids', OneList')
  BY <1>1, <1>2, <1>3, FileDrops, FileLater, ExtendsItself DEF FilesOK
<1>5. QueueOK(fileWrites', UnderWay', Len(ids'))
  BY <1>1, <1>2, <1>3, QueueDrops DEF FilesOK
<1>6. SyncOK(fileWrites', file', fileLost', Mem')
  BY <1>1, <1>2, <1>3, SyncFails DEF FilesOK
<1>7. fileLost' \in BOOLEAN
  BY <1>1, <1>2, Zenon
<1> QED  BY <1>1, <1>2, <1>3, <1>4, <1>5, <1>6, <1>7 DEF FilesOK

(* The write of an id becomes the file, and the list is to be written. *)
LEMMA FilesWrittenThenSet ==
  ASSUME FilesOK, ListsOK, ListsOK', NEW n \in UnderWay, NEW list,
         FS!WrittenThenSet(Saves(n), "notifications", list),
         ids' = ids, UnderWay' = UnderWay \ {n}, OneList' => OneList
  PROVE  FilesOK'
<1> DEFINE e == [map |-> Mem', task |-> Saves(n)]
           rest == Tail(fileWrites)
<1>1. /\ fileWrites \in Seq(Write) /\ fileWrites # <<>> /\ Head(fileWrites).task = Saves(n)
      /\ file' = Head(fileWrites).map /\ fileLost' = FALSE
      /\ fileWrites' = Append(rest, e)
  BY DEF FilesOK, FS!WrittenThenSet
<1>2. Dropped(Write, rest, fileWrites, 1) /\ 1 \in DOMAIN fileWrites /\ Head(fileWrites) = fileWrites[1]
  BY <1>1, TailDropped
<1>3. /\ Mem' \in Maps /\ GoodMap(Mem', ids', OneList')
      /\ n \in 1 .. Len(ids)
  BY GoodMemLater, SavingIs DEF ListsOK
<1>4. /\ rest \in Seq(Write) /\ e \in Write /\ file' \in Maps
      /\ e.map = Mem' /\ e.task = Saves(n)
  <2>1. Saves(n) \in Task
    BY <1>3, SavingIs DEF Task, ListsOK
  <2> QED  BY <1>1, <1>2, <1>3, <2>1, QueueIs DEF Dropped, Write
<1> HIDE DEF e, rest
<1>5. FileOK(rest, file', ids', OneList')
  <2>1. FileOK(rest, fileWrites[1].map, ids, OneList)
    BY <1>1, <1>2, FileDrops DEF FilesOK
  <2> QED  BY <1>1, <1>2, <2>1, FileLater, ExtendsItself
<1>6. FileOK(fileWrites', file', ids', OneList')
  BY <1>1, <1>3, <1>4, <1>5, FileAppends
<1>7. QueueOK(rest, UnderWay', Len(ids))
  <2>1. \A m \in UnderWay' : fileWrites[1].task # Saves(m)
    BY <1>1, <1>2, TaskNames
  <2> QED  BY <1>1, <1>2, <2>1, QueueDrops DEF FilesOK
<1>8. QueueOK(fileWrites', UnderWay', Len(ids'))
  BY <1>1, <1>3, <1>4, <1>7, QueueAppends
<1>9. SyncOK(fileWrites', file', FALSE, Mem')
  BY <1>1, <1>4, SyncSets
<1>10. fileWrites' \in Seq(Write)
  BY <1>1, <1>4, AppendPlaces
<1> QED  BY <1>1, <1>4, <1>6, <1>8, <1>9, <1>10 DEF FilesOK

LEMMA FilesReload ==
  ASSUME FilesOK, FS!Reload, ids' = ids, UnderWay' = {}, ListsOK, OneList' => OneList
  PROVE  FilesOK' /\ Mem' = file
<1>1. Mem' = file /\ file' = file /\ fileWrites' = <<>> /\ fileLost' = FALSE
  BY DEF FS!Reload
<1>2. fileWrites' \in Seq(Write) /\ DOMAIN fileWrites' = {}
  BY <1>1, EmptySeq, LenProperties
<1>3. FileOK(fileWrites', file', ids', OneList')
  BY <1>1, <1>2, GoodMapLater, ExtendsItself DEF FilesOK, FileOK
<1>4. QueueOK(fileWrites', UnderWay', Len(ids'))
  BY <1>2 DEF QueueOK
<1> QED  BY <1>1, <1>2, <1>3, <1>4 DEF FilesOK, SyncOK

(* The writes the screen awaits change hands, and nothing else. *)
LEMMA FilesClose ==
  ASSUME FilesOK, ListsOK, Close, ids' = ids, UnderWay' = UnderWay, OneList' => OneList
  PROVE  FilesOK'
<1>1. /\ file' = file /\ fileLost' = fileLost /\ Mem' = Mem
      /\ fileWrites' = [i \in DOMAIN fileWrites |->
           IF fileWrites[i].task \in {Opens, Removes} THEN [fileWrites[i] EXCEPT !.task = Gone]
           ELSE fileWrites[i]]
  BY DEF Close, listVars, Mem
<1>2. fileWrites \in Seq(Write) /\ Len(fileWrites) \in Nat /\ DOMAIN fileWrites = 1 .. Len(fileWrites)
  BY QueueIs DEF FilesOK
<1>3. \A i \in DOMAIN fileWrites : fileWrites[i] \in Write
  BY <1>2, QueueIs
<1>4. Gone \in Task
  BY DEF Task
<1>5. /\ DOMAIN fileWrites' = DOMAIN fileWrites
      /\ \A i \in DOMAIN fileWrites :
           /\ fileWrites'[i] \in Write /\ fileWrites'[i].map = fileWrites[i].map
           /\ fileWrites'[i].task = IF fileWrites[i].task \in {Opens, Removes} THEN Gone
                                ELSE fileWrites[i].task
  BY <1>1, <1>3, <1>4 DEF Write
<1>6. fileWrites' \in Seq(Write) /\ Len(fileWrites') = Len(fileWrites)
  <2>1. fileWrites' \in [1 .. Len(fileWrites) -> Write]
    BY <1>1, <1>2, <1>5
  <2>2. fileWrites' \in Seq(Write)
    BY <1>2, <2>1, SeqDef
  <2>3. DOMAIN fileWrites' = 1 .. Len(fileWrites') /\ Len(fileWrites') \in Nat
    BY <2>2, LenProperties
  <2> QED  BY <1>2, <1>5, <2>2, <2>3
<1>7. FileOK(fileWrites', file', ids', OneList')
  <2>1. FileOK(fileWrites, file, ids', OneList')
    BY FileLater, ExtendsItself DEF FilesOK
  <2> QED  BY <1>1, <1>5, <2>1 DEF FileOK
<1>8. QueueOK(fileWrites', UnderWay', Len(ids'))
  <2>1. \A i \in DOMAIN fileWrites : \A n :
          fileWrites'[i].task = Saves(n) <=> fileWrites[i].task = Saves(n)
    BY <1>5, TaskNames
  <2>2. \A i \in DOMAIN fileWrites : fileWrites[i].task \in {Opens, Removes, Gone} =>
          fileWrites'[i].task \in {Opens, Removes, Gone}
    BY <1>5
  <2> QED  BY <1>5, <2>1, <2>2 DEF FilesOK, QueueOK
<1>9. SyncOK(fileWrites', file', fileLost', Mem')
  <2>1. fileWrites' = <<>> <=> fileWrites = <<>>
    BY <1>2, <1>6, QueueIs
  <2>2. fileWrites # <<>> => Len(fileWrites) \in DOMAIN fileWrites
    BY <1>2, QueueIs
  <2> QED  BY <1>1, <1>5, <1>6, <2>1, <2>2 DEF FilesOK, SyncOK
<1> QED  BY <1>1, <1>6, <1>7, <1>8, <1>9 DEF FilesOK

-----------------------------------------------------------------------------
(* The screen and the histories.                                             *)

ScreenOK ==
  /\ data \in Closed .. Len(heap)
  /\ \A i \in DOMAIN rows : rows[i] \in Entries

Whole == upsets \cap {"failure", "crash", "two lists"} = {}

KeptOK ==
  Whole => \A n \in 1 .. Len(ids) : n \in Nums(ListAt(bound)) \cup removed \cup UnderWay

Calm == upsets \cap {"moved rows", "two lists"} = {}

(* Nothing moved: the rows are those of the stored list, by their indices,   *)
(* except while the removal of one is being written.                         *)
InPlace(list) == \A i \in DOMAIN rows : i \in DOMAIN list /\ rows[i].n = list[i].n

SwipedOK ==
  Calm => /\ removed = swiped
          /\ data # Closed => data = bound
          /\ data # Closed /\ ~FS!Awaiting(Removes) => InPlace(ListAt(bound))

NotifInv == ListsOK /\ FilesOK /\ ScreenOK /\ KeptOK /\ SwipedOK

LEMMA CalmIs ==
  ASSUME upsets \subseteq upsets'
  PROVE  (Calm' => Calm) /\ (Whole' => Whole) /\ (Calm => OneList) /\ (Whole => OneList)
         /\ (OneList' => OneList)
BY DEF Calm, Whole, OneList

(* A row can be touched only where a list is displayed, and stored.          *)
LEMMA TouchedList ==
  ASSUME NotifInv, NEW i, Touchable(i)
  PROVE  /\ data \in DOMAIN heap /\ bound \in DOMAIN heap /\ bound # 0
         /\ ListAt(bound) = heap[bound] /\ ListAt(data) = heap[data]
         /\ OneList => data = bound
         /\ i \in DOMAIN rows
<1>1. data > 0 /\ i \in DOMAIN rows
  BY DEF Touchable
<1>2. DOMAIN heap = 1 .. Len(heap) /\ Len(heap) \in Nat /\ (heap = <<>> => Len(heap) = 0)
  BY HeapIs DEF NotifInv, ListsOK
<1>3. data \in 1 .. Len(heap)
  BY <1>1, <1>2 DEF NotifInv, ScreenOK, Closed
<1>4. bound \in 1 .. Len(heap)
  BY <1>2, <1>3 DEF NotifInv, ListsOK, HeapOK
<1>5. OneList => data = bound
  <2> SUFFICES ASSUME OneList  PROVE data = bound
    OBVIOUS
  <2>1. bound = Len(heap) /\ bound < 2
    BY DEF NotifInv, ListsOK, OneListOK
  <2>2. Len(heap) \in Nat
    BY <1>2
  <2> QED  BY <1>3, <1>4, <2>1, <2>2
<1> QED  BY <1>1, <1>2, <1>3, <1>4, <1>5 DEF ListAt

LEMMA RowsOfList ==
  ASSUME NotifInv, NEW o
  PROVE  \A i \in DOMAIN ListAt(o) : ListAt(o)[i] \in Entries
<1>1. CASE o \in DOMAIN heap
  BY <1>1, GoodListIs DEF NotifInv, ListsOK, HeapOK, ListAt
<1>2. CASE o \notin DOMAIN heap
  <2>1. ListAt(o) = <<>>
    BY <1>2 DEF ListAt
  <2>2. DOMAIN ListAt(o) = {}
    BY <2>1, EmptySeq, LenProperties
  <2> QED  BY <2>2
<1> QED  BY <1>1, <1>2

LEMMA InPlaceItself ==
  ASSUME NEW list, rows' = list  PROVE InPlace(list)'
BY DEF InPlace

(* What goes on waiting. *)
LEMMA WaitsStill ==
  ASSUME fileWrites \in Seq(Write),
         \/ \E e \in Write : fileWrites' = Append(fileWrites, e)
         \/ \E d \in DOMAIN fileWrites : Dropped(Write, fileWrites', fileWrites, d) /\ fileWrites[d].task # Removes
  PROVE  FS!Awaiting(Removes) => FS!Awaiting(Removes)'
<1> SUFFICES ASSUME NEW i \in DOMAIN fileWrites, fileWrites[i].task = Removes
             PROVE  \E k \in DOMAIN fileWrites' : fileWrites'[k].task = Removes
  BY DEF FS!Awaiting
<1>1. CASE \E e \in Write : fileWrites' = Append(fileWrites, e)
  BY <1>1, AppendPlaces
<1>2. CASE \E d \in DOMAIN fileWrites : Dropped(Write, fileWrites', fileWrites, d) /\ fileWrites[d].task # Removes
  <2>1. PICK d \in DOMAIN fileWrites : Dropped(Write, fileWrites', fileWrites, d) /\ fileWrites[d].task # Removes
    BY <1>2
  <2>2. \E k \in DOMAIN fileWrites' : fileWrites'[k] = fileWrites[i]
    BY <2>1, DroppedPlaces
  <2> QED  BY <2>2
<1> QED  BY <1>1, <1>2

LEMMA WrittenWaits ==
  ASSUME fileWrites \in Seq(Write), NEW t, t # Removes, FS!Written(t) \/ FS!WriteFails(t)
  PROVE  FS!Awaiting(Removes) => FS!Awaiting(Removes)'
<1>1. CASE FS!Written(t)
  <2>1. fileWrites # <<>> /\ Head(fileWrites).task = t /\ fileWrites' = Tail(fileWrites)
    BY <1>1 DEF FS!Written
  <2> QED  BY <2>1, TailDropped, WaitsStill
<1>2. CASE FS!WriteFails(t)
  <2>1. PICK d \in DOMAIN fileWrites : fileWrites[d].task = t /\ fileWrites' = FS!RemoveAt(fileWrites, d)
    BY <1>2 DEF FS!WriteFails
  <2>2. fileWrites' = RemoveAt(fileWrites, d)
    BY <2>1 DEF RemoveAt, FS!RemoveAt
  <2> QED  BY <2>1, <2>2, RemovedDropped, WaitsStill
<1> QED  BY <1>1, <1>2

(* The lists and the savings stay as they are. *)
LEMMA QuietStep ==
  ASSUME NotifInv, UNCHANGED <<heap, bound, lastId, saving, arrived, removed>>,
         upsets \subseteq upsets'
  PROVE  /\ ListsOK' /\ ids' = ids /\ UnderWay' = UnderWay /\ (OneList' => OneList)
         /\ KeptOK' /\ ListAt(bound)' = ListAt(bound) /\ Len(heap') = Len(heap)
         /\ (Calm' => Calm)
<1>1. ListsOK' /\ ids' = ids /\ UnderWay' = UnderWay /\ (OneList' => OneList)
  <2>1. ListsOK /\ arrived \in [ids : Seq(Ids \cup {NoValue}), count : Nat]
    BY DEF NotifInv, ListsOK, ArrivedOK
  <2> QED  BY <2>1, ListsStay
<1>2. ListAt(bound)' = ListAt(bound)
  BY DEF ListAt
<1>3. KeptOK'
  BY <1>1, <1>2, CalmIs DEF NotifInv, KeptOK
<1> QED  BY <1>1, <1>2, <1>3, CalmIs

(* The screen takes the stored list. *)
LEMMA Redrawn ==
  ASSUME NotifInv, UNCHANGED <<heap, bound>>, data' = bound, rows' = ListAt(bound),
         UNCHANGED <<removed, swiped>>, upsets \subseteq upsets'
  PROVE  ScreenOK' /\ SwipedOK'
<1>1. ListAt(bound)' = ListAt(bound)
  BY DEF ListAt
<1>2. \A i \in DOMAIN ListAt(bound) : ListAt(bound)[i] \in Entries
  BY RowsOfList
<1>3. bound \in 0 .. Len(heap) /\ Len(heap) \in Nat
  BY HeapIs DEF NotifInv, ListsOK, HeapOK
<1>4. ScreenOK'
  BY <1>2, <1>3 DEF ScreenOK, Closed
<1>5. InPlace(ListAt(bound))'
  BY <1>1, InPlaceItself
<1>6. Calm' => Calm
  BY CalmIs
<1> QED  BY <1>4, <1>5, <1>6 DEF NotifInv, SwipedOK

-----------------------------------------------------------------------------
(* Every step keeps the invariant.                                           *)

LEMMA PushKeeps ==
  ASSUME NotifInv, NEW id \in Ids \cup {NoValue}, NEW titled \in BOOLEAN, Push(id, titled)
  PROVE  NotifInv'
<1> DEFINE N == Len(ids)
<1>1. ListsOK /\ FilesOK
  BY DEF NotifInv
<1>2. /\ ListsOK' /\ Extends(ids', ids) /\ Len(ids') = N + 1
      /\ UnderWay' = UnderWay \cup {N + 1} /\ (OneList' => OneList)
  BY <1>1, ListsPush
<1>3. /\ UNCHANGED <<heap, bound, data, rows, removed, swiped, upsets>>
      /\ file' = file /\ fileLost' = FALSE
      /\ fileWrites' = Append(fileWrites, [map |-> Mem', task |-> Saves(N + 1)])
  BY DEF Push, FS!SetItem, ids, screenVars, histVars
<1>4. N \in Nat /\ UnderWay \subseteq 1 .. N
  BY <1>1, SavingIs DEF ListsOK
<1> HIDE DEF N
<1>5. Saves(N + 1) \in Task /\ Mem' \in Maps
  BY <1>2, <1>4, GoodMemLater DEF Task
<1>6. fileWrites \in Seq(Write) /\ [map |-> Mem', task |-> Saves(N + 1)] \in Write
  BY <1>1, <1>5 DEF FilesOK, Write
<1>7. QueueOK(fileWrites', UnderWay', N + 1)
  BY <1>1, <1>2, <1>3, <1>4, <1>6, QueuePushes DEF FilesOK, N
<1>8. FilesOK'
  BY <1>1, <1>2, <1>3, <1>5, <1>7, FilesSet
<1>9. ListAt(bound)' = ListAt(bound) /\ (Whole' => Whole) /\ (Calm' => Calm)
  BY <1>3 DEF ListAt, Whole, Calm
<1>10. KeptOK'
  <2> SUFFICES ASSUME Whole', NEW n \in 1 .. N + 1
               PROVE  n \in Nums(ListAt(bound)) \cup removed \cup UnderWay'
    BY <1>2, <1>3, <1>9 DEF KeptOK
  <2>1. n \in 1 .. N \/ n = N + 1
    BY <1>4
  <2> QED  BY <1>2, <1>9, <2>1 DEF NotifInv, KeptOK, N
<1>11. FS!Awaiting(Removes) => FS!Awaiting(Removes)'
  BY <1>3, <1>6, WaitsStill
<1>12. SwipedOK'
  BY <1>3, <1>9, <1>11 DEF NotifInv, SwipedOK, InPlace
<1>13. ScreenOK'
  BY <1>3 DEF NotifInv, ScreenOK
<1> QED  BY <1>2, <1>8, <1>10, <1>12, <1>13 DEF NotifInv

LEMMA RepeatKeeps ==
  ASSUME NotifInv, NEW id \in Ids, Repeat(id)
  PROVE  NotifInv'
<1>1. /\ UNCHANGED <<heap, bound, lastId, saving, data, rows, removed, swiped, upsets>>
      /\ UNCHANGED <<file, fileWrites, fileLost>>
      /\ arrived' = [arrived EXCEPT !.count = @ + 1]
  BY DEF Repeat, listVars, fileVars, screenVars, histVars
<1>2. /\ arrived' \in [ids : Seq(Ids \cup {NoValue}), count : Nat]
      /\ arrived'.ids = arrived.ids
  BY <1>1 DEF NotifInv, ListsOK, ArrivedOK
<1>3. ListsOK' /\ ids' = ids /\ UnderWay' = UnderWay /\ (OneList' => OneList)
  <2>1. ListsOK
    BY DEF NotifInv
  <2> QED  BY <1>1, <1>2, <2>1, ListsStay
<1>4. Mem' = Mem /\ ListAt(bound)' = ListAt(bound) /\ OneList' = OneList
  BY <1>1 DEF Mem, ListAt, OneList
<1>5. FilesOK'
  BY <1>1, <1>3, <1>4 DEF NotifInv, FilesOK
<1>6. KeptOK' /\ SwipedOK' /\ ScreenOK'
  BY <1>1, <1>3, <1>4 DEF NotifInv, KeptOK, Whole, SwipedOK, Calm, InPlace, ScreenOK, FS!Awaiting
<1> QED  BY <1>3, <1>5, <1>6 DEF NotifInv

(* The push that heads the queue is older than the others under way. *)
LEMMA OldestFirst ==
  ASSUME NotifInv, NEW n \in UnderWay, fileWrites # <<>>, Head(fileWrites).task = Saves(n)
  PROVE  \A m \in UnderWay \ {n} : n < m
<1>1. /\ fileWrites \in Seq(Write) /\ QueueOK(fileWrites, UnderWay, Len(ids))
  BY DEF NotifInv, FilesOK
<1>2. /\ DOMAIN fileWrites = 1 .. Len(fileWrites) /\ Len(fileWrites) \in Nat
      /\ 1 \in DOMAIN fileWrites /\ Head(fileWrites) = fileWrites[1]
  BY <1>1, QueueIs, TailDropped
<1> SUFFICES ASSUME NEW m \in UnderWay \ {n}  PROVE n < m
  OBVIOUS
<1>3. PICK i \in DOMAIN fileWrites : fileWrites[i].task = Saves(m)
  BY <1>1 DEF QueueOK
<1>4. i # 1
  BY <1>2, <1>3, TaskNames
<1>5. 1 < i
  BY <1>2, <1>4
<1> QED  BY <1>1, <1>2, <1>3, <1>5 DEF QueueOK

LEMMA IdWrittenKeeps ==
  ASSUME NotifInv, NEW n \in DOMAIN saving, IdWritten(n)
  PROVE  NotifInv'
<1> DEFINE list == Inserted(ListAt(ListFor(n)),
                     [n |-> n, id |-> arrived.ids[n], titled |-> saving[n].titled,
                      shown |-> TRUE])
<1>1. /\ n \in UnderWay /\ UNCHANGED <<data, rows, removed, swiped>>
      /\ FS!WrittenThenSet(Saves(n), "notifications", list)
      /\ upsets \subseteq upsets' /\ (Calm' => data = Closed)
  <2>1. n \in UnderWay
    BY DEF IdWritten, UnderWay
  <2>2. UNCHANGED <<data, rows, removed, swiped>>
    BY DEF IdWritten, screenVars
  <2>3. FS!WrittenThenSet(Saves(n), "notifications", list)
    BY Zenon DEF IdWritten
  <2>4. upsets' = upsets \cup {u \in {"two lists"} : bound \notin {0, ListFor(n)}}
                         \cup {u \in {"moved rows"} : data # Closed}
    BY Zenon DEF IdWritten
  <2>5. upsets \subseteq upsets' /\ (data # Closed => "moved rows" \in upsets')
    BY <2>4
  <2> QED  BY <2>1, <2>2, <2>3, <2>5 DEF Calm
<1> HIDE DEF list
<1>2. ListsOK /\ FilesOK /\ \A m \in UnderWay \ {n} : n < m
  <2>1. fileWrites # <<>> /\ Head(fileWrites).task = Saves(n)
    BY <1>1 DEF FS!WrittenThenSet
  <2> QED  BY <1>1, <2>1, OldestFirst DEF NotifInv
<1>3. /\ ListsOK' /\ ids' = ids /\ UnderWay' = UnderWay \ {n} /\ (OneList' => OneList)
      /\ Nums(ListAt(bound))' = Nums(ListAt(bound')) \cup {n}
      /\ OneList' => ListAt(bound') = ListAt(bound)
      /\ Len(heap) \in Nat /\ Len(heap') \in Nat /\ Len(heap) <= Len(heap')
  BY <1>1, <1>2, ListsWritten
<1>4. FilesOK'
  BY <1>1, <1>2, <1>3, FilesWrittenThenSet
<1>5. KeptOK'
  <2> SUFFICES ASSUME Whole'
               PROVE  \A m \in 1 .. Len(ids) :
                        m \in Nums(ListAt(bound))' \cup removed' \cup UnderWay'
    BY <1>3 DEF KeptOK
  <2>1. Whole /\ OneList'
    BY <1>1 DEF Whole, OneList
  <2> QED  BY <1>1, <1>3, <2>1 DEF NotifInv, KeptOK
<1>6. SwipedOK'
  <2>1. Calm' => Calm
    BY <1>1, CalmIs
  <2> QED  BY <1>1, <2>1 DEF NotifInv, SwipedOK
<1>7. ScreenOK'
  <2>1. data \in Closed .. Len(heap')
    <3>1. data \in Closed .. Len(heap)
      BY DEF NotifInv, ScreenOK
    <3> QED  BY <1>3, <3>1 DEF Closed
  <2> QED  BY <1>1, <2>1 DEF NotifInv, ScreenOK
<1> QED  BY <1>3, <1>4, <1>5, <1>6, <1>7 DEF NotifInv

LEMMA IdFailsKeeps ==
  ASSUME NotifInv, NEW n \in DOMAIN saving, IdFails(n)
  PROVE  NotifInv'
<1>1. /\ n \in UnderWay /\ FS!WriteFails(Saves(n))
      /\ UNCHANGED <<heap, bound, data, rows, removed, swiped>>
      /\ upsets' = upsets \cup {"failure"}
  BY DEF IdFails, UnderWay, listVars, screenVars
<1>2. ListsOK /\ FilesOK /\ fileWrites \in Seq(Write)
  BY DEF NotifInv, FilesOK
<1>3. ListsOK' /\ ids' = ids /\ UnderWay' = UnderWay \ {n} /\ (OneList' => OneList)
  BY <1>1, <1>2, ListsFails
<1>4. FilesOK'
  <2>1. UnderWay' \subseteq UnderWay /\ \A m \in UnderWay' : Saves(n) # Saves(m)
    BY <1>3, TaskNames
  <2> QED  BY <1>1, <1>2, <1>3, <2>1, FilesFail
<1>5. ~Whole' /\ (Calm' => Calm)
  BY <1>1 DEF Whole, Calm
<1>6. FS!Awaiting(Removes) => FS!Awaiting(Removes)'
  BY <1>1, <1>2, TaskNames, WrittenWaits
<1>7. ListAt(bound)' = ListAt(bound)
  BY <1>1 DEF ListAt
<1>8. KeptOK' /\ SwipedOK' /\ ScreenOK'
  BY <1>1, <1>5, <1>6, <1>7 DEF NotifInv, KeptOK, SwipedOK, InPlace, ScreenOK
<1> QED  BY <1>3, <1>4, <1>8 DEF NotifInv

(* The files do not change. *)
LEMMA FilesStay ==
  ASSUME FilesOK, ListsOK, UNCHANGED <<heap, bound, lastId, file, fileWrites, fileLost>>,
         ids' = ids, UnderWay' = UnderWay, OneList' => OneList
  PROVE  FilesOK'
<1>1. Mem' = Mem
  BY DEF Mem
<1>2. FileOK(fileWrites, file, ids', OneList')
  BY FileLater, ExtendsItself DEF FilesOK
<1> QED  BY <1>1, <1>2 DEF FilesOK

LEMMA OpenKeeps ==
  ASSUME NotifInv, Open  PROVE NotifInv'
<1>1. /\ UNCHANGED <<heap, bound, lastId, saving, arrived, removed, swiped>>
      /\ UNCHANGED <<file, fileWrites, fileLost>>
      /\ upsets \subseteq upsets' /\ data' = bound /\ rows' = ListAt(bound)
  BY DEF Open, listVars, fileVars, histVars
<1>2. ListsOK' /\ ids' = ids /\ UnderWay' = UnderWay /\ (OneList' => OneList) /\ KeptOK'
  BY <1>1, QuietStep
<1>3. FilesOK'
  BY <1>1, <1>2, FilesStay DEF NotifInv
<1>4. ScreenOK' /\ SwipedOK'
  BY <1>1, Redrawn
<1> QED  BY <1>2, <1>3, <1>4 DEF NotifInv

LEMMA TapGoneKeeps ==
  ASSUME NotifInv, NEW i, TapGone(i)  PROVE NotifInv'
<1>1. /\ UNCHANGED <<heap, bound, lastId, saving, arrived, removed, swiped>>
      /\ UNCHANGED <<file, fileWrites, fileLost>>
      /\ upsets \subseteq upsets' /\ data' = bound /\ rows' = ListAt(bound)
  BY DEF TapGone, listVars, fileVars, histVars
<1>2. ListsOK' /\ ids' = ids /\ UnderWay' = UnderWay /\ (OneList' => OneList) /\ KeptOK'
  BY <1>1, QuietStep
<1>3. FilesOK'
  BY <1>1, <1>2, FilesStay DEF NotifInv
<1>4. ScreenOK' /\ SwipedOK'
  BY <1>1, Redrawn
<1> QED  BY <1>2, <1>3, <1>4 DEF NotifInv

LEMMA RebuildKeeps ==
  ASSUME NotifInv, Rebuild  PROVE NotifInv'
<1>1. /\ UNCHANGED <<heap, bound, lastId, saving, arrived, removed, swiped, data>>
      /\ UNCHANGED <<file, fileWrites, fileLost>>
      /\ upsets' = upsets /\ data # Closed /\ rows' = ListAt(data)
  BY DEF Rebuild, listVars, fileVars, histVars
<1>2. ListsOK' /\ ids' = ids /\ UnderWay' = UnderWay /\ (OneList' => OneList) /\ KeptOK'
      /\ ListAt(bound)' = ListAt(bound) /\ (Calm' => Calm)
  BY <1>1, QuietStep
<1>3. FilesOK'
  BY <1>1, <1>2, FilesStay DEF NotifInv
<1>4. ScreenOK'
  BY <1>1, RowsOfList DEF NotifInv, ScreenOK
<1>5. SwipedOK'
  <2>1. Calm' => data = bound
    BY <1>1, <1>2 DEF NotifInv, SwipedOK
  <2>2. InPlace(ListAt(data))'
    BY <1>1, InPlaceItself DEF ListAt
  <2> QED  BY <1>1, <1>2, <2>1, <2>2 DEF NotifInv, SwipedOK
<1> QED  BY <1>2, <1>3, <1>4, <1>5 DEF NotifInv

LEMMA CloseKeeps ==
  ASSUME NotifInv, Close  PROVE NotifInv'
<1>1. /\ UNCHANGED <<heap, bound, lastId, saving, arrived, removed, swiped>>
      /\ upsets' = upsets /\ data' = Closed /\ rows' = <<>>
  BY DEF Close, listVars, histVars
<1>2. ListsOK' /\ ids' = ids /\ UnderWay' = UnderWay /\ (OneList' => OneList) /\ KeptOK'
      /\ (Calm' => Calm)
  BY <1>1, QuietStep
<1>3. FilesOK'
  BY <1>1, <1>2, FilesClose DEF NotifInv
<1>4. ScreenOK'
  <2>1. DOMAIN rows' = {}
    BY <1>1, EmptySeq, LenProperties
  <2>2. Len(heap) \in Nat
    BY HeapIs DEF NotifInv, ListsOK
  <2>3. Closed \in Closed .. Len(heap)
    BY <2>2 DEF Closed
  <2> QED  BY <1>1, <2>1, <2>3 DEF ScreenOK
<1>5. SwipedOK'
  BY <1>1, <1>2 DEF NotifInv, SwipedOK
<1> QED  BY <1>2, <1>3, <1>4, <1>5 DEF NotifInv

LEMMA RowDoneKeeps ==
  ASSUME NotifInv, NEW t \in {Opens, Removes}, RowDone(t)  PROVE NotifInv'
<1>1. /\ UNCHANGED <<heap, bound, lastId, saving, arrived, removed, swiped>>
      /\ upsets \subseteq upsets' /\ data' = bound /\ rows' = ListAt(bound)
      /\ FS!Written(t) \/ FS!WriteFails(t)
  BY DEF RowDone, listVars, histVars
<1>2. ListsOK' /\ ids' = ids /\ UnderWay' = UnderWay /\ (OneList' => OneList) /\ KeptOK'
  BY <1>1, QuietStep
<1>3. FilesOK'
  <2>1. FilesOK /\ ListsOK /\ \A n \in UnderWay : t # Saves(n)
    BY TaskNames DEF NotifInv
  <2> QED  BY <1>1, <1>2, <2>1, FilesWritten, FilesFail
<1>4. ScreenOK' /\ SwipedOK'
  BY <1>1, Redrawn
<1> QED  BY <1>2, <1>3, <1>4 DEF NotifInv

LEMMA RemoveFailsKeeps ==
  ASSUME NotifInv, RemoveFails  PROVE NotifInv'
<1>1. /\ UNCHANGED <<heap, bound, lastId, saving, arrived, removed, data, rows>>
      /\ upsets' = upsets \cup {"failure", "moved rows"}
      /\ FS!WriteFails(Removes)
  BY DEF RemoveFails, listVars, screenVars
<1>2. ListsOK' /\ ids' = ids /\ UnderWay' = UnderWay /\ (OneList' => OneList) /\ KeptOK'
      /\ Len(heap') = Len(heap)
  BY <1>1, QuietStep
<1>3. FilesOK'
  <2>1. FilesOK /\ ListsOK /\ \A n \in UnderWay : Removes # Saves(n)
    BY TaskNames DEF NotifInv
  <2> QED  BY <1>1, <1>2, <2>1, FilesFail
<1>4. ScreenOK'
  BY <1>1, <1>2 DEF NotifInv, ScreenOK
<1>5. SwipedOK'
  <2>1. "moved rows" \in upsets'
    BY <1>1
  <2> QED  BY <2>1 DEF SwipedOK, Calm
<1> QED  BY <1>2, <1>3, <1>4, <1>5 DEF NotifInv

LEMMA OtherDoneKeeps ==
  ASSUME NotifInv, OtherDone  PROVE NotifInv'
<1>1. /\ UNCHANGED <<heap, bound, lastId, saving, arrived, removed, swiped, data, rows>>
      /\ upsets' = upsets
  BY DEF OtherDone, listVars, screenVars, histVars
<1>2. PICK t \in {Gone} \cup {Saves(n) : n \in {k \in DOMAIN saving : saving[k].pc = "no"}} :
        FS!Written(t) \/ FS!WriteFails(t)
  BY DEF OtherDone
<1>3. t # Removes /\ \A n \in UnderWay : t # Saves(n)
  BY TaskNames DEF UnderWay
<1>4. ListsOK' /\ ids' = ids /\ UnderWay' = UnderWay /\ (OneList' => OneList) /\ KeptOK'
      /\ Len(heap') = Len(heap) /\ ListAt(bound)' = ListAt(bound) /\ (Calm' => Calm)
  BY <1>1, QuietStep
<1>5. FilesOK'
  <2>1. FilesOK /\ ListsOK
    BY DEF NotifInv
  <2> QED  BY <1>2, <1>3, <1>4, <2>1, FilesWritten, FilesFail
<1>6. FS!Awaiting(Removes) => FS!Awaiting(Removes)'
  BY <1>2, <1>3, WrittenWaits DEF NotifInv, FilesOK
<1>7. SwipedOK' /\ ScreenOK'
  BY <1>1, <1>4, <1>6 DEF NotifInv, SwipedOK, InPlace, ScreenOK
<1> QED  BY <1>4, <1>5, <1>7 DEF NotifInv

(* The stored list is changed by a row, which awaits its write. *)
LEMMA RowFiles ==
  ASSUME NotifInv, ListsOK', ids' = ids, UnderWay' = UnderWay, OneList' => OneList,
         NEW t \in {Opens, Removes}, NEW v, FS!SetItem("notifications", v, t)
  PROVE  FilesOK' /\ (FS!Awaiting(Removes) => FS!Awaiting(Removes)')
<1> DEFINE e == [map |-> Mem', task |-> t]
<1>1. file' = file /\ fileLost' = FALSE /\ fileWrites' = Append(fileWrites, e)
  BY DEF FS!SetItem
<1>2. t \in Task /\ e \in Write /\ e.task = t /\ fileWrites \in Seq(Write)
  BY GoodMemLater DEF Task, Write, NotifInv, FilesOK
<1> HIDE DEF e
<1>3. QueueOK(fileWrites', UnderWay', Len(ids'))
  BY <1>1, <1>2, QueueAppends DEF NotifInv, FilesOK
<1>4. FilesOK'
  BY <1>1, <1>2, <1>3, FilesSet, ExtendsItself DEF NotifInv, e
<1>5. FS!Awaiting(Removes) => FS!Awaiting(Removes)'
  BY <1>1, <1>2, WaitsStill
<1> QED  BY <1>4, <1>5

LEMMA TapRowKeeps ==
  ASSUME NotifInv, NEW i, TapRow(i)  PROVE NotifInv'
<1> DEFINE old == heap[bound]
           e == Opened(heap[data][i])
           list == [old EXCEPT ![i] = e]
<1>1. /\ Touchable(i) /\ i \in DOMAIN heap[data] /\ i \in DOMAIN old
      /\ heap' = [heap EXCEPT ![bound] = list]
      /\ UNCHANGED <<bound, lastId, saving, data, rows, arrived, removed, swiped, upsets>>
      /\ FS!SetItem("notifications", heap'[bound], Opens)
  BY DEF TapRow, screenVars, histVars
<1>2. /\ data \in DOMAIN heap /\ bound \in DOMAIN heap /\ bound # 0
      /\ ListAt(bound) = old
      /\ OneList => data = bound
  BY <1>1, TouchedList
<1>3. /\ ListsOK /\ GoodList(old, ids) /\ GoodList(heap[data], ids)
      /\ OneList => Descends(old)
  BY <1>2 DEF NotifInv, ListsOK, HeapOK, OneListOK
<1>4. GoodEntry(e, ids) /\ e.n = heap[data][i].n
  BY <1>1, <1>3, OpenedEntry, GoodListIs
<1>5. heap[data][i].n \in Nums(heap[data])
  BY <1>1 DEF Nums
<1> HIDE DEF e
<1>6. /\ GoodList(list, ids) /\ Nums(list) \subseteq Nums(old) \cup {e.n}
      /\ e.n = old[i].n => /\ Nums(list) = Nums(old)
                           /\ Descends(old) => Descends(list)
                           /\ DOMAIN list = DOMAIN old
                           /\ \A k \in DOMAIN old : list[k].n = old[k].n
  BY <1>1, <1>3, <1>4, ReplacedList
<1>7. OneList => e.n = old[i].n
  BY <1>2, <1>4
<1> HIDE DEF list
<1>8. \A m \in Nums(list) : \E o \in DOMAIN heap : m \in Nums(heap[o])
  BY <1>2, <1>4, <1>5, <1>6
<1>9. /\ ListsOK' /\ ids' = ids /\ UnderWay' = UnderWay /\ (OneList' => OneList)
      /\ Len(heap') = Len(heap) /\ ListAt(bound)' = list
  <2>1. OneList => Descends(list)
    BY <1>3, <1>6, <1>7
  <2>2. upsets \subseteq upsets'
    BY <1>1
  <2> HIDE DEF old
  <2> QED  BY <1>1, <1>2, <1>3, <1>6, <1>8, <2>1, <2>2, ListsChange
<1>10. FilesOK' /\ (FS!Awaiting(Removes) => FS!Awaiting(Removes)')
  BY <1>1, <1>9, RowFiles
<1>11. Whole' = Whole /\ Calm' = Calm /\ (Whole => OneList) /\ (Calm => OneList)
  BY <1>1 DEF Whole, Calm, OneList
<1>12. KeptOK'
  BY <1>1, <1>2, <1>6, <1>7, <1>9, <1>11 DEF NotifInv, KeptOK
<1>13. SwipedOK'
  <2> HIDE DEF old
  <2>1. rows' = rows /\ data' = data /\ bound' = bound /\ removed' = removed /\ swiped' = swiped
    BY <1>1
  <2>2. OneList => DOMAIN list = DOMAIN old /\ \A k \in DOMAIN old : list[k].n = old[k].n
    BY <1>6, <1>7
  <2>3. OneList /\ InPlace(old) => InPlace(ListAt(bound))'
    BY <1>9, <2>1, <2>2 DEF InPlace
  <2>4. Calm' => Calm /\ OneList
    BY <1>11
  <2> QED  BY <1>2, <1>10, <2>1, <2>3, <2>4 DEF NotifInv, SwipedOK
<1>14. ScreenOK'
  BY <1>1, <1>9 DEF NotifInv, ScreenOK
<1> QED  BY <1>9, <1>10, <1>12, <1>13, <1>14 DEF NotifInv

(* Once one removal is being written, another row may be another's. *)
LEMMA OverlappingIs ==
  ASSUME upsets' = upsets \cup Overlapping
  PROVE  upsets \subseteq upsets' /\ (Calm' => ~FS!Awaiting(Removes))
                                  /\ (Whole' => Whole) /\ (Calm' => Calm)
BY DEF Overlapping, Calm, Whole

(* The other rows stay what they are. *)
LEMMA RowsLeft ==
  ASSUME NotifInv, NEW i, rows' = [k \in DOMAIN rows \ {i} |-> rows[k]],
         data' = data, Len(heap') = Len(heap)
  PROVE  ScreenOK'
BY DEF NotifInv, ScreenOK

LEMMA SwipeRowKeeps ==
  ASSUME NotifInv, NEW i, SwipeRow(i)  PROVE NotifInv'
<1> DEFINE old == heap[bound]
           list == Removed(old, i)
<1>1. /\ Touchable(i) /\ i \in DOMAIN old
      /\ heap' = [heap EXCEPT ![bound] = list]
      /\ UNCHANGED <<bound, lastId, saving, data, arrived>>
      /\ rows' = [k \in DOMAIN rows \ {i} |-> rows[k]]
      /\ swiped' = swiped \cup {rows[i].n}
      /\ upsets' = upsets \cup Overlapping
      /\ FS!SetItem("notifications", heap'[bound], Removes)
  BY DEF SwipeRow
<1>2. /\ bound \in DOMAIN heap /\ bound # 0 /\ i \in DOMAIN rows
      /\ ListAt(bound) = old /\ data \in DOMAIN heap
  BY <1>1, TouchedList
<1>3. removed' = removed \cup (Nums(old) \ Nums(list))
  <2>1. heap'[bound] = list
    BY <1>1, <1>2
  <2>2. removed' = removed \cup ({old[k].n : k \in DOMAIN old}
                     \ {heap'[bound][k].n : k \in DOMAIN heap'[bound]})
    BY DEF SwipeRow
  <2> QED  BY <2>1, <2>2 DEF Nums
<1>4. /\ ListsOK /\ GoodList(old, ids) /\ (OneList => Descends(old))
  BY <1>2 DEF NotifInv, ListsOK, HeapOK, OneListOK
<1>5. /\ GoodList(list, ids) /\ Nums(list) \subseteq Nums(old)
      /\ Descends(old) => /\ Descends(list)
                          /\ Nums(old) \ Nums(list) = {old[i].n}
  BY <1>1, <1>4, RemovedList
<1>6. upsets \subseteq upsets' /\ (Calm' => ~FS!Awaiting(Removes)) /\ (Whole' => Whole) /\ (Calm' => Calm)
  BY <1>1, OverlappingIs
<1> HIDE DEF list, old
<1>7. \A m \in Nums(list) : \E o \in DOMAIN heap : m \in Nums(heap[o])
  BY <1>2, <1>5 DEF old
<1>8. /\ ListsOK' /\ ids' = ids /\ UnderWay' = UnderWay /\ (OneList' => OneList)
      /\ Len(heap') = Len(heap) /\ ListAt(bound)' = list
  <2>1. OneList => Descends(list)
    BY <1>4, <1>5
  <2> QED  BY <1>1, <1>2, <1>4, <1>5, <1>6, <1>7, <2>1, ListsChange
<1>9. FilesOK'
  BY <1>1, <1>8, RowFiles
<1>10. KeptOK'
  BY <1>1, <1>2, <1>3, <1>6, <1>8 DEF NotifInv, KeptOK
<1>11. SwipedOK'
  <2> SUFFICES ASSUME Calm'
               PROVE  /\ removed' = swiped' /\ (data # Closed => data = bound)
                      /\ FS!Awaiting(Removes)'
    BY <1>1 DEF SwipedOK
  <2>1. Calm /\ ~FS!Awaiting(Removes) /\ OneList
    BY <1>6 DEF Calm, OneList
  <2>2. data # Closed
    <3>1. data > 0
      BY <1>1 DEF Touchable
    <3>2. DOMAIN heap = 1 .. Len(heap)
      BY <1>4, HeapIs DEF ListsOK
    <3> QED  BY <1>2, <3>1, <3>2 DEF Closed
  <2>3. rows[i].n = old[i].n /\ removed = swiped /\ data = bound
    BY <1>2, <2>1, <2>2 DEF NotifInv, SwipedOK, InPlace
  <2>4. removed' = swiped'
    BY <1>1, <1>3, <1>4, <1>5, <2>1, <2>3
  <2>5. FS!Awaiting(Removes)'
    <3>1. fileWrites' = Append(fileWrites, [map |-> Mem', task |-> Removes])
      BY <1>1 DEF FS!SetItem
    <3>2. [map |-> Mem', task |-> Removes] \in Write /\ fileWrites \in Seq(Write)
      BY <1>8, GoodMemLater DEF Write, Task, NotifInv, FilesOK
    <3> QED  BY <3>1, <3>2, AppendPlaces DEF FS!Awaiting
  <2> QED  BY <2>3, <2>4, <2>5
<1>12. ScreenOK'
  BY <1>1, <1>8, RowsLeft
<1> QED  BY <1>8, <1>9, <1>10, <1>11, <1>12 DEF NotifInv

(* Where the rows have not moved, one swiped away is stored under its index. *)
LEMMA SwipeGoneKeeps ==
  ASSUME NotifInv, NEW i, SwipeGone(i)  PROVE NotifInv'
<1>1. /\ Touchable(i) /\ i \notin DOMAIN heap[bound]
      /\ UNCHANGED <<heap, bound, lastId, saving, arrived, removed, data>>
      /\ UNCHANGED <<file, fileWrites, fileLost>>
      /\ rows' = [k \in DOMAIN rows \ {i} |-> rows[k]]
      /\ upsets' = upsets \cup Overlapping
  BY DEF SwipeGone, listVars, fileVars
<1>2. upsets \subseteq upsets' /\ (Calm' => ~FS!Awaiting(Removes)) /\ (Calm' => Calm)
  BY <1>1, OverlappingIs
<1>3. /\ ListsOK' /\ ids' = ids /\ UnderWay' = UnderWay /\ (OneList' => OneList) /\ KeptOK'
      /\ Len(heap') = Len(heap)
  BY <1>1, <1>2, QuietStep
<1>4. FilesOK'
  BY <1>1, <1>3, FilesStay DEF NotifInv
<1>5. ~Calm'
  <2> SUFFICES ASSUME Calm'  PROVE FALSE
    OBVIOUS
  <2>1. i \in DOMAIN rows /\ ListAt(bound) = heap[bound] /\ data \in DOMAIN heap
    BY <1>1, TouchedList
  <2>2. data # Closed
    <3>1. data > 0
      BY <1>1 DEF Touchable
    <3>2. DOMAIN heap = 1 .. Len(heap)
      BY HeapIs DEF NotifInv, ListsOK
    <3> QED  BY <2>1, <3>1, <3>2 DEF Closed
  <2> QED  BY <1>1, <1>2, <2>1, <2>2 DEF NotifInv, SwipedOK, InPlace
<1>6. SwipedOK'
  BY <1>5 DEF SwipedOK
<1>7. ScreenOK'
  BY <1>1, <1>3, RowsLeft
<1> QED  BY <1>3, <1>4, <1>6, <1>7 DEF NotifInv

LEMMA RestartKeeps ==
  ASSUME NotifInv, Restart  PROVE NotifInv'
<1>1. /\ ListsOK /\ FilesOK /\ file \in Maps /\ GoodMap(file, ids, OneList)
  BY DEF NotifInv, FilesOK, FileOK
<1>2. /\ ListsOK' /\ ids' = ids /\ UnderWay' = {} /\ (OneList' => OneList)
      /\ ListAt(bound)' = Stored(file["notifications"])
  BY <1>1, ListsRestart
<1>3. /\ FS!Reload /\ data' = Closed /\ rows' = <<>>
      /\ UNCHANGED <<arrived, removed, swiped>>
  BY DEF Restart
<1>4. upsets \subseteq upsets' /\ ("crash" \notin upsets' => fileWrites = <<>> /\ ~fileLost)
  <2>1. upsets' = upsets \cup {u \in {"crash"} : fileWrites # <<>> \/ fileLost}
    BY DEF Restart
  <2> QED  BY <2>1
<1>5. FilesOK'
  BY <1>1, <1>2, <1>3, FilesReload
<1>6. KeptOK'
  <2> SUFFICES ASSUME Whole'
               PROVE  \A n \in 1 .. Len(ids) :
                        n \in Nums(Stored(file["notifications"])) \cup removed
    BY <1>2, <1>3 DEF KeptOK
  <2>1. Whole /\ fileWrites = <<>> /\ ~fileLost
    BY <1>4 DEF Whole
  <2>2. file = Mem
    BY <1>1, <2>1 DEF FilesOK, SyncOK
  <2>3. Stored(file["notifications"]) = ListAt(bound)
    BY <1>1, <2>2, GoodMem
  <2>4. UnderWay = {}
    <3>1. DOMAIN fileWrites = {}
      BY <2>1, EmptySeq, LenProperties
    <3> QED  BY <1>1, <3>1 DEF FilesOK, QueueOK
  <2> QED  BY <2>1, <2>3, <2>4 DEF NotifInv, KeptOK
<1>7. SwipedOK'
  BY <1>3, <1>4, CalmIs DEF NotifInv, SwipedOK
<1>8. ScreenOK'
  <2>1. DOMAIN rows' = {}
    BY <1>3, EmptySeq, LenProperties
  <2>2. Closed \in Closed .. Len(heap')
    <3>1. heap' = <<>> \/ heap' = <<file["notifications"]>>
      BY DEF Restart
    <3>2. Len(heap') \in Nat
      BY <3>1
    <3> QED  BY <3>2 DEF Closed
  <2> QED  BY <1>3, <2>1, <2>2 DEF ScreenOK
<1> QED  BY <1>2, <1>5, <1>6, <1>7, <1>8 DEF NotifInv

LEMMA NotifInit ==
  ASSUME Init  PROVE NotifInv
<1>1. /\ heap = <<>> /\ bound = 0 /\ lastId = NoValue /\ fileWrites = <<>> /\ fileLost = FALSE
      /\ file = [k \in {"notifications", "message-id"} |-> NoValue]
      /\ saving = <<>> /\ data = Closed /\ rows = <<>>
      /\ arrived = [ids |-> <<>>, count |-> 0]
      /\ removed = {} /\ swiped = {} /\ upsets = {}
  BY DEF Init, FS!Blank
<1>2. /\ heap \in Seq(Seq(Entries)) /\ Len(heap) = 0 /\ DOMAIN heap = {}
      /\ fileWrites \in Seq(Write) /\ DOMAIN fileWrites = {}
      /\ saving \in Seq(Save) /\ Len(saving) = 0 /\ DOMAIN saving = {}
      /\ ids \in Seq(Ids \cup {NoValue}) /\ Len(ids) = 0 /\ DOMAIN rows = {}
  BY <1>1, EmptySeq, LenProperties DEF ids
<1>3. /\ UnderWay = {} /\ Live = {} /\ ListAt(bound) = <<>>
      /\ Separate({}, ids) /\ Since({}, NoValue, ids)
  BY <1>1, <1>2 DEF UnderWay, Live, ListAt, Separate, Since
<1>4. ListsOK
  BY <1>1, <1>2, <1>3, EmptyList
     DEF ListsOK, ArrivedOK, HeapOK, LiveOK, OneListOK
<1>5. GoodMap(file, ids, OneList) /\ file \in Maps
  BY <1>1, <1>3, EmptyList DEF GoodMap, Stored, Maps
<1>6. Mem = file
  BY <1>1 DEF Mem
<1>7. FilesOK
  BY <1>1, <1>2, <1>3, <1>5, <1>6 DEF FilesOK, FileOK, QueueOK, SyncOK
<1>8. ScreenOK /\ KeptOK /\ SwipedOK
  BY <1>1, <1>2 DEF ScreenOK, KeptOK, SwipedOK, Closed
<1> QED  BY <1>4, <1>7, <1>8 DEF NotifInv

LEMMA NotifNext ==
  ASSUME NotificationsAssumption, NotifInv, [Next]_vars  PROVE NotifInv'
<1>1. ASSUME NEW id \in Ids \cup {NoValue}, NEW titled \in Titled, Push(id, titled)
      PROVE  NotifInv'
  <2>1. titled \in BOOLEAN
    BY DEF NotificationsAssumption
  <2> QED  BY <1>1, <2>1, PushKeeps
<1>2. CASE Next
  BY <1>1, <1>2, RepeatKeeps, IdWrittenKeeps, IdFailsKeeps, OpenKeeps, RebuildKeeps,
     CloseKeeps, TapRowKeeps, TapGoneKeeps, SwipeRowKeeps, SwipeGoneKeeps, RowDoneKeeps,
     RemoveFailsKeeps, OtherDoneKeeps, RestartKeeps DEF Next
<1>3. CASE UNCHANGED vars
  <2>1. /\ UNCHANGED <<heap, bound, lastId, saving, arrived, removed, swiped, data, rows>>
        /\ UNCHANGED <<file, fileWrites, fileLost, upsets>>
    BY <1>3 DEF vars, listVars, fileVars, screenVars, histVars
  <2>2. /\ ListsOK' /\ ids' = ids /\ UnderWay' = UnderWay /\ (OneList' => OneList) /\ KeptOK'
        /\ ListAt(bound)' = ListAt(bound) /\ (Calm' => Calm)
    BY <2>1, QuietStep
  <2>3. FilesOK'
    BY <2>1, <2>2, FilesStay DEF NotifInv
  <2>4. ScreenOK' /\ SwipedOK'
    BY <2>1, <2>2 DEF NotifInv, ScreenOK, SwipedOK, InPlace, FS!Awaiting
  <2> QED  BY <2>2, <2>3, <2>4 DEF NotifInv
<1> QED  BY <1>2, <1>3

LEMMA NotifInvariant ==
  ASSUME NotificationsAssumption  PROVE Spec => []NotifInv
<1>1. Init => NotifInv
  BY NotifInit
<1>2. NotifInv /\ [Next]_vars => NotifInv'
  BY NotifNext
<1> QED  BY <1>1, <1>2, PTL DEF Spec

LEMMA TypesFollow ==
  ASSUME NotifInv  PROVE TypeOK
<1>1. \A n \in DOMAIN saving : saving[n].pc = "id" => FS!Awaiting(Saves(n))
  BY DEF NotifInv, FilesOK, QueueOK, UnderWay, FS!Awaiting
<1> QED  BY <1>1 DEF NotifInv, ListsOK, HeapOK, ArrivedOK, ScreenOK, TypeOK, ids

LEMMA ListedIs == Listed = Nums(ListAt(bound))
BY DEF Listed, Nums

(* For any pushes, bounds, lost writes and restarts: a push delivered again  *)
(* right after itself is listed once, and the list has the newest first but  *)
(* for the store into the other of two lists.                                *)
THEOREM NewestComesFirst ==
  ASSUME NotificationsAssumption  PROVE Spec => []NewestFirst
<1>1. NotifInv => NewestFirst
  <2> SUFFICES ASSUME NotifInv  PROVE NewestFirst
    OBVIOUS
  <2> DEFINE list == ListAt(bound)
  <2>1. TypeOK
    BY TypesFollow
  <2>2. /\ GoodList(list, ids) /\ Nums(list) \subseteq Live
        /\ Separate(Live, ids) /\ (OneList => Descends(list))
    BY LiveIs DEF NotifInv, ListsOK, LiveOK, OneListOK
  <2> HIDE DEF list
  <2>3. \A i \in DOMAIN list : list[i].id = ids[list[i].n] /\ list[i].n \in Live
    BY <2>2 DEF GoodList, GoodEntry, Nums
  <2>4. ASSUME NEW i \in DOMAIN list, NEW j \in DOMAIN list,
               list[i].n < list[j].n, list[i].id = list[j].id, list[i].id # NoValue
        PROVE  \E k \in list[i].n + 1 .. list[j].n - 1 : arrived.ids[k] # list[i].id
    BY <2>2, <2>3, <2>4 DEF Separate, ids
  <2> QED  BY <2>1, <2>2, <2>4 DEF NewestFirst, OneList, Descends, list
<1> QED  BY <1>1, NotifInvariant, PTL

(* A push is listed, being saved or was removed, unless a write failed, the  *)
(* app was killed or two lists were made; and what has a title is shown,     *)
(* however often it was opened and stored again.                             *)
THEOREM NoPushIsLost ==
  ASSUME NotificationsAssumption  PROVE Spec => []PushesKept
<1>1. NotifInv => PushesKept
  <2> SUFFICES ASSUME NotifInv  PROVE PushesKept
    OBVIOUS
  <2>1. DOMAIN arrived.ids = 1 .. Len(ids)
    BY SavingIs DEF NotifInv, ListsOK, ids
  <2>2. GoodList(ListAt(bound), ids)
    BY LiveIs DEF NotifInv, ListsOK
  <2> QED  BY <2>1, <2>2, ListedIs
           DEF NotifInv, KeptOK, Whole, PushesKept, UnderWay, GoodList, GoodEntry
<1> QED  BY <1>1, NotifInvariant, PTL

(* What FStoreNotification removes is what was swiped away, failing writes   *)
(* and restarts included, unless the list moved under the rows.              *)
THEOREM SwipingRemovesTheRow ==
  ASSUME NotificationsAssumption  PROVE Spec => []RemovesTheSwiped
<1>1. NotifInv => RemovesTheSwiped
  BY DEF NotifInv, SwipedOK, Calm, RemovesTheSwiped
<1> QED  BY <1>1, NotifInvariant, PTL

-----------------------------------------------------------------------------
(* The words searched for.                                                   *)


-----------------------------------------------------------------------------
(* The words, given the history of those found.                              *)

Distinct(list) == \A i, j \in DOMAIN list : list[i] = list[j] => i = j

(* The newest answer for w is the x-th. *)
Latest(a, w, x) ==
  x \in DOMAIN a /\ a[x] = w /\ \A j \in x + 1 .. Len(a) : a[j] # w

Recent(kw, a) ==
  /\ \A i \in DOMAIN kw : \E x \in DOMAIN a : Latest(a, kw[i], x)
  /\ \A i, j \in DOMAIN kw : i < j =>
       \A x, y \in DOMAIN a : Latest(a, kw[i], x) /\ Latest(a, kw[j], y) => x > y
  /\ \A x \in DOMAIN a : \E i \in DOMAIN kw : kw[i] = a[x]

LEMMA RecentDistinct ==
  ASSUME NEW kw \in Seq(Words), NEW a \in Seq(Words), Recent(kw, a)
  PROVE  Distinct(kw)
<1>1. DOMAIN kw = 1 .. Len(kw) /\ DOMAIN a = 1 .. Len(a)
  BY SeqIs
<1>2. ASSUME NEW i \in DOMAIN kw, NEW j \in DOMAIN kw, i < j  PROVE kw[i] # kw[j]
  <2>1. PICK x \in DOMAIN a : Latest(a, kw[i], x)
    BY DEF Recent
  <2>2. ~(x > x)
    BY <1>1
  <2> QED  BY <1>2, <2>1, <2>2 DEF Recent
<1> SUFFICES ASSUME NEW i \in DOMAIN kw, NEW j \in DOMAIN kw, kw[i] = kw[j]  PROVE i = j
  BY DEF Distinct
<1>3. i < j \/ j < i \/ i = j
  BY <1>1
<1> QED  BY <1>2, <1>3

(* The word found goes out of where it was. *)
LEMMA RemovedFirst ==
  ASSUME NEW list \in Seq(Words), Distinct(list), NEW w
  PROVE  LET r == RemoveFirst(list, w) IN
         /\ r \in Seq(Words)
         /\ \A i \in DOMAIN r : r[i] # w /\ \E k \in DOMAIN list : r[i] = list[k]
         /\ \A i, j \in DOMAIN r : i < j =>
              \E k, l \in DOMAIN list : k < l /\ r[i] = list[k] /\ r[j] = list[l]
         /\ \A k \in DOMAIN list : list[k] # w => \E i \in DOMAIN r : r[i] = list[k]
<1>1. DOMAIN list = 1 .. Len(list) /\ Len(list) \in Nat
  BY SeqIs
<1>2. CASE \A i \in 1 .. Len(list) : list[i] # w
  <2>1. RemoveFirst(list, w) = list
    BY <1>2 DEF RemoveFirst
  <2> QED  BY <1>1, <1>2, <2>1
<1>3. CASE \E i \in 1 .. Len(list) : list[i] = w
  <2>1. PICK d \in 1 .. Len(list) : list[d] = w
    BY <1>3
  <2>2. {i \in 1 .. Len(list) : list[i] = w} = {d}
    BY <1>1, <2>1 DEF Distinct
  <2>3. Min({d}) = d
    BY DEF Min
  <2>4. RemoveFirst(list, w) = RemoveAt(list, d)
    <3>1. SelectInSeq(list, LAMBDA v : v = w) = d
      BY <2>2, <2>3 DEF SelectInSeq
    <3> QED  BY <1>3, <3>1 DEF RemoveFirst
  <2> DEFINE r == RemoveAt(list, d)
  <2>5. Dropped(Words, r, list, d) /\ d \in DOMAIN list
    BY <1>1, RemovedDropped
  <2> HIDE DEF r
  <2>6. \A k \in DOMAIN list \ {d} : list[k] # w
    BY <1>1, <2>1 DEF Distinct
  <2>7. /\ \A i \in DOMAIN r : \E k \in DOMAIN list \ {d} : r[i] = list[k]
        /\ \A i, j \in DOMAIN r : i < j =>
             \E k, l \in DOMAIN list \ {d} : k < l /\ r[i] = list[k] /\ r[j] = list[l]
        /\ \A k \in DOMAIN list \ {d} : \E i \in DOMAIN r : r[i] = list[k]
    BY <2>5, DroppedPlaces
  <2>8. r \in Seq(Words)
    BY <2>5 DEF Dropped
  <2>9. \A k \in DOMAIN list : list[k] # w => k \in DOMAIN list \ {d}
    BY <2>1
  <2>10. /\ \A i \in DOMAIN r : r[i] # w /\ \E k \in DOMAIN list : r[i] = list[k]
         /\ \A i, j \in DOMAIN r : i < j =>
              \E k, l \in DOMAIN list : k < l /\ r[i] = list[k] /\ r[j] = list[l]
         /\ \A k \in DOMAIN list : list[k] # w => \E i \in DOMAIN r : r[i] = list[k]
    BY <2>6, <2>7, <2>9
  <2> QED  BY <2>4, <2>8, <2>10 DEF r
<1> QED  BY <1>2, <1>3

(* One more answer is the newest for its word only. *)
LEMMA LatestAppend ==
  ASSUME NEW a \in Seq(Words), NEW w \in Words
  PROVE  /\ Latest(Append(a, w), w, Len(a) + 1)
         /\ \A x : Latest(Append(a, w), w, x) => x = Len(a) + 1
         /\ \A v, x : v # w => (Latest(Append(a, w), v, x) <=> Latest(a, v, x))
<1> DEFINE b == Append(a, w)
           n == Len(a)
<1>1. /\ n \in Nat /\ Len(b) = n + 1 /\ DOMAIN a = 1 .. n /\ DOMAIN b = 1 .. n + 1
      /\ \A i \in 1 .. n : b[i] = a[i]
      /\ b[n + 1] = w
  <2>1. /\ b \in Seq(Words) /\ Len(b) = n + 1
        /\ \A i \in 1 .. n : b[i] = a[i]
        /\ b[n + 1] = w
    BY AppendProperties
  <2> HIDE DEF b
  <2> QED  BY <2>1, SeqIs
<1> HIDE DEF b, n
<1>2. Latest(b, w, n + 1)
  BY <1>1 DEF Latest
<1>3. ASSUME NEW x, Latest(b, w, x)  PROVE x = n + 1
  <2>1. x \in 1 .. n + 1 /\ \A j \in x + 1 .. n + 1 : b[j] # w
    BY <1>1, <1>3 DEF Latest
  <2>2. x # n + 1 => n + 1 \in x + 1 .. n + 1
    BY <1>1, <2>1
  <2> QED  BY <1>1, <2>1, <2>2
<1>4. ASSUME NEW v, v # w, NEW x, Latest(b, v, x)  PROVE Latest(a, v, x)
  <2>1. x \in 1 .. n + 1 /\ b[x] = v /\ \A j \in x + 1 .. n + 1 : b[j] # v
    BY <1>1, <1>4 DEF Latest
  <2>2. x \in 1 .. n
    BY <1>1, <1>4, <2>1
  <2>3. \A j \in x + 1 .. n : j \in 1 .. n /\ j \in x + 1 .. n + 1
    BY <1>1, <2>2
  <2> QED  BY <1>1, <2>1, <2>2, <2>3 DEF Latest, n
<1>5. ASSUME NEW v, v # w, NEW x, Latest(a, v, x)  PROVE Latest(b, v, x)
  <2>1. x \in 1 .. n /\ a[x] = v /\ \A j \in x + 1 .. n : a[j] # v
    BY <1>1, <1>5 DEF Latest, n
  <2>2. x \in 1 .. n + 1
    BY <1>1, <2>1
  <2>3. \A j \in x + 1 .. n + 1 : j = n + 1 \/ (j \in x + 1 .. n /\ j \in 1 .. n)
    BY <1>1, <2>1
  <2> QED  BY <1>1, <1>5, <2>1, <2>2, <2>3 DEF Latest
<1> QED  BY <1>2, <1>3, <1>4, <1>5 DEF b, n

(* The word found last comes first. *)
LEMMA MovedRecent ==
  ASSUME NEW kw \in Seq(Words), NEW a \in Seq(Words), Recent(kw, a), NEW w \in Words
  PROVE  Moved(kw, w) \in Seq(Words) /\ Recent(Moved(kw, w), Append(a, w))
<1> DEFINE r == RemoveFirst(kw, w)
           m == Moved(kw, w)
           b == Append(a, w)
           n == Len(a)
<1>1. /\ r \in Seq(Words)
      /\ \A i \in DOMAIN r : r[i] # w /\ \E k \in DOMAIN kw : r[i] = kw[k]
      /\ \A i, j \in DOMAIN r : i < j =>
           \E k, l \in DOMAIN kw : k < l /\ r[i] = kw[k] /\ r[j] = kw[l]
      /\ \A k \in DOMAIN kw : kw[k] # w => \E i \in DOMAIN r : r[i] = kw[k]
  BY RecentDistinct, RemovedFirst
<1> HIDE DEF r
<1>2. /\ m \in Seq(Words) /\ DOMAIN m = 1 .. Len(r) + 1 /\ m[1] = w /\ Len(r) \in Nat
      /\ DOMAIN r = 1 .. Len(r)
      /\ \A i \in 2 .. Len(r) + 1 : m[i] = r[i - 1]
  <2>1. <<w>> \in Seq(Words) /\ Len(<<w>>) = 1 /\ <<w>>[1] = w
    OBVIOUS
  <2>2. m = <<w>> \o r
    BY DEF Moved, r
  <2>3. Len(r) \in Nat /\ DOMAIN r = 1 .. Len(r)
    BY <1>1, SeqIs
  <2> HIDE DEF m
  <2>4. /\ m \in Seq(Words) /\ Len(m) = 1 + Len(r)
        /\ \A i \in 1 .. 1 + Len(r) : m[i] = IF i <= 1 THEN <<w>>[i] ELSE r[i - 1]
    BY <1>1, <2>1, <2>2, ConcatProperties
  <2>5. DOMAIN m = 1 .. Len(r) + 1
    BY <2>3, <2>4, SeqIs
  <2>6. m[1] = w
    BY <2>1, <2>3, <2>4
  <2>7. \A i \in 2 .. Len(r) + 1 : m[i] = r[i - 1]
    BY <2>3, <2>4
  <2> QED  BY <2>3, <2>4, <2>5, <2>6, <2>7
<1> HIDE DEF m
<1>3. /\ n \in Nat /\ DOMAIN a = 1 .. n /\ DOMAIN b = 1 .. n + 1
      /\ \A i \in 1 .. n : b[i] = a[i]
      /\ b[n + 1] = w /\ b \in Seq(Words)
  <2>1. /\ b \in Seq(Words) /\ Len(b) = n + 1
        /\ \A i \in 1 .. n : b[i] = a[i]
        /\ b[n + 1] = w
    BY AppendProperties
  <2> HIDE DEF b
  <2> QED  BY <2>1, SeqIs
<1>4. /\ Latest(b, w, n + 1)
      /\ \A x : Latest(b, w, x) => x = n + 1
      /\ \A v, x : v # w => (Latest(b, v, x) <=> Latest(a, v, x))
  BY LatestAppend
<1> HIDE DEF b, n
<1>5. \A i \in DOMAIN m : i = 1 \/ (i \in 2 .. Len(r) + 1 /\ i - 1 \in DOMAIN r /\ m[i] = r[i - 1])
  BY <1>2
<1>6. ASSUME NEW i \in DOMAIN m  PROVE \E x \in DOMAIN b : Latest(b, m[i], x)
  <2>1. CASE i = 1
    <3>1. n + 1 \in DOMAIN b
      BY <1>3
    <3> QED  BY <1>2, <1>4, <2>1, <3>1
  <2>2. CASE i # 1
    <3>1. PICK k \in DOMAIN kw : m[i] = kw[k] /\ m[i] # w
      BY <1>1, <1>5, <2>2
    <3>2. PICK x \in DOMAIN a : Latest(a, kw[k], x)
      BY DEF Recent
    <3>3. x \in DOMAIN b
      BY <1>3
    <3> QED  BY <1>4, <3>1, <3>2, <3>3
  <2> QED  BY <2>1, <2>2
<1>7. ASSUME NEW i \in DOMAIN m, NEW j \in DOMAIN m, i < j,
             NEW x \in DOMAIN b, NEW y \in DOMAIN b, Latest(b, m[i], x), Latest(b, m[j], y)
      PROVE  x > y
  <2>1. j # 1 /\ i \in Nat
    BY <1>2, <1>7
  <2>2. j - 1 \in DOMAIN r /\ m[j] = r[j - 1] /\ m[j] # w
    BY <1>1, <1>5, <2>1
  <2>3. Latest(a, m[j], y)
    BY <1>4, <1>7, <2>2
  <2>4. y \in 1 .. n
    BY <1>3, <2>3 DEF Latest
  <2>5. CASE i = 1
    <3>1. x = n + 1
      BY <1>2, <1>4, <1>7, <2>5
    <3> QED  BY <1>3, <2>4, <3>1
  <2>6. CASE i # 1
    <3>1. i - 1 \in DOMAIN r /\ m[i] = r[i - 1] /\ m[i] # w
      BY <1>1, <1>5, <2>6
    <3>2. i - 1 < j - 1
      BY <1>2, <1>7
    <3>3. PICK k \in DOMAIN kw, l \in DOMAIN kw : k < l /\ m[i] = kw[k] /\ m[j] = kw[l]
      BY <1>1, <2>2, <3>1, <3>2
    <3>4. Latest(a, m[i], x) /\ x \in DOMAIN a /\ y \in DOMAIN a
      BY <1>4, <1>7, <2>3, <3>1 DEF Latest
    <3> QED  BY <2>3, <3>3, <3>4 DEF Recent
  <2> QED  BY <2>5, <2>6
<1>8. ASSUME NEW x \in DOMAIN b  PROVE \E i \in DOMAIN m : m[i] = b[x]
  <2>1. 1 \in DOMAIN m
    BY <1>2
  <2>2. CASE b[x] = w
    BY <1>2, <2>1, <2>2
  <2>3. CASE b[x] # w
    <3>1. x \in DOMAIN a /\ b[x] = a[x]
      BY <1>3, <2>3
    <3>2. PICK k \in DOMAIN kw : kw[k] = a[x]
      BY <3>1 DEF Recent
    <3>3. PICK i \in DOMAIN r : r[i] = kw[k]
      BY <1>1, <2>3, <3>1, <3>2
    <3>4. i + 1 \in DOMAIN m /\ m[i + 1] = r[i]
      <4>1. i + 1 \in 2 .. Len(r) + 1 /\ i + 1 \in 1 .. Len(r) + 1 /\ (i + 1) - 1 = i
        BY <1>2
      <4> QED  BY <1>2, <4>1
    <3> QED  BY <3>1, <3>2, <3>3, <3>4
  <2> QED  BY <2>2, <2>3
<1>9. Recent(m, b)
  BY <1>6, <1>7, <1>8 DEF Recent
<1> QED  BY <1>2, <1>9 DEF m, b

(* What a restart finds counts as found in that order. *)
LEMMA ReverseRecent ==
  ASSUME NEW kw \in Seq(Words), Distinct(kw)
  PROVE  Reverse(kw) \in Seq(Words) /\ Recent(kw, Reverse(kw))
<1> DEFINE n == Len(kw)
           b == Reverse(kw)
<1>1. n \in Nat /\ DOMAIN kw = 1 .. n /\ \A i \in 1 .. n : kw[i] \in Words
  BY SeqIs
<1>2. b = [i \in 1 .. n |-> kw[(n - i) + 1]]
  BY DEF Reverse
<1> HIDE DEF b, n
<1>3. /\ DOMAIN b = 1 .. n /\ \A i \in 1 .. n : b[i] = kw[(n - i) + 1]
      /\ \A i \in 1 .. n : (n - i) + 1 \in 1 .. n
  BY <1>1, <1>2
<1>4. b \in Seq(Words) /\ Len(b) = n
  <2>1. b \in [1 .. n -> Words]
    BY <1>1, <1>2, <1>3
  <2>2. b \in Seq(Words)
    BY <1>1, <2>1, SeqDef
  <2>3. DOMAIN b = 1 .. Len(b) /\ Len(b) \in Nat
    BY <2>2, SeqIs
  <2> QED  BY <1>1, <1>3, <2>2, <2>3
<1>5. ASSUME NEW i \in 1 .. n, NEW x, Latest(b, kw[i], x)  PROVE x = (n - i) + 1
  <2>1. x \in 1 .. n /\ b[x] = kw[i]
    BY <1>3, <1>5 DEF Latest
  <2>2. (n - x) + 1 = i
    BY <1>1, <1>3, <2>1 DEF Distinct
  <2> QED  BY <1>1, <2>1, <2>2
<1>6. ASSUME NEW i \in 1 .. n
      PROVE  (n - i) + 1 \in DOMAIN b /\ Latest(b, kw[i], (n - i) + 1)
  <2> DEFINE x == (n - i) + 1
  <2>1. x \in 1 .. n /\ (n - x) + 1 = i
    BY <1>1
  <2>2. b[x] = kw[i]
    BY <1>3, <2>1
  <2>3. ASSUME NEW j \in x + 1 .. n  PROVE b[j] # kw[i]
    <3>1. j \in 1 .. n /\ (n - j) + 1 \in 1 .. n /\ (n - j) + 1 # i
      BY <1>1, <2>1
    <3> QED  BY <1>1, <1>3, <3>1 DEF Distinct
  <2> QED  BY <1>3, <1>4, <2>1, <2>2, <2>3 DEF Latest
<1>7. ASSUME NEW i \in 1 .. n, NEW j \in 1 .. n, i < j,
             NEW x, NEW y, Latest(b, kw[i], x), Latest(b, kw[j], y)
      PROVE  x > y
  <2>1. x = (n - i) + 1 /\ y = (n - j) + 1
    BY <1>5, <1>7
  <2> QED  BY <1>1, <1>7, <2>1
<1>8. \A x \in DOMAIN b : \E i \in DOMAIN kw : kw[i] = b[x]
  BY <1>1, <1>3
<1>9. Recent(kw, b)
  <2>1. \A i \in DOMAIN kw : \E x \in DOMAIN b : Latest(b, kw[i], x)
    BY <1>1, <1>6
  <2> QED  BY <1>1, <1>7, <1>8, <2>1 DEF Recent
<1> QED  BY <1>4, <1>9 DEF b

-----------------------------------------------------------------------------
(* What is on display.                                                       *)

Prefs0 == {"recentSearches"}
PrefsMaps == [Prefs0 -> Seq(Words) \cup {NoText}]
PrefsWrite == [map : PrefsMaps, task : {"search"}]

DisplayTypes ==
  /\ searchText \in [Screens -> Words \cup {NoText}]
  /\ timer \in [Screens -> Words \cup {NoText, "off"}]
  /\ requests \in Seq(Words \cup {NoText, "answered"})
  /\ results \in [name : Words \cup {NoText}, some : BOOLEAN]
  /\ loading \in BOOLEAN /\ errMsg \in BOOLEAN

(* The last search of a screen is the last request.  Either it is in flight  *)
(* and asks for the text of the screen, or its articles are those shown but  *)
(* for an answer that came later or an error.                                *)
LastOK ==
  \A s \in Screens : last.screen = s /\ searchText[s] # NoText =>
    /\ last.n = Len(requests) /\ last.n \in DOMAIN requests
    /\ requests[last.n] # "answered" => requests[last.n] = searchText[s]
    /\ requests[last.n] = "answered" /\ ~overtaken /\ ~errMsg => results.name = searchText[s]

DisplayOK == DisplayTypes /\ LastOK

LEMMA RequestsAre ==
  ASSUME DisplayTypes
  PROVE  /\ DOMAIN requests = 1 .. Len(requests) /\ Len(requests) \in Nat
         /\ \A n \in DOMAIN requests : requests[n] \in Words \cup {NoText, "answered"}
BY SeqIs DEF DisplayTypes

(* A search begins. *)
LEMMA SearchShown ==
  ASSUME SearchAssumption, DisplayOK, NEW s \in Screens \cup {"header"},
         NEW name \in Words \cup {NoText}, SearchBlogs(s, name),
         searchText' \in [Screens -> Words \cup {NoText}],
         timer' \in [Screens -> Words \cup {NoText, "off"}],
         s \in Screens => searchText'[s] = name
  PROVE  DisplayOK'
<1> DEFINE n == Len(requests)
<1>1. /\ requests' = Append(requests, name) /\ loading' = TRUE
      /\ last' = [screen |-> s, n |-> n + 1]
      /\ UNCHANGED <<results, errMsg, overtaken>>
  BY DEF SearchBlogs
<1>2. /\ requests \in Seq(Words \cup {NoText, "answered"})
      /\ name \in Words \cup {NoText, "answered"}
  BY DEF DisplayOK, DisplayTypes
<1>3. /\ requests' \in Seq(Words \cup {NoText, "answered"}) /\ Len(requests') = n + 1
      /\ requests'[n + 1] = name /\ n + 1 \in DOMAIN requests'
  BY <1>1, <1>2, AppendPlaces
<1>4. name # "answered"
  BY DEF SearchAssumption
<1>5. DisplayTypes'
  BY <1>1, <1>3 DEF DisplayOK, DisplayTypes
<1>6. LastOK'
  <2> SUFFICES ASSUME NEW t \in Screens, last'.screen = t
               PROVE  /\ last'.n = Len(requests') /\ last'.n \in DOMAIN requests'
                      /\ requests'[last'.n] # "answered"
                      /\ requests'[last'.n] = searchText'[t]
    BY DEF LastOK
  <2>1. t = s
    BY <1>1
  <2> QED  BY <1>1, <1>3, <1>4, <2>1
<1> QED  BY <1>5, <1>6 DEF DisplayOK

(* The text of a screen is taken away. *)
LEMMA TextGone ==
  ASSUME DisplayOK, searchText' \in [Screens -> Words \cup {NoText}],
         timer' \in [Screens -> Words \cup {NoText, "off"}],
         \A s \in Screens : searchText'[s] = searchText[s] \/ searchText'[s] = NoText,
         UNCHANGED <<requests, results, loading, errMsg, last, overtaken>>
  PROVE  DisplayOK'
BY DEF DisplayOK, DisplayTypes, LastOK

(* A request ends: with an answer, or with an error. *)
LEMMA RequestEnds ==
  ASSUME DisplayOK, NEW n \in Pending, UNCHANGED <<searchText, timer, last>>,
         requests' = [requests EXCEPT ![n] = "answered"],
         results' \in [name : Words \cup {NoText}, some : BOOLEAN],
         loading' \in BOOLEAN, errMsg' \in BOOLEAN,
         \/ errMsg'
         \/ /\ errMsg' = errMsg /\ results'.name = requests[n]
            /\ overtaken' = (overtaken \/ \E m \in DOMAIN requests \ Pending : m > n)
  PROVE  DisplayOK'
<1> DEFINE k == Len(requests)
<1>1. /\ requests \in Seq(Words \cup {NoText, "answered"}) /\ DOMAIN requests = 1 .. k
      /\ k \in Nat /\ n \in 1 .. k /\ requests[n] # "answered"
  BY SeqIs DEF DisplayOK, DisplayTypes, Pending
<1>2. /\ requests' \in Seq(Words \cup {NoText, "answered"}) /\ Len(requests') = k
      /\ \A j \in 1 .. k : requests'[j] = IF j = n THEN "answered" ELSE requests[j]
      /\ DOMAIN requests' = 1 .. k
  <2>1. /\ requests' \in Seq(Words \cup {NoText, "answered"}) /\ Len(requests') = k
        /\ \A j \in 1 .. k : requests'[j] = IF j = n THEN "answered" ELSE requests[j]
    BY <1>1, ExceptSeq
  <2> QED  BY <2>1, SeqIs
<1> HIDE DEF k
<1>3. DisplayTypes'
  BY <1>2 DEF DisplayOK, DisplayTypes
<1>4. LastOK'
  <2> SUFFICES ASSUME NEW s \in Screens, last.screen = s, searchText[s] # NoText
               PROVE  /\ last.n = Len(requests') /\ last.n \in DOMAIN requests'
                      /\ requests'[last.n] # "answered" => requests'[last.n] = searchText[s]
                      /\ requests'[last.n] = "answered" /\ ~overtaken' /\ ~errMsg' =>
                           results'.name = searchText[s]
    BY DEF LastOK
  <2>1. /\ last.n = k /\ last.n \in 1 .. k
        /\ requests[last.n] # "answered" => requests[last.n] = searchText[s]
        /\ requests[last.n] = "answered" /\ ~overtaken /\ ~errMsg => results.name = searchText[s]
    BY <1>1 DEF DisplayOK, LastOK, k
  <2>2. requests'[last.n] # "answered" => requests'[last.n] = searchText[s]
    BY <1>2, <2>1
  <2>3. ASSUME requests'[last.n] = "answered", ~overtaken', ~errMsg'
        PROVE  results'.name = searchText[s]
    <3>1. results'.name = requests[n] /\ \A m \in DOMAIN requests \ Pending : ~(m > n)
      BY <2>3
    <3>2. last.n # n => last.n > n
      BY <1>1, <2>1
    <3>3. last.n # n => last.n \in DOMAIN requests \ Pending
      BY <1>1, <1>2, <2>1, <2>3 DEF Pending
    <3>4. last.n = n
      BY <3>1, <3>2, <3>3
    <3> QED  BY <1>1, <2>1, <3>1, <3>4
  <2> QED  BY <1>2, <2>1, <2>2, <2>3
<1> QED  BY <1>3, <1>4 DEF DisplayOK

-----------------------------------------------------------------------------
(* The words and their file.                                                 *)

Recall(v) == IF v = NoText THEN <<>> ELSE v
WordsOnce(m) == Distinct(Recall(m["recentSearches"]))

WordsOK ==
  keywords \in Seq(Words) /\ answers \in Seq(Words) /\ Recent(keywords, answers)

PrefsOK ==
  /\ prefs \in PrefsMaps /\ prefsFile \in PrefsMaps /\ prefsLost \in BOOLEAN /\ prefsWrites \in Seq(PrefsWrite)
  /\ WordsOnce(prefsFile) /\ \A i \in DOMAIN prefsWrites : WordsOnce(prefsWrites[i].map)
  /\ Recall(prefs["recentSearches"]) = keywords
  /\ SyncOK(prefsWrites, prefsFile, prefsLost, prefs)

RecentInv == DisplayOK /\ WordsOK /\ PrefsOK

(* The words are saved. *)
LEMMA PrefsSaved ==
  ASSUME SearchAssumption, PrefsOK, NEW list \in Seq(Words), Distinct(list),
         SaveKeywords(list), keywords' = list
  PROVE  PrefsOK'
<1> DEFINE e == [map |-> prefs', task |-> "search"]
<1>1. /\ prefs' = [prefs EXCEPT !["recentSearches"] = list]
      /\ prefsWrites' = Append(prefsWrites, e) /\ prefsLost' = FALSE /\ prefsFile' = prefsFile
  BY DEF SaveKeywords, Prefs!SetItem
<1>2. list # NoText
  BY DEF SearchAssumption
<1>3. /\ prefs' \in PrefsMaps /\ prefs'["recentSearches"] = list
      /\ Recall(prefs'["recentSearches"]) = list
  BY <1>1, <1>2 DEF PrefsOK, PrefsMaps, Prefs0, Recall
<1>4. e \in PrefsWrite /\ e.map = prefs' /\ WordsOnce(prefs') /\ prefsWrites \in Seq(PrefsWrite)
  BY <1>3 DEF PrefsWrite, WordsOnce, PrefsOK
<1> HIDE DEF e
<1>5. /\ prefsWrites' \in Seq(PrefsWrite)
      /\ DOMAIN prefsWrites' = DOMAIN prefsWrites \cup {Len(prefsWrites) + 1}
      /\ \A i \in DOMAIN prefsWrites : prefsWrites'[i] = prefsWrites[i]
      /\ prefsWrites'[Len(prefsWrites) + 1] = e
  BY <1>1, <1>4, AppendPlaces
<1>6. SyncOK(prefsWrites', prefsFile', FALSE, prefs')
  <2>1. SyncOK(Append(prefsWrites, e), prefsFile', FALSE, e.map)
    BY <1>4, SyncSets, Zenon
  <2>2. prefsWrites' = Append(prefsWrites, e) /\ e.map = prefs'
    BY <1>1, <1>4
  <2> QED  BY <2>1, <2>2, Zenon
<1>7. \A i \in DOMAIN prefsWrites' : WordsOnce(prefsWrites'[i].map)
  BY <1>4, <1>5 DEF PrefsOK
<1> QED  BY <1>1, <1>3, <1>5, <1>6, <1>7 DEF PrefsOK

LEMMA PrefsWritten ==
  ASSUME PrefsOK, Prefs!Written("search"), keywords' = keywords
  PROVE  PrefsOK'
<1>1. /\ prefsWrites \in Seq(PrefsWrite) /\ prefsWrites # <<>> /\ prefsFile' = Head(prefsWrites).map
      /\ prefsWrites' = Tail(prefsWrites) /\ prefs' = prefs /\ prefsLost' = prefsLost
  BY DEF PrefsOK, Prefs!Written
<1>2. Dropped(PrefsWrite, prefsWrites', prefsWrites, 1) /\ 1 \in DOMAIN prefsWrites /\ Head(prefsWrites) = prefsWrites[1]
  BY <1>1, TailDropped
<1>3. prefsWrites' \in Seq(PrefsWrite) /\ prefsWrites[1] \in PrefsWrite
  BY <1>1, <1>2, SeqIs DEF Dropped
<1>4. \A i \in DOMAIN prefsWrites' : \E k \in DOMAIN prefsWrites : prefsWrites'[i] = prefsWrites[k]
  BY <1>1, <1>2, DroppedPlaces
<1>5. SyncOK(prefsWrites', prefsFile', prefsLost', prefs')
  BY <1>1, SyncWritten DEF PrefsOK
<1>6. prefsFile' \in PrefsMaps /\ WordsOnce(prefsFile')
  BY <1>1, <1>2, <1>3 DEF PrefsOK, PrefsWrite
<1> QED  BY <1>1, <1>3, <1>4, <1>5, <1>6 DEF PrefsOK

LEMMA PrefsFails ==
  ASSUME PrefsOK, Prefs!WriteFails("search"), keywords' = keywords
  PROVE  PrefsOK'
<1>1. PICK d \in DOMAIN prefsWrites :
        /\ prefsWrites' = Prefs!RemoveAt(prefsWrites, d)
        /\ prefsLost' = (prefsLost \/ d = Len(prefsWrites)) /\ prefs' = prefs /\ prefsFile' = prefsFile
  BY DEF Prefs!WriteFails
<1>2. prefsWrites' = RemoveAt(prefsWrites, d)
  BY <1>1 DEF RemoveAt, Prefs!RemoveAt
<1>3. prefsWrites \in Seq(PrefsWrite) /\ prefsLost \in BOOLEAN
  BY DEF PrefsOK
<1>4. Dropped(PrefsWrite, prefsWrites', prefsWrites, d) /\ prefsWrites' \in Seq(PrefsWrite)
  BY <1>2, <1>3, RemovedDropped DEF Dropped
<1>5. \A i \in DOMAIN prefsWrites' : \E k \in DOMAIN prefsWrites : prefsWrites'[i] = prefsWrites[k]
  BY <1>3, <1>4, DroppedPlaces
<1>6. SyncOK(prefsWrites', prefsFile', prefsLost', prefs')
  BY <1>1, <1>3, <1>4, SyncFails DEF PrefsOK
<1>7. prefsLost' \in BOOLEAN
  BY <1>1, <1>3, Zenon
<1> QED  BY <1>1, <1>4, <1>5, <1>6, <1>7 DEF PrefsOK

(* The words are those of the file. *)
LEMMA PrefsRead ==
  ASSUME PrefsOK, SearchRestart
  PROVE  PrefsOK' /\ WordsOK'
<1> DEFINE list == Recall(prefsFile["recentSearches"])
<1>1. /\ prefs' = prefsFile /\ prefsWrites' = <<>> /\ prefsLost' = FALSE /\ prefsFile' = prefsFile
      /\ keywords' = list /\ answers' = Reverse(list)
  BY DEF SearchRestart, Prefs!Reload, Recall
<1>2. list \in Seq(Words) /\ Distinct(list)
  BY EmptySeq DEF PrefsOK, WordsOnce, Recall, PrefsMaps, Prefs0
<1>3. WordsOK'
  BY <1>1, <1>2, ReverseRecent DEF WordsOK
<1>4. prefsWrites' \in Seq(PrefsWrite) /\ DOMAIN prefsWrites' = {}
  BY <1>1, EmptySeq, LenProperties
<1>5. PrefsOK'
  BY <1>1, <1>4 DEF PrefsOK, SyncOK
<1> QED  BY <1>3, <1>5

-----------------------------------------------------------------------------
(* Every step keeps the invariant.                                           *)

LEMMA WordsStay ==
  ASSUME WordsOK, PrefsOK, UNCHANGED <<keywords, answers>>, UNCHANGED prefsVars
  PROVE  WordsOK' /\ PrefsOK'
BY DEF WordsOK, PrefsOK, prefsVars

LEMMA SearchKeeps ==
  ASSUME SearchAssumption, RecentInv, NEW s \in Screens \cup {"header"},
         NEW name \in Words \cup {NoText}, SearchBlogs(s, name),
         searchText' \in [Screens -> Words \cup {NoText}],
         timer' \in [Screens -> Words \cup {NoText, "off"}],
         s \in Screens => searchText'[s] = name
  PROVE  RecentInv'
<1>1. DisplayOK'
  BY SearchShown DEF RecentInv
<1>2. UNCHANGED <<keywords, answers>> /\ UNCHANGED prefsVars
  BY DEF SearchBlogs
<1> QED  BY <1>1, <1>2, WordsStay DEF RecentInv

LEMMA QuietKeeps ==
  ASSUME RecentInv, searchText' \in [Screens -> Words \cup {NoText}],
         timer' \in [Screens -> Words \cup {NoText, "off"}],
         \A s \in Screens : searchText'[s] = searchText[s] \/ searchText'[s] = NoText,
         UNCHANGED <<requests, modelVars, prefsVars, answerVars>>
  PROVE  RecentInv'
<1>1. /\ UNCHANGED <<requests, results, loading, errMsg, last, overtaken>>
      /\ UNCHANGED <<keywords, answers>> /\ UNCHANGED prefsVars
  BY DEF modelVars, answerVars
<1>2. DisplayOK'
  BY <1>1, TextGone DEF RecentInv
<1> QED  BY <1>1, <1>2, WordsStay DEF RecentInv

LEMMA AnswerKeeps ==
  ASSUME SearchAssumption, RecentInv, NEW n, NEW some \in BOOLEAN, Answer(n, some)
  PROVE  RecentInv'
<1> DEFINE name == requests[n]
<1>1. /\ n \in Pending /\ UNCHANGED <<searchText, timer, last, errMsg>>
      /\ requests' = [requests EXCEPT ![n] = "answered"]
      /\ results' = [name |-> name, some |-> some] /\ loading' = FALSE
      /\ overtaken' = (overtaken \/ \E m \in DOMAIN requests \ Pending : m > n)
  BY Zenon DEF Answer, Found, fieldVars
<1>2. name \in Words \cup {NoText}
  BY <1>1, RequestsAre DEF RecentInv, DisplayOK, Pending
<1>3. DisplayOK'
  <2>1. results' \in [name : Words \cup {NoText}, some : BOOLEAN] /\ results'.name = name
    BY <1>1, <1>2
  <2>2. loading' \in BOOLEAN /\ errMsg' \in BOOLEAN
    BY <1>1 DEF RecentInv, DisplayOK, DisplayTypes
  <2> QED  BY <1>1, <2>1, <2>2, RequestEnds DEF RecentInv
<1>4. CASE some /\ name # NoText
  <2>1. /\ keywords' = Moved(keywords, name) /\ SaveKeywords(keywords')
        /\ answers' = Append(answers, name)
    BY <1>4 DEF Answer
  <2>2. name \in Words
    BY <1>2, <1>4
  <2> HIDE DEF name
  <2>3. keywords' \in Seq(Words) /\ Recent(keywords', answers')
    BY <2>1, <2>2, MovedRecent DEF RecentInv, WordsOK
  <2>4. answers' \in Seq(Words)
    BY <2>1, <2>2, AppendPlaces DEF RecentInv, WordsOK
  <2>5. WordsOK'
    BY <2>3, <2>4 DEF WordsOK
  <2>6. PrefsOK'
    BY <2>1, <2>3, <2>4, RecentDistinct, PrefsSaved DEF RecentInv
  <2> QED  BY <1>3, <2>5, <2>6 DEF RecentInv
<1>5. CASE ~(some /\ name # NoText)
  <2>1. UNCHANGED <<keywords, answers>> /\ UNCHANGED prefsVars
    BY <1>5 DEF Answer
  <2> QED  BY <1>3, <2>1, WordsStay DEF RecentInv
<1> QED  BY <1>4, <1>5

LEMMA FailKeeps ==
  ASSUME RecentInv, NEW n, RequestFails(n)
  PROVE  RecentInv'
<1>1. /\ n \in Pending /\ UNCHANGED <<searchText, timer, last, results>>
      /\ requests' = [requests EXCEPT ![n] = "answered"]
      /\ loading' = FALSE /\ errMsg' = TRUE
      /\ UNCHANGED <<keywords, answers>> /\ UNCHANGED prefsVars
  BY DEF RequestFails, fieldVars, answerVars
<1>2. results' \in [name : Words \cup {NoText}, some : BOOLEAN]
  BY <1>1 DEF RecentInv, DisplayOK, DisplayTypes
<1>3. DisplayOK'
  BY <1>1, <1>2, RequestEnds DEF RecentInv
<1> QED  BY <1>1, <1>3, WordsStay DEF RecentInv

LEMMA ClearKeeps ==
  ASSUME SearchAssumption, RecentInv, ClearKeywords
  PROVE  RecentInv'
<1>1. /\ keywords' = <<>> /\ SaveKeywords(<<>>) /\ answers' = <<>>
      /\ UNCHANGED <<searchText, timer, requests, results, loading, errMsg, last, overtaken>>
  BY DEF ClearKeywords, fieldVars
<1>2. <<>> \in Seq(Words) /\ DOMAIN <<>> = {}
  BY EmptySeq, LenProperties
<1>3. WordsOK' /\ Distinct(<<>>)
  BY <1>1, <1>2 DEF WordsOK, Recent, Distinct
<1>4. PrefsOK'
  BY <1>1, <1>2, <1>3, PrefsSaved DEF RecentInv
<1>5. DisplayOK'
  BY <1>1 DEF RecentInv, DisplayOK, DisplayTypes, LastOK
<1> QED  BY <1>3, <1>4, <1>5 DEF RecentInv

LEMMA SaveEndsKeeps ==
  ASSUME RecentInv, SaveEnds
  PROVE  RecentInv'
<1>1. UNCHANGED <<keywords, answers, searchText, timer, requests, results, loading, errMsg,
                  last, overtaken>>
  BY DEF SaveEnds, fieldVars, modelVars, answerVars
<1>2. PrefsOK'
  BY <1>1, PrefsWritten, PrefsFails DEF SaveEnds, RecentInv
<1>3. WordsOK' /\ DisplayOK'
  BY <1>1 DEF RecentInv, WordsOK, DisplayOK, DisplayTypes, LastOK
<1> QED  BY <1>2, <1>3 DEF RecentInv

LEMMA WordsRestart ==
  ASSUME SearchAssumption, RecentInv, SearchRestart
  PROVE  RecentInv'
<1>1. PrefsOK' /\ WordsOK'
  BY PrefsRead DEF RecentInv
<1>2. /\ results' = [name |-> NoText, some |-> FALSE] /\ loading' = FALSE /\ errMsg' = FALSE
      /\ searchText' = [s \in Screens |-> NoText]
      /\ timer' = [s \in Screens |-> "off"]
      /\ requests' = [n \in DOMAIN requests |-> "answered"]
  BY DEF SearchRestart, NoBlogs
<1>3. requests' \in Seq(Words \cup {NoText, "answered"})
  <2>1. DOMAIN requests = 1 .. Len(requests) /\ Len(requests) \in Nat
    BY RequestsAre DEF RecentInv, DisplayOK
  <2>2. requests' \in [1 .. Len(requests) -> Words \cup {NoText, "answered"}]
    BY <1>2, <2>1
  <2> QED  BY <2>1, <2>2, SeqDef
<1>4. DisplayOK'
  BY <1>2, <1>3 DEF DisplayOK, DisplayTypes, LastOK
<1> QED  BY <1>1, <1>4 DEF RecentInv

LEMMA RecentInit ==
  ASSUME SearchInit  PROVE RecentInv
<1>1. <<>> \in Seq(Words) /\ DOMAIN <<>> = {} /\ <<>> \in Seq(Words \cup {NoText, "answered"})
      /\ <<>> \in Seq(PrefsWrite)
  BY EmptySeq, LenProperties
<1>2. /\ searchText = [s \in Screens |-> NoText] /\ timer = [s \in Screens |-> "off"]
      /\ requests = <<>> /\ keywords = <<>> /\ results = [name |-> NoText, some |-> FALSE]
      /\ loading = FALSE /\ errMsg = FALSE /\ answers = <<>>
      /\ prefs = [k \in {"recentSearches"} |-> NoText] /\ prefsFile = prefs /\ prefsWrites = <<>>
      /\ prefsLost = FALSE
  BY DEF SearchInit, NoBlogs, Prefs!StoreInit, Prefs!Blank
<1>3. DisplayOK
  BY <1>1, <1>2 DEF DisplayOK, DisplayTypes, LastOK
<1>4. WordsOK
  BY <1>1, <1>2 DEF WordsOK, Recent
<1>5. PrefsOK
  BY <1>1, <1>2 DEF PrefsOK, PrefsMaps, Prefs0, WordsOnce, Recall, Distinct, SyncOK
<1> QED  BY <1>3, <1>4, <1>5 DEF RecentInv

LEMMA RecentNext ==
  ASSUME SearchAssumption, RecentInv, [SearchNext]_searchVars
  PROVE  RecentInv'
<1>1. /\ searchText \in [Screens -> Words \cup {NoText}]
      /\ timer \in [Screens -> Words \cup {NoText, "off"}]
  BY DEF RecentInv, DisplayOK, DisplayTypes
<1>2. ASSUME NEW s \in Screens, NEW text \in Words \cup {NoText}, Type(s, text)
      PROVE  RecentInv'
  BY <1>1, <1>2, QuietKeeps DEF Type
<1>3. ASSUME NEW s \in Screens, NEW text \in Words, TapRecent(s, text)
      PROVE  RecentInv'
  <2>1. /\ searchText' = [searchText EXCEPT ![s] = text] /\ timer' = timer
        /\ SearchBlogs(s, text)
    BY <1>3 DEF TapRecent
  <2>2. /\ searchText' \in [Screens -> Words \cup {NoText}] /\ searchText'[s] = text
        /\ timer' \in [Screens -> Words \cup {NoText, "off"}]
        /\ text \in Words \cup {NoText} /\ s \in Screens \cup {"header"}
    BY <1>1, <2>1
  <2> QED  BY <2>1, <2>2, SearchKeeps
<1>4. ASSUME NEW s \in Screens, Cancel(s)
      PROVE  RecentInv'
  BY <1>1, <1>4, QuietKeeps DEF Cancel
<1>5. ASSUME NEW s \in Screens, Leave(s)
      PROVE  RecentInv'
  BY <1>1, <1>5, QuietKeeps DEF Leave
<1>6. ASSUME NEW text \in Words, HeaderSearch(text)
      PROVE  RecentInv'
  <2>1. SearchBlogs("header", text) /\ searchText' = searchText /\ timer' = timer
    BY <1>6 DEF HeaderSearch, fieldVars
  <2>2. "header" \notin Screens
    BY DEF SearchAssumption
  <2> QED  BY <1>1, <2>1, <2>2, SearchKeeps
<1>7. ASSUME NEW s \in Screens, TimerFires(s)
      PROVE  RecentInv'
  <2>1. /\ timer[s] # "off" /\ SearchBlogs(s, timer[s])
        /\ timer' = [timer EXCEPT ![s] = "off"]
        /\ searchText' = [searchText EXCEPT ![s] = timer[s]]
    BY <1>7 DEF TimerFires
  <2>2. timer[s] \in Words \cup {NoText} /\ s \in Screens \cup {"header"}
    BY <1>1, <2>1
  <2>3. /\ searchText' \in [Screens -> Words \cup {NoText}] /\ searchText'[s] = timer[s]
        /\ timer' \in [Screens -> Words \cup {NoText, "off"}]
    BY <1>1, <2>1, <2>2
  <2> QED  BY <2>1, <2>2, <2>3, SearchKeeps
<1>8. CASE UNCHANGED searchVars
  <2>1. UNCHANGED <<requests, modelVars, prefsVars, answerVars>> /\ UNCHANGED <<searchText, timer>>
    BY <1>8 DEF searchVars, fieldVars
  <2> QED  BY <1>1, <2>1, QuietKeeps
<1>9. CASE User
  BY <1>2, <1>3, <1>4, <1>5, <1>6, <1>9, ClearKeeps, WordsRestart DEF User
<1>10. CASE Answers
  BY <1>10, AnswerKeeps, FailKeeps DEF Answers
<1> QED  BY <1>7, <1>8, <1>9, <1>10, SaveEndsKeeps DEF SearchNext

LEMMA RecentInvariant ==
  ASSUME SearchAssumption  PROVE SearchSpec => []RecentInv
<1>1. SearchInit => RecentInv
  BY RecentInit
<1>2. RecentInv /\ [SearchNext]_searchVars => RecentInv'
  BY RecentNext
<1> QED  BY <1>1, <1>2, PTL DEF SearchSpec

(* Once every search is answered, and in order, the screen that searched     *)
(* last shows the articles of its own text, for any screens, words and       *)
(* bound.                                                                    *)
THEOREM LastSearchIsShown ==
  ASSUME SearchAssumption  PROVE SearchSpec => []ShowsOwnBlogs
<1>1. RecentInv => ShowsOwnBlogs
  <2> SUFFICES ASSUME RecentInv, NEW s \in Screens,
                      searchText[s] # NoText, ~errMsg,
                      last.screen = s, Pending = {}, ~overtaken
               PROVE  results.name = searchText[s]
    BY DEF ShowsOwnBlogs, ShowsBlogs
  <2>1. last.n \in DOMAIN requests
    BY DEF RecentInv, DisplayOK, LastOK
  <2>2. requests[last.n] = "answered"
    BY <2>1 DEF Pending
  <2> QED  BY <2>2 DEF RecentInv, DisplayOK, LastOK
<1> QED  BY <1>1, RecentInvariant, PTL

(* The recent words are those found since they were cleared, each once, the  *)
(* latest found first, whatever the order of the answers; and the file holds *)
(* the same once nothing is being written.                                   *)
THEOREM WordsAreRecentFirst ==
  ASSUME SearchAssumption  PROVE SearchSpec => []RecentFirst
<1>1. RecentInv => RecentFirst
  <2> SUFFICES ASSUME RecentInv  PROVE RecentFirst
    OBVIOUS
  <2> DEFINE Newest(w) == CHOOSE i \in DOMAIN answers :
                 answers[i] = w /\ \A j \in i + 1 .. Len(answers) : answers[j] # w
  <2>1. \A i \in DOMAIN prefsWrites : prefsWrites[i].map \in PrefsMaps
    <3>1. prefsWrites \in Seq(PrefsWrite)
      BY DEF RecentInv, PrefsOK
    <3>2. \A i \in DOMAIN prefsWrites : prefsWrites[i] \in PrefsWrite
      BY <3>1, SeqIs
    <3> QED  BY <3>2 DEF PrefsWrite
  <2>2. Prefs!StoreOK(Seq(Words))
    BY <2>1 DEF RecentInv, PrefsOK, PrefsMaps, Prefs0, Prefs!StoreOK
  <2>3. SearchTypeOK
    BY <2>2 DEF SearchTypeOK, RecentInv, DisplayOK, DisplayTypes, WordsOK
  <2>4. \A i \in DOMAIN keywords : Latest(answers, keywords[i], Newest(keywords[i]))
    <3> SUFFICES ASSUME NEW i \in DOMAIN keywords
                 PROVE  Latest(answers, keywords[i], Newest(keywords[i]))
      OBVIOUS
    <3>1. PICK x \in DOMAIN answers : Latest(answers, keywords[i], x)
      BY DEF RecentInv, WordsOK, Recent
    <3> QED  BY <3>1 DEF Latest
  <2>5. \A i, j \in DOMAIN keywords : i < j => Newest(keywords[i]) > Newest(keywords[j])
    <3> HIDE DEF Newest
    <3>1. \A i \in DOMAIN keywords : Newest(keywords[i]) \in DOMAIN answers
      BY <2>4 DEF Latest
    <3> QED  BY <2>4, <3>1 DEF RecentInv, WordsOK, Recent
  <2>6. ToSet(keywords) = ToSet(answers)
    <3>1. \A i \in DOMAIN keywords : \E x \in DOMAIN answers : answers[x] = keywords[i]
      BY DEF RecentInv, WordsOK, Recent, Latest
    <3>2. \A x \in DOMAIN answers : \E i \in DOMAIN keywords : keywords[i] = answers[x]
      BY DEF RecentInv, WordsOK, Recent
    <3> QED  BY <3>1, <3>2 DEF ToSet
  <2>7. Prefs!Settled => Recall(prefsFile["recentSearches"]) = keywords
    BY DEF RecentInv, PrefsOK, SyncOK, Prefs!Settled
  <2> HIDE DEF Newest
  <2>8. /\ Prefs!Settled /\ prefsFile["recentSearches"] # NoText => prefsFile["recentSearches"] = keywords
        /\ Prefs!Settled /\ prefsFile["recentSearches"] = NoText => keywords = <<>>
    BY <2>7 DEF Recall
  <2> QED  BY <2>3, <2>5, <2>6, <2>8 DEF RecentFirst, Newest
<1> QED  BY <1>1, RecentInvariant, PTL

-----------------------------------------------------------------------------
(* The bookmarks.                                                            *)


-----------------------------------------------------------------------------
(* The invariant.                                                            *)

WishMaps == [Keys -> Seq(Articles) \cup {Nothing}]
WishWrite == [map : WishMaps, task : {"save", "logout"}]

WishOnce(m) == IsInjective(Loaded(m["wishlist"]))

WishListOK ==
  blogs \in Seq(Articles) /\ erased \in BOOLEAN /\ IsInjective(blogs)

WishFileOK ==
  /\ mem \in WishMaps /\ disk \in WishMaps /\ lost \in BOOLEAN /\ writes \in Seq(WishWrite)
  /\ WishOnce(disk) /\ \A i \in DOMAIN writes : WishOnce(writes[i].map)
  /\ Loaded(mem["wishlist"]) = IF erased THEN <<>> ELSE blogs
  /\ SyncOK(writes, disk, lost, mem)

WishInv == WishListOK /\ WishFileOK

-----------------------------------------------------------------------------
(* The list, with an article more and with one less.                         *)

LEMMA AddsOnce ==
  ASSUME NEW list \in Seq(Articles), IsInjective(list), NEW a \in Articles, ~Has(list, a)
  PROVE  Append(list, a) \in Seq(Articles) /\ IsInjective(Append(list, a))
<1> DEFINE r == Append(list, a)
           n == Len(list)
<1>1. /\ r \in Seq(Articles) /\ DOMAIN r = DOMAIN list \cup {n + 1}
      /\ \A i \in DOMAIN list : r[i] = list[i] /\ list[i] # a
      /\ r[n + 1] = a
  BY AppendPlaces DEF Has
<1> HIDE DEF r, n
<1>2. \A i, j \in DOMAIN r : r[i] = r[j] => i = j
  BY <1>1 DEF IsInjective
<1> QED  BY <1>1, <1>2 DEF IsInjective, r

LEMMA DropsOnce ==
  ASSUME NEW list \in Seq(Articles), IsInjective(list), NEW d \in DOMAIN list
  PROVE  RemoveAt(list, d) \in Seq(Articles) /\ IsInjective(RemoveAt(list, d))
<1> DEFINE r == RemoveAt(list, d)
<1>1. Dropped(Articles, r, list, d)
  BY RemovedDropped
<1>2. r \in Seq(Articles) /\ DOMAIN r = 1 .. Len(r) /\ Len(r) \in Nat
  BY <1>1, SeqIs DEF Dropped
<1> HIDE DEF r
<1>3. ASSUME NEW i \in DOMAIN r, NEW j \in DOMAIN r, i < j  PROVE r[i] # r[j]
  <2>1. PICK k \in DOMAIN list, l \in DOMAIN list : k < l /\ r[i] = list[k] /\ r[j] = list[l]
    BY <1>1, <1>3, DroppedPlaces
  <2>2. k # l
    BY <2>1, SeqIs
  <2> QED  BY <2>1, <2>2 DEF IsInjective
<1>4. \A i, j \in DOMAIN r : i < j \/ j < i \/ i = j
  BY <1>2
<1>5. IsInjective(r)
  BY <1>3, <1>4 DEF IsInjective
<1> QED  BY <1>2, <1>5 DEF r

(* An empty list, that of a logout, holds nothing twice.                     *)
LEMMA EmptyOnce == IsInjective(<<>>) /\ <<>> \in Seq(Articles)
<1>1. <<>> \in Seq(Articles) /\ DOMAIN <<>> = {}
  BY EmptySeq, LenProperties
<1> QED  BY <1>1 DEF IsInjective

-----------------------------------------------------------------------------
(* What each operation of the store keeps.                                   *)

(* The value v is set: a list, or nothing, on a logout. *)
LEMMA WishSets ==
  ASSUME WishlistAssumption, WishFileOK, NEW v \in Seq(Articles) \cup {Nothing},
         NEW t \in {"save", "logout"}, IsInjective(Loaded(v)),
         SetItem("wishlist", v, t),
         Loaded(v) = IF erased' THEN <<>> ELSE blogs'
  PROVE  WishFileOK' /\ Versions' = Versions \cup {Loaded(v)}
<1> DEFINE e == [map |-> mem', task |-> t]
<1>1. /\ mem' = [mem EXCEPT !["wishlist"] = v]
      /\ writes' = Append(writes, e) /\ lost' = FALSE /\ disk' = disk
  BY DEF SetItem
<1>2. mem' \in WishMaps /\ mem'["wishlist"] = v
  BY <1>1 DEF WishFileOK, WishMaps, WishlistAssumption
<1>3. e \in WishWrite /\ e.map = mem' /\ WishOnce(mem') /\ writes \in Seq(WishWrite)
  BY <1>2 DEF WishWrite, WishOnce, WishFileOK
<1> HIDE DEF e
<1>4. /\ writes' \in Seq(WishWrite)
      /\ DOMAIN writes' = DOMAIN writes \cup {Len(writes) + 1}
      /\ \A i \in DOMAIN writes : writes'[i] = writes[i]
      /\ writes'[Len(writes) + 1] = e
  BY <1>1, <1>3, AppendPlaces
<1>5. SyncOK(writes', disk', FALSE, mem')
  <2>1. SyncOK(Append(writes, e), disk', FALSE, e.map)
    BY <1>3, SyncSets, Zenon
  <2>2. writes' = Append(writes, e) /\ e.map = mem'
    BY <1>1, <1>3
  <2> QED  BY <2>1, <2>2, Zenon
<1>6. \A i \in DOMAIN writes' : WishOnce(writes'[i].map)
  BY <1>3, <1>4 DEF WishFileOK
<1>7. WishFileOK'
  BY <1>1, <1>2, <1>4, <1>5, <1>6 DEF WishFileOK
<1>8. Versions' = Versions \cup {Loaded(v)}
  <2>1. disk' = disk /\ Loaded(writes'[Len(writes) + 1].map["wishlist"]) = Loaded(v)
    BY <1>1, <1>2, <1>3, <1>4
  <2>2. \A i \in DOMAIN writes :
          Loaded(writes'[i].map["wishlist"]) = Loaded(writes[i].map["wishlist"])
    BY <1>4
  <2>3. {Loaded(writes'[i].map["wishlist"]) : i \in DOMAIN writes'} =
          {Loaded(writes[i].map["wishlist"]) : i \in DOMAIN writes} \cup {Loaded(v)}
    <3> DEFINE now == {Loaded(writes'[i].map["wishlist"]) : i \in DOMAIN writes'}
               old == {Loaded(writes[i].map["wishlist"]) : i \in DOMAIN writes}
    <3>1. \A x \in now : x \in old \cup {Loaded(v)}
      BY <1>4, <2>1, <2>2
    <3>2. \A x \in old \cup {Loaded(v)} : x \in now
      BY <1>4, <2>1, <2>2
    <3> QED  BY <3>1, <3>2
  <2> QED  BY <2>1, <2>3 DEF Versions
<1> QED  BY <1>7, <1>8

LEMMA WishWritten ==
  ASSUME WishFileOK, NEW t, Written(t), UNCHANGED <<blogs, erased>>
  PROVE  WishFileOK' /\ Versions' \subseteq Versions
<1>1. /\ writes \in Seq(WishWrite) /\ writes # <<>> /\ disk' = Head(writes).map
      /\ writes' = Tail(writes) /\ mem' = mem /\ lost' = lost
  BY DEF WishFileOK, Written
<1>2. Dropped(WishWrite, writes', writes, 1) /\ 1 \in DOMAIN writes /\ Head(writes) = writes[1]
  BY <1>1, TailDropped
<1>3. writes' \in Seq(WishWrite) /\ writes[1] \in WishWrite
  BY <1>1, <1>2, SeqIs DEF Dropped
<1>4. \A i \in DOMAIN writes' : \E k \in DOMAIN writes : writes'[i] = writes[k]
  BY <1>1, <1>2, DroppedPlaces
<1>5. SyncOK(writes', disk', lost', mem')
  BY <1>1, SyncWritten DEF WishFileOK
<1>6. disk' \in WishMaps /\ WishOnce(disk')
  BY <1>1, <1>2, <1>3 DEF WishFileOK, WishWrite
<1>7. WishFileOK'
  BY <1>1, <1>3, <1>4, <1>5, <1>6 DEF WishFileOK
<1>8. Versions' \subseteq Versions
  BY <1>1, <1>2, <1>4 DEF Versions
<1> QED  BY <1>7, <1>8

LEMMA WishFails ==
  ASSUME WishFileOK, NEW t, WriteFails(t), UNCHANGED <<blogs, erased>>
  PROVE  WishFileOK' /\ Versions' \subseteq Versions
<1>1. PICK d \in DOMAIN writes :
        /\ writes' = RemoveAt(writes, d)
        /\ lost' = (lost \/ d = Len(writes)) /\ mem' = mem /\ disk' = disk
  BY DEF WriteFails
<1>2. writes \in Seq(WishWrite) /\ lost \in BOOLEAN
  BY DEF WishFileOK
<1>3. Dropped(WishWrite, writes', writes, d) /\ writes' \in Seq(WishWrite)
  BY <1>1, <1>2, RemovedDropped DEF Dropped
<1>4. \A i \in DOMAIN writes' : \E k \in DOMAIN writes : writes'[i] = writes[k]
  BY <1>2, <1>3, DroppedPlaces
<1>5. SyncOK(writes', disk', lost', mem')
  BY <1>1, <1>2, <1>3, SyncFails DEF WishFileOK
<1>6. lost' \in BOOLEAN
  BY <1>1, <1>2, Zenon
<1>7. WishFileOK'
  BY <1>1, <1>3, <1>4, <1>5, <1>6 DEF WishFileOK
<1>8. Versions' \subseteq Versions
  BY <1>1, <1>4 DEF Versions
<1> QED  BY <1>7, <1>8

LEMMA WishRead ==
  ASSUME WishlistAssumption, WishFileOK, WishlistRestart
  PROVE  WishFileOK' /\ WishListOK' /\ Versions' = {blogs'} /\ blogs' \in Versions
<1>1. /\ mem' = disk /\ writes' = <<>> /\ lost' = FALSE /\ disk' = disk
      /\ blogs' = Loaded(disk["wishlist"]) /\ erased' = FALSE
  BY DEF WishlistRestart, Reload
<1>2. disk["wishlist"] \in Seq(Articles) \cup {Nothing} /\ IsInjective(blogs')
  BY <1>1 DEF WishFileOK, WishMaps, WishOnce, WishlistAssumption
<1>3. blogs' \in Seq(Articles)
  BY <1>1, <1>2, EmptyOnce DEF Loaded
<1>4. writes' \in Seq(WishWrite) /\ DOMAIN writes' = {}
  BY <1>1, EmptySeq, LenProperties
<1>5. WishFileOK'
  BY <1>1, <1>4 DEF WishFileOK, SyncOK
<1>6. Versions' = {blogs'} /\ blogs' \in Versions
  BY <1>1, <1>4 DEF Versions
<1> QED  BY <1>1, <1>2, <1>3, <1>5, <1>6 DEF WishListOK

-----------------------------------------------------------------------------
(* Every step keeps the invariant, and is a step of Bookmarks or changes     *)
(* nothing that Bookmarks shows.                                             *)

LEMMA SaveKeeps ==
  ASSUME WishlistAssumption, WishFileOK, NEW list \in Seq(Articles), IsInjective(list),
         blogs' = list, SaveWishlist(list)
  PROVE  WishInv' /\ Versions' = Versions \cup {blogs'}
<1>1. SetItem("wishlist", list, "save") /\ erased' = FALSE
  BY DEF SaveWishlist
<1>2. Loaded(list) = list
  BY DEF Loaded, WishlistAssumption
<1>3. WishFileOK' /\ Versions' = Versions \cup {Loaded(list)}
  BY <1>1, <1>2, WishSets
<1> QED  BY <1>1, <1>2, <1>3 DEF WishInv, WishListOK

LEMMA AddKeeps ==
  ASSUME WishlistAssumption, WishInv, NEW a \in Articles, AddToWishlist(a)
  PROVE  WishInv' /\ B!Add(a)
<1> DEFINE list == Append(blogs, a)
<1>1. blogs' = list /\ ~Has(blogs, a) /\ SaveWishlist(list)
  BY DEF AddToWishlist, MayAdd
<1>2. list \in Seq(Articles) /\ IsInjective(list)
  BY <1>1, AddsOnce DEF WishInv, WishListOK
<1>3. WishInv' /\ Versions' = Versions \cup {blogs'}
  BY <1>1, <1>2, SaveKeeps DEF WishInv
<1> QED  BY <1>1, <1>3 DEF B!Add, B!Has, Has

LEMMA RemoveKeeps ==
  ASSUME WishlistAssumption, WishInv, NEW a \in Articles, RemoveToWishlist(a)
  PROVE  WishInv' /\ B!Discard(a)
<1>1. PICK i \in DOMAIN blogs :
        blogs[i] = a /\ blogs' = RemoveAt(blogs, i) /\ SaveWishlist(blogs')
  BY DEF RemoveToWishlist
<1>2. blogs' \in Seq(Articles) /\ IsInjective(blogs')
  BY <1>1, DropsOnce DEF WishInv, WishListOK
<1>3. WishInv' /\ Versions' = Versions \cup {blogs'}
  BY <1>1, <1>2, SaveKeeps DEF WishInv
<1>4. blogs' = B!RemoveAt(blogs, i)
  BY <1>1 DEF RemoveAt, B!RemoveAt
<1> QED  BY <1>1, <1>3, <1>4 DEF B!Discard

LEMMA LogoutKeeps ==
  ASSUME WishlistAssumption, WishInv, LogoutDeletes
  PROVE  WishInv' /\ B!Forget
<1>1. SetItem("wishlist", Nothing, "logout") /\ erased' = TRUE /\ blogs' = blogs
  BY DEF LogoutDeletes
<1>2. Loaded(Nothing) = <<>> /\ IsInjective(Loaded(Nothing))
  BY EmptyOnce DEF Loaded
<1>3. WishFileOK' /\ Versions' = Versions \cup {<<>>}
  BY <1>1, <1>2, WishSets DEF WishInv
<1> QED  BY <1>1, <1>3 DEF WishInv, WishListOK, B!Forget

LEMMA EndKeeps ==
  ASSUME WishInv, WriteEnds
  PROVE  WishInv' /\ B!Settle
<1>1. PICK t \in {"save", "logout"} : Written(t) \/ WriteFails(t)
  BY DEF WriteEnds
<1>2. blogs' = blogs /\ erased' = erased
  BY DEF WriteEnds
<1>3. WishFileOK' /\ Versions' \subseteq Versions
  BY <1>1, <1>2, WishWritten, WishFails DEF WishInv
<1>4. Versions' # {}
  BY DEF Versions
<1> QED  BY <1>2, <1>3, <1>4 DEF WishInv, WishListOK, B!Settle

LEMMA WishRestart ==
  ASSUME WishlistAssumption, WishInv, WishlistRestart
  PROVE  WishInv' /\ B!Restart
BY WishRead DEF WishInv, B!Restart

LEMMA WishInit ==
  ASSUME WishlistAssumption, WishlistInit
  PROVE  WishInv /\ B!BookmarksInit
<1>1. /\ blogs = <<>> /\ erased = FALSE /\ mem = Blank /\ disk = Blank
      /\ writes = <<>> /\ lost = FALSE
  BY DEF WishlistInit, StoreInit
<1>2. Blank \in WishMaps /\ Loaded(Blank["wishlist"]) = <<>>
  BY DEF Blank, WishMaps, Loaded, WishlistAssumption
<1>3. writes \in Seq(WishWrite) /\ DOMAIN writes = {}
  BY <1>1, EmptySeq, LenProperties
<1>4. WishListOK
  BY <1>1, EmptyOnce DEF WishListOK
<1>5. WishFileOK
  BY <1>1, <1>2, <1>3, EmptyOnce DEF WishFileOK, WishOnce, SyncOK
<1>6. Versions = {<<>>}
  BY <1>1, <1>2, <1>3 DEF Versions
<1> QED  BY <1>1, <1>4, <1>5, <1>6 DEF WishInv, B!BookmarksInit

LEMMA WishNext ==
  ASSUME WishlistAssumption, WishInv, [WishlistNext]_wishlistVars
  PROVE  WishInv' /\ [B!BookmarksNext]_<<blogs, Versions>>
<1>1. ASSUME NEW a \in Articles, AddToWishlist(a)
      PROVE  WishInv' /\ [B!BookmarksNext]_<<blogs, Versions>>
  BY <1>1, AddKeeps DEF B!BookmarksNext
<1>2. ASSUME NEW a \in Articles, RemoveToWishlist(a)
      PROVE  WishInv' /\ [B!BookmarksNext]_<<blogs, Versions>>
  BY <1>2, RemoveKeeps DEF B!BookmarksNext
<1>3. CASE LogoutDeletes
  BY <1>3, LogoutKeeps DEF B!BookmarksNext
<1>4. CASE WriteEnds
  BY <1>4, EndKeeps DEF B!BookmarksNext
<1>5. CASE WishlistRestart
  BY <1>5, WishRestart DEF B!BookmarksNext
<1>6. CASE UNCHANGED wishlistVars
  <2>1. UNCHANGED <<blogs, erased, mem, disk, writes, lost>>
    BY <1>6 DEF wishlistVars, storeVars
  <2>2. WishInv'
    BY <2>1 DEF WishInv, WishListOK, WishFileOK
  <2>3. Versions' = Versions
    BY <2>1 DEF Versions
  <2> QED  BY <2>1, <2>2, <2>3
<1> QED  BY <1>1, <1>2, <1>3, <1>4, <1>5, <1>6 DEF WishlistNext

LEMMA WishInvariant ==
  ASSUME WishlistAssumption  PROVE WishlistSpec => []WishInv
<1>1. WishlistInit => WishInv
  BY WishInit
<1>2. WishInv /\ [WishlistNext]_wishlistVars => WishInv'
  BY WishNext
<1> QED  BY <1>1, <1>2, PTL DEF WishlistSpec

(* The store and the list keep their types, and no article is bookmarked     *)
(* twice, on display or in the file, for any articles and bound.             *)
THEOREM NoArticleTwice ==
  ASSUME WishlistAssumption  PROVE WishlistSpec => []WishlistTypeOK
<1>1. WishInv => WishlistTypeOK
  <2> SUFFICES ASSUME WishInv  PROVE WishlistTypeOK
    OBVIOUS
  <2>1. \A i \in DOMAIN writes : writes[i].map \in WishMaps
    <3>1. writes \in Seq(WishWrite)
      BY DEF WishInv, WishFileOK
    <3>2. \A i \in DOMAIN writes : writes[i] \in WishWrite
      BY <3>1, SeqIs
    <3> QED  BY <3>2 DEF WishWrite
  <2>2. StoreOK(Seq(Articles))
    BY <2>1 DEF WishInv, WishFileOK, WishMaps, StoreOK
  <2> QED  BY <2>2 DEF WishInv, WishListOK, WishFileOK, WishOnce, WishlistTypeOK
<1> QED  BY <1>1, WishInvariant, PTL

(* Once writing is over the file holds the bookmarks on display, unless the  *)
(* newest write failed or a logout emptied it.                               *)
THEOREM TheFileHoldsTheList ==
  ASSUME WishlistAssumption  PROVE WishlistSpec => []BookmarksKept
<1>1. WishInv => BookmarksKept
  BY DEF WishInv, WishFileOK, SyncOK, Settled, BookmarksKept
<1> QED  BY <1>1, WishInvariant, PTL

(* The wish list implements Bookmarks: every tap, write, logout and restart  *)
(* is a step of it or changes nothing that it shows.                         *)
THEOREM WishlistKeepsThePromise ==
  ASSUME WishlistAssumption  PROVE WishlistSpec => KeepsPromise
<1>1. WishlistInit => B!BookmarksInit
  BY WishInit
<1>2. WishInv /\ [WishlistNext]_wishlistVars => [B!BookmarksNext]_<<blogs, Versions>>
  BY WishNext
<1> QED  BY <1>1, <1>2, WishInvariant, PTL DEF WishlistSpec, KeepsPromise, B!BookmarksSpec

=============================================================================
