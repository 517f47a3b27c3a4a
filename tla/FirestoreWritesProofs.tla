----------------------- MODULE FirestoreWritesProofs -----------------------
(* Theorems about FirestoreWrites, for any users, pipeline and number of     *)
(* writes and faults: what travels stays in step with the pipeline, what was *)
(* confirmed stays, callers are told in time, and the client implements the  *)
(* Outbox.                                                                   *)
EXTENDS FirestoreWrites, TLAPS, SequenceTheorems, WellFoundedInduction

-----------------------------------------------------------------------------
(* The inductive invariant.                                                  *)

Ordered(q) == \A i, j \in DOMAIN q : i < j => q[i].id < q[j].id /\ q[i].n < q[j].n

(* The queues hold the writes in the order they were made, and no id twice.  *)
Disk ==
  /\ user \in Users
  /\ queue \in [Users -> Seq(Batch)]
  /\ nextId \in Nat \ {0} /\ written \in Nat /\ faults \in Nat
  /\ \A u \in Users : Ordered(queue[u])
  /\ \A u \in Users : \A i \in DOMAIN queue[u] :
       /\ 1 <= queue[u][i].id /\ queue[u][i].id < nextId
       /\ 1 <= queue[u][i].n /\ queue[u][i].n <= written
  /\ \A u, v \in Users : u # v =>
       \A i \in DOMAIN queue[u], j \in DOMAIN queue[v] : queue[u][i].id # queue[v][j].id

(* What is settled was written before all that is not; a write confirmed is  *)
(* no newer than what the server applied last.                               *)
Past ==
  /\ applied \in [Users -> SUBSET Nat] /\ latest \in [Users -> Nat]
  /\ confirmed \in [Users -> SUBSET Nat] /\ refused \in [Users -> SUBSET Nat]
  /\ \A u \in Users : \A n \in confirmed[u] \cup refused[u] :
       n <= written /\ \A i \in DOMAIN queue[u] : n < queue[u][i].n
  /\ \A u \in Users : \A n \in confirmed[u] : n <= latest[u]

(* A callback is of a write that waits; a waiter's writes are settled, or    *)
(* wait up to its id, and the one with its id waits.                         *)
Told ==
  /\ callbacks \in [Users -> SUBSET Batch]
  /\ \A u \in Users : \A c \in callbacks[u] : \E i \in DOMAIN queue[u] : queue[u][i] = c
  /\ waiting \subseteq [id : Nat, due : SUBSET Nat]
  /\ \A w \in waiting : \A n \in w.due :
       \/ n \in confirmed[user] \cup refused[user]
       \/ \E i \in DOMAIN queue[user] : queue[user][i].n = n /\ queue[user][i].id <= w.id
  /\ \A w \in waiting :
       \E i \in DOMAIN queue[user] : queue[user][i].id = w.id /\ queue[user][i].n \in w.due

(* The pipeline p is the beginning of the queue q.                           *)
Begins(p, q) ==
  /\ p \in Seq(Batch)
  /\ Len(p) <= MaxPendingWrites /\ Len(p) <= Len(q)
  /\ \A i \in 1 .. Len(p) : p[i] = q[i]

States == {"Initial", "Starting", "Open", "Error", "Backoff"}

Piped ==
  /\ network \in BOOLEAN /\ state \in States
  /\ Begins(pipeline, queue[user])
  /\ network => Len(pipeline) = MaxPendingWrites \/ Len(pipeline) = Len(queue[user])
  /\ network /\ pipeline # <<>> => Started(state)
  /\ ~network => pipeline = <<>> /\ ~Started(state)

(* The answers d and requests s of a stream that is open: the handshake's,   *)
(* then those of the writes of p in their order.                             *)
Answer == [of : Nat, token : Tokens]

Carries(hs, cl, d, s, p) ==
  /\ d \in Seq(Answer) /\ s \in Seq(Nat)
  /\ hs => /\ Len(d) <= Len(p)
           /\ \A i \in 1 .. Len(d) : d[i].of = p[i].n
  /\ ~hs => /\ Len(d) <= 1
            /\ \A i \in 1 .. Len(d) : d[i].of = 0
  /\ hs /\ cl = "none" => /\ Len(d) + Len(s) = Len(p)
                          /\ \A j \in 1 .. Len(s) : s[j] = p[Len(d) + j].n
  /\ ~hs /\ cl = "none" => /\ Len(d) + Len(s) = 1
                           /\ \A j \in 1 .. Len(s) : s[j] = 0

Streaming ==
  /\ handshake \in BOOLEAN /\ idle \in BOOLEAN
  /\ closing \in Statuses \cup {"none"}
  /\ savedToken \in [Users -> Tokens \cup {NoToken}] /\ token \in Tokens \cup {NoToken}
  /\ handshake => state = "Open" /\ token = savedToken[user] /\ token \in Tokens
  /\ Started(state) /\ ~handshake => pipeline # <<>>
  /\ idle => handshake /\ pipeline = <<>>
  /\ IF state = "Open"
     THEN Carries(handshake, closing, down, up, pipeline)
     ELSE down = <<>> /\ up = <<>> /\ closing = "none"

(* The server applied what it answers for.                                   *)
Serving ==
  handshake => \A i \in 1 .. Len(down) : down[i].of \in applied[user] /\ down[i].of <= latest[user]

IInv == Disk /\ Past /\ Told /\ Piped /\ Streaming /\ Serving

-----------------------------------------------------------------------------
(* The greatest and the least of some numbers.                               *)

LEMMA LeastNat ==
  ASSUME NEW S, S \subseteq Nat, S # {}
  PROVE  \E x \in S : \A y \in S : x <= y
<1>1. IsWellFoundedOn(OpToRel(<, Nat), Nat)
  BY NatLessThanWellFounded
<1>2. \A x, y \in Nat : <<x, y>> \in OpToRel(<, Nat) <=> x < y
  BY DEF OpToRel
<1> DEFINE R == OpToRel(<, Nat)
<1> HIDE DEF R
<1>3. IsWellFoundedOn(R, Nat)
  BY <1>1 DEF R
<1>4. \E x \in S : \A y \in S : ~ (<<y, x>> \in R)
  BY <1>3, WFMin
<1>5. \A x, y \in Nat : <<x, y>> \in R <=> x < y
  BY <1>2 DEF R
<1>6. PICK x \in S : \A y \in S : ~ (<<y, x>> \in R)
  BY <1>4
<1>7. \A y \in S : ~(y < x)
  BY <1>5, <1>6
<1>8. \A y \in S : x <= y
  BY <1>7
<1> QED  BY <1>6, <1>8

LEMMA MaxIs ==
  ASSUME NEW k \in Nat, NEW S, S \subseteq 0 .. k, S # {}
  PROVE  Max(S) \in S /\ \A y \in S : y <= Max(S)
<1> DEFINE B == {b \in Nat : \A x \in S : x <= b}
<1>1. k \in B
  OBVIOUS
<1>2. PICK m \in B : \A b \in B : m <= b
  <2>1. B \subseteq Nat /\ B # {}
    BY <1>1
  <2> HIDE DEF B
  <2> QED BY <2>1, LeastNat
<1>3. m \in S
  <2>1. SUFFICES ASSUME m \notin S PROVE FALSE
    OBVIOUS
  <2>2. m \in Nat /\ \A x \in S : x <= m /\ x \in Nat /\ x # m
    BY <2>1
  <2>3. m # 0
    <3>1. PICK x \in S : TRUE
      OBVIOUS
    <3> QED  BY <2>2, <3>1
  <2>4. m - 1 \in B
    BY <2>2, <2>3
  <2>5. m <= m - 1
    BY <1>2, <2>4
  <2> QED BY <2>2, <2>5
<1>4. \E x \in S : \A y \in S : x >= y
  <2>1. \A y \in S : m >= y
    BY <1>2
  <2> QED BY <1>3, <2>1
<1>5. Max(S) \in S /\ \A y \in S : Max(S) >= y
  BY <1>4 DEF Max
<1> QED BY <1>5

LEMMA MinIs ==
  ASSUME NEW S, S \subseteq Nat, S # {}
  PROVE  Min(S) \in S /\ \A y \in S : Min(S) <= y
BY LeastNat DEF Min

LEMMA NewestIs ==
  ASSUME NEW k \in Nat, NEW S, S \subseteq 0 .. k
  PROVE  /\ Newest(S) \in Nat /\ Newest(S) <= k /\ \A y \in S : y <= Newest(S)
         /\ S # {} => Newest(S) \in S
<1>1. CASE S = {}
  BY <1>1 DEF Newest
<1>2. CASE S # {}
  <2>1. Max(S) \in S /\ \A y \in S : y <= Max(S)
    BY <1>2, MaxIs
  <2>2. Newest(S) = Max(S)
    BY <1>2 DEF Newest
  <2>3. Max(S) \in Nat /\ Max(S) <= k
    <3>1. \A x \in S : x \in Nat /\ x <= k
      OBVIOUS
    <3> QED  BY <2>1, <3>1, Zenon
  <2> QED  BY <2>1, <2>2, <2>3
<1> QED  BY <1>1, <1>2

-----------------------------------------------------------------------------
(* Queues.                                                                   *)

LEMMA SeqParts ==
  ASSUME NEW S, NEW q \in Seq(S)
  PROVE  /\ Len(q) \in Nat /\ DOMAIN q = 1 .. Len(q)
         /\ \A i \in 1 .. Len(q) : q[i] \in S
         /\ q # <<>> <=> Len(q) # 0
<1>1. Len(q) \in Nat /\ DOMAIN q = 1 .. Len(q)
  BY LenProperties
<1>2. \A i \in 1 .. Len(q) : q[i] \in S
  BY ElementOfSeq
<1>3. q # <<>> <=> Len(q) # 0
  BY EmptySeq
<1> QED  BY <1>1, <1>2, <1>3

LEMMA TailParts ==
  ASSUME NEW S, NEW q \in Seq(S), q # <<>>
  PROVE  /\ Tail(q) \in Seq(S) /\ Len(q) >= 1 /\ Len(Tail(q)) = Len(q) - 1
         /\ DOMAIN Tail(q) = 1 .. Len(q) - 1
         /\ \A i \in 1 .. Len(q) - 1 : i + 1 \in 1 .. Len(q) /\ Tail(q)[i] = q[i + 1]
         /\ Head(q) = q[1] /\ 1 \in DOMAIN q /\ Head(q) \in S
<1>1. /\ Len(q) \in Nat /\ DOMAIN q = 1 .. Len(q) /\ Len(q) # 0
  BY SeqParts
<1>2. /\ Tail(q) \in Seq(S) /\ Len(Tail(q)) = Len(q) - 1 /\ Head(q) \in S
      /\ \A i \in 1 .. Len(Tail(q)) : Tail(q)[i] = q[i + 1]
  BY HeadTailProperties
<1>3. DOMAIN Tail(q) = 1 .. Len(q) - 1
  BY <1>2, SeqParts
<1>4. Head(q) = q[1]
  OBVIOUS
<1>5. /\ Len(q) >= 1 /\ 1 \in 1 .. Len(q)
      /\ \A i \in 1 .. Len(q) - 1 : i + 1 \in 1 .. Len(q)
  BY <1>1
<1> QED  BY <1>1, <1>2, <1>3, <1>4, <1>5

LEMMA AppendParts ==
  ASSUME NEW S, NEW q \in Seq(S), NEW e \in S
  PROVE  /\ Append(q, e) \in Seq(S) /\ Len(Append(q, e)) = Len(q) + 1
         /\ DOMAIN Append(q, e) = 1 .. Len(q) + 1
         /\ \A i \in 1 .. Len(q) : Append(q, e)[i] = q[i]
         /\ Append(q, e)[Len(q) + 1] = e
         /\ \A i \in 1 .. Len(q) + 1 : i \in 1 .. Len(q) \/ i = Len(q) + 1
<1>1. /\ Append(q, e) \in Seq(S) /\ Len(Append(q, e)) = Len(q) + 1
      /\ \A i \in 1 .. Len(q) : Append(q, e)[i] = q[i]
      /\ Append(q, e)[Len(q) + 1] = e
  BY AppendProperties
<1>2. DOMAIN Append(q, e) = 1 .. Len(q) + 1
  BY <1>1, SeqParts
<1>3. Len(q) \in Nat
  BY SeqParts
<1>4. \A i \in 1 .. Len(q) + 1 : i \in 1 .. Len(q) \/ i = Len(q) + 1
  BY <1>3
<1> QED  BY <1>1, <1>2, <1>4

(* A batch newer than the queue comes last.                                  *)
LEMMA AddBatchIs ==
  ASSUME NEW q \in Seq(Batch), NEW b \in Batch, \A i \in DOMAIN q : q[i].id < b.id
  PROVE  AddBatch(q, b) = Append(q, b)
<1> DEFINE n == Len(q)
           before == {i \in DOMAIN q : q[i].id < b.id}
           after  == {i \in DOMAIN q : q[i].id > b.id}
<1>1. n \in Nat /\ DOMAIN q = 1 .. n /\ \A i \in 1 .. n : q[i] \in Batch
  BY SeqParts
<1>2. before = 1 .. n
  BY <1>1
<1>3. after = {}
  <2>1. ASSUME NEW i \in DOMAIN q  PROVE ~(q[i].id > b.id)
    <3>1. q[i].id \in Nat /\ b.id \in Nat /\ q[i].id < b.id
      BY <1>1 DEF Batch
    <3> QED  BY <3>1
  <2> QED  BY <2>1
<1>4. Newest(before) = n
  <2>1. 1 .. n \subseteq 0 .. n
    BY <1>1
  <2>2. CASE n = 0
    BY <1>2, <2>2 DEF Newest
  <2>3. CASE n # 0
    <3>1. n \in 1 .. n
      BY <1>1, <2>3
    <3>2. Newest(before) \in Nat /\ Newest(before) <= n /\ n <= Newest(before)
      BY <1>1, <1>2, <2>1, <3>1, NewestIs
    <3> QED  BY <1>1, <3>2
  <2> QED  BY <2>2, <2>3
<1>5. SubSeq(q, 1, n) = q
  BY SubSeqFull
<1>6. AddBatch(q, b) = SubSeq(q, 1, Newest(before)) \o <<b>>
                       \o (IF after = {} THEN <<>> ELSE SubSeq(q, Min(after), Len(q)))
  BY DEF AddBatch
<1>7. q \o <<b>> = Append(q, b)
  BY AppendIsConcat
<1>8. Append(q, b) \o <<>> = Append(q, b)
  BY AppendParts, ConcatEmptySeq
<1> HIDE DEF n, before, after
<1> QED  BY <1>3, <1>4, <1>5, <1>6, <1>7, <1>8

(* The first batch is the one removed.                                       *)
LEMMA RemoveBatchIs ==
  ASSUME NEW q \in Seq(Batch), Ordered(q), q # <<>>
  PROVE  RemoveBatch(q, q[1].id) = Tail(q)
<1>1. Len(q) \in Nat /\ DOMAIN q = 1 .. Len(q) /\ 1 \in DOMAIN q
      /\ \A i \in 1 .. Len(q) : q[i] \in Batch
  BY SeqParts, TailParts
<1>2. \A i \in DOMAIN q : q[i].id = q[1].id => i = 1
  <2>1. ASSUME NEW i \in DOMAIN q, i # 1  PROVE q[1].id < q[i].id
    BY <1>1, <2>1 DEF Ordered
  <2>2. \A i \in DOMAIN q : q[i].id \in Nat
    BY <1>1 DEF Batch
  <2> QED  BY <1>1, <2>1, <2>2
<1>3. (CHOOSE i \in DOMAIN q : q[i].id = q[1].id) = 1
  BY <1>1, <1>2
<1>4. RemoveBatch(q, q[1].id) = SubSeq(q, 1, 0) \o SubSeq(q, 2, Len(q))
  <2>1. RemoveBatch(q, q[1].id) = RemoveAt(q, 1)
    BY <1>3 DEF RemoveBatch
  <2>2. RemoveAt(q, 1) = SubSeq(q, 1, 1 - 1) \o SubSeq(q, 1 + 1, Len(q))
    BY Zenon DEF RemoveAt
  <2>3. 1 - 1 = 0 /\ 1 + 1 = 2
    OBVIOUS
  <2> QED  BY <2>1, <2>2, <2>3
<1>5. SubSeq(q, 1, 0) = <<>> /\ Tail(q) = SubSeq(q, 2, Len(q))
  BY SubSeqEmpty, TailIsSubSeq
<1>6. <<>> \o Tail(q) = Tail(q)
  BY TailParts, ConcatEmptySeq
<1> QED  BY <1>4, <1>5, <1>6

-----------------------------------------------------------------------------
(* The pipeline.                                                             *)

(* It is filled as far as there is room or the queue goes.                   *)
LEMMA FilledIs ==
  ASSUME NEW q \in Seq(Batch), Ordered(q), \A i \in DOMAIN q : 1 <= q[i].id,
         NEW p, Begins(p, q)
  PROVE  /\ Begins(Filled(p, q), q)
         /\ Len(p) <= Len(Filled(p, q))
         /\ Len(Filled(p, q)) = MaxPendingWrites \/ Len(Filled(p, q)) = Len(q)
<1> DEFINE k == Len(p)
           n == Len(q)
           M == MaxPendingWrites
           after == {i \in DOMAIN q : q[i].id > LastRetrieved(p)}
<1>1. /\ n \in Nat /\ DOMAIN q = 1 .. n
      /\ \A i \in 1 .. n : q[i] \in Batch
  BY SeqParts
<1>2. /\ p \in Seq(Batch) /\ k \in Nat /\ k <= M /\ k <= n
      /\ \A i \in 1 .. k : p[i] = q[i]
      /\ p = <<>> => k = 0
      /\ p # <<>> => k # 0
  BY SeqParts DEF Begins
<1>3. M \in Nat \ {0}
  BY WritesAssumption
<1>4. Filled(p, q) = IF after = {} THEN p
                     ELSE p \o SubSeq(q, Min(after), Min({n, Min(after) + M - k - 1}))
  BY DEF Filled
<1>5. \A i \in 1 .. n : q[i].id \in Nat
  BY <1>1 DEF Batch
<1>6. after = k + 1 .. n
  <2>1. CASE p = <<>>
    <3>1. LastRetrieved(p) = 0 /\ k = 0
      BY <1>2, <2>1 DEF LastRetrieved
    <3>2. \A i \in 1 .. n : q[i].id > 0
      BY <1>1, <1>5
    <3> QED  BY <1>1, <3>1, <3>2
  <2>2. CASE p # <<>>
    <3>1. k \in 1 .. k /\ k \in 1 .. n /\ k # 0
      BY <1>1, <1>2, <2>2
    <3>2. LastRetrieved(p) = q[k].id
      BY <1>2, <2>2, <3>1 DEF LastRetrieved
    <3>3. \A i \in 1 .. n : (i < k => q[i].id < q[k].id) /\ (k < i => q[k].id < q[i].id)
      BY <1>1, <3>1 DEF Ordered
    <3> HIDE DEF k, n
    <3>4. ASSUME NEW i \in 1 .. n
          PROVE  q[i].id > q[k].id <=> i \in k + 1 .. n
      <4>1. i < k \/ i = k \/ k < i
        BY <1>2
      <4>2. q[i].id \in Nat /\ q[k].id \in Nat
        BY <1>5, <3>1
      <4>3. CASE i < k
        <5>1. q[i].id < q[k].id
          BY <3>3, <4>3
        <5> QED  BY <1>2, <4>2, <4>3, <5>1
      <4>4. CASE i = k
        BY <1>2, <4>2, <4>4
      <4>5. CASE k < i
        <5>1. q[k].id < q[i].id
          BY <3>3, <4>5
        <5> QED  BY <1>1, <1>2, <4>2, <4>5, <5>1
      <4> QED  BY <4>1, <4>3, <4>4, <4>5
    <3>5. \A i \in k + 1 .. n : i \in 1 .. n
      BY <1>1, <1>2
    <3> QED  BY <1>1, <3>2, <3>4, <3>5
  <2> QED  BY <2>1, <2>2
<1> HIDE DEF k, n, M, after
<1>7. CASE k = n
  <2>1. after = {}
    BY <1>1, <1>6, <1>7
  <2>2. Filled(p, q) = p
    BY <1>4, <2>1
  <2> QED  BY <1>2, <1>7, <2>2 DEF k, n
<1>8. CASE k # n
  <2>1. k + 1 \in after /\ after \subseteq Nat /\ after # {}
    BY <1>1, <1>2, <1>6, <1>8
  <2>2. Min(after) = k + 1
    <3>1. Min(after) \in after /\ \A y \in after : Min(after) <= y
      BY <2>1, MinIs
    <3>2. \A x \in after : x >= k + 1 /\ x \in Nat
      BY <1>1, <1>2, <1>6
    <3>3. Min(after) <= k + 1 /\ Min(after) >= k + 1 /\ Min(after) \in Nat
      BY <2>1, <3>1, <3>2, Zenon
    <3> QED  BY <1>2, <3>3
  <2> DEFINE e == Min({n, M})
  <2>3. e \in Nat /\ e <= n /\ e <= M /\ e \in {n, M}
    <3>1. {n, M} \subseteq Nat /\ {n, M} # {}
      BY <1>1, <1>3
    <3>2. e \in {n, M} /\ \A y \in {n, M} : e <= y
      BY <3>1, MinIs
    <3> HIDE DEF e
    <3> QED  BY <3>1, <3>2
  <2>4. (k + 1) + M - k - 1 = M
    BY <1>2, <1>3
  <2>5. Filled(p, q) = p \o SubSeq(q, k + 1, e)
    <3>1. Filled(p, q) = p \o SubSeq(q, Min(after), Min({n, Min(after) + M - k - 1}))
      BY <1>4, <2>1
    <3>2. Min(after) + M - k - 1 = M
      BY <2>2, <2>4
    <3> QED  BY <2>2, <3>1, <3>2
  <2> DEFINE r == SubSeq(q, k + 1, e)
  <2> HIDE DEF e
  <2>6. r \in Seq(Batch) /\ Len(r) = e - k /\ \A i \in 1 .. e - k : r[i] = q[k + i]
    <3>1. \A i \in k + 1 .. e : q[i] \in Batch
      BY <1>1, <1>2, <2>3
    <3>2. k + 1 \in Int /\ e \in Int
      BY <1>2, <2>3
    <3>3. /\ SubSeq(q, k + 1, e) \in Seq(Batch)
          /\ Len(SubSeq(q, k + 1, e)) = IF k + 1 <= e THEN e - (k + 1) + 1 ELSE 0
          /\ \A i \in 1 .. e - (k + 1) + 1 : SubSeq(q, k + 1, e)[i] = q[(k + 1) + i - 1]
      BY <3>1, <3>2, SubSeqProperties
    <3>4. e >= k
      BY <1>1, <1>2, <1>3, <1>8, <2>3
    <3>5. e - (k + 1) + 1 = e - k /\ (IF k + 1 <= e THEN e - (k + 1) + 1 ELSE 0) = e - k
      BY <1>2, <2>3, <3>4
    <3>6. \A i \in 1 .. e - k : (k + 1) + i - 1 = k + i
      BY <1>2, <2>3
    <3> QED  BY <3>3, <3>5, <3>6
  <2>7. e >= k
    BY <1>1, <1>2, <1>3, <1>8, <2>3
  <2> HIDE DEF r
  <2>8. /\ p \o r \in Seq(Batch) /\ Len(p \o r) = k + (e - k)
        /\ \A i \in 1 .. k + (e - k) : (p \o r)[i] = IF i <= k THEN p[i] ELSE r[i - k]
    <3>1. /\ p \o r \in Seq(Batch) /\ Len(p \o r) = Len(p) + Len(r)
          /\ \A i \in 1 .. Len(p) + Len(r) :
               (p \o r)[i] = IF i <= Len(p) THEN p[i] ELSE r[i - Len(p)]
      <4>1. p \in Seq(Batch) /\ r \in Seq(Batch)
        BY <1>2, <2>6
      <4> QED  BY <4>1, ConcatProperties
    <3>2. Len(p) = k /\ Len(r) = e - k
      BY <2>6 DEF k
    <3> QED  BY <3>1, <3>2, Zenon
  <2>9. k + (e - k) = e
    BY <1>2, <2>3
  <2>10. ASSUME NEW i \in 1 .. e  PROVE (p \o r)[i] = q[i]
    <3>1. (p \o r)[i] = IF i <= k THEN p[i] ELSE r[i - k]
      BY <2>8, <2>9
    <3>2. CASE i <= k
      <4>1. i \in 1 .. k
        BY <1>2, <2>3, <3>2
      <4> QED  BY <1>2, <3>1, <3>2, <4>1
    <3>3. CASE ~(i <= k)
      <4>1. i - k \in 1 .. e - k /\ k + (i - k) = i
        BY <1>2, <2>3, <3>3
      <4> QED  BY <2>6, <3>1, <3>3, <4>1
    <3> QED  BY <3>2, <3>3
  <2>11. Filled(p, q) = p \o r
    BY <2>5 DEF r
  <2> QED  BY <2>3, <2>7, <2>8, <2>9, <2>10, <2>11 DEF Begins, k, n, M
<1> QED  BY <1>7, <1>8

LEMMA FunctionIsSeq ==
  ASSUME NEW S, NEW n \in Nat, NEW f \in [1 .. n -> S]
  PROVE  f \in Seq(S) /\ Len(f) = n
<1>1. f \in Seq(S)
  BY SeqDef
<1> DEFINE a == Len(f)
<1>2. a \in Nat /\ 1 .. a = 1 .. n
  BY <1>1, SeqParts
<1> HIDE DEF a
<1>3. a = n
  <2>1. CASE a < n
    <3>1. n \in 1 .. n /\ n \notin 1 .. a
      BY <1>2, <2>1
    <3> QED  BY <1>2, <3>1
  <2>2. CASE n < a
    <3>1. a \in 1 .. a /\ a \notin 1 .. n
      BY <1>2, <2>2
    <3> QED  BY <1>2, <3>1
  <2> QED  BY <1>2, <2>1, <2>2
<1> QED  BY <1>1, <1>3 DEF a

LEMMA NumbersIs ==
  ASSUME NEW s \in Seq(Batch)
  PROVE  /\ Numbers(s) \in Seq(Nat) /\ Len(Numbers(s)) = Len(s)
         /\ \A i \in 1 .. Len(s) : Numbers(s)[i] = s[i].n
<1>1. Len(s) \in Nat /\ DOMAIN s = 1 .. Len(s) /\ \A i \in 1 .. Len(s) : s[i] \in Batch
  BY SeqParts
<1>2. Numbers(s) \in [1 .. Len(s) -> Nat]
  BY <1>1 DEF Numbers, Batch
<1>3. Numbers(s) \in Seq(Nat) /\ Len(Numbers(s)) = Len(s)
  BY <1>1, <1>2, FunctionIsSeq
<1>4. \A i \in 1 .. Len(s) : Numbers(s)[i] = s[i].n
  BY <1>1 DEF Numbers
<1> QED  BY <1>3, <1>4

(* FillWritePipeline: what is new in the pipeline goes out over a stream     *)
(* that is established.                                                      *)
FillsFrom(p, q, st, net, sent, timer) ==
  /\ Begins(pipeline', q) /\ Len(p) <= Len(pipeline')
  /\ net => Len(pipeline') = MaxPendingWrites \/ Len(pipeline') = Len(q)
  /\ ~net => pipeline' = p
  /\ up' \in Seq(Nat)
  /\ st = "Open" /\ handshake =>
       /\ Len(up') = Len(sent) + (Len(pipeline') - Len(p))
       /\ \A j \in 1 .. Len(sent) : up'[j] = sent[j]
       /\ \A j \in 1 .. Len(pipeline') - Len(p) : up'[Len(sent) + j] = pipeline'[Len(p) + j].n
  /\ ~(st = "Open" /\ handshake) => up' = sent
  /\ idle' <=> \/ timer /\ ~(st = "Open" /\ handshake /\ Len(pipeline') # Len(p))
               \/ net /\ pipeline' = <<>> /\ st = "Open"
  /\ state' = StartIfNeeded(st, pipeline', net)

LEMMA FillStep ==
  ASSUME NEW q \in Seq(Batch), Ordered(q), \A i \in DOMAIN q : 1 <= q[i].id,
         NEW p, Begins(p, q), NEW st, NEW net \in BOOLEAN, NEW sent \in Seq(Nat), NEW timer,
         FillWritePipeline(p, q, st, net, sent, timer)
  PROVE  FillsFrom(p, q, st, net, sent, timer)
<1> DEFINE live == st = "Open" /\ handshake
           new  == SubSeq(pipeline', Len(p) + 1, Len(pipeline'))
<1>1. /\ pipeline' = IF net THEN Filled(p, q) ELSE p
      /\ up' = IF live THEN sent \o Numbers(new) ELSE sent
      /\ idle' = \/ timer /\ ~(live /\ new # <<>>)
                 \/ net /\ pipeline' = <<>> /\ st = "Open"
      /\ state' = StartIfNeeded(st, pipeline', net)
  BY DEF FillWritePipeline
<1>2. /\ Begins(pipeline', q) /\ Len(p) <= Len(pipeline')
      /\ net => Len(pipeline') = MaxPendingWrites \/ Len(pipeline') = Len(q)
      /\ ~net => pipeline' = p
  <2>1. CASE net
    <3>1. pipeline' = Filled(p, q)
      BY <1>1, <2>1
    <3> QED  BY <2>1, <3>1, FilledIs
  <2>2. CASE ~net
    <3>1. pipeline' = p
      BY <1>1, <2>2
    <3>2. Len(p) \in Nat
      BY SeqParts DEF Begins
    <3> QED  BY <2>2, <3>1, <3>2
  <2> QED  BY <2>1, <2>2
<1> DEFINE m == Len(pipeline')
           k == Len(p)
<1>3. /\ pipeline' \in Seq(Batch) /\ p \in Seq(Batch) /\ m \in Nat /\ k \in Nat /\ k <= m
      /\ \A i \in 1 .. m : pipeline'[i] \in Batch
  <2>1. pipeline' \in Seq(Batch) /\ p \in Seq(Batch) /\ k <= m
    BY <1>2 DEF Begins
  <2> QED  BY <2>1, SeqParts
<1>4. /\ new \in Seq(Batch) /\ Len(new) = m - k
      /\ \A j \in 1 .. m - k : new[j] = pipeline'[k + j]
  <2> HIDE DEF m, k
  <2>1. k + 1 \in Int /\ m \in Int /\ \A i \in k + 1 .. m : pipeline'[i] \in Batch
    BY <1>3
  <2>2. /\ SubSeq(pipeline', k + 1, m) \in Seq(Batch)
        /\ Len(SubSeq(pipeline', k + 1, m)) = IF k + 1 <= m THEN m - (k + 1) + 1 ELSE 0
        /\ \A j \in 1 .. m - (k + 1) + 1 : SubSeq(pipeline', k + 1, m)[j] = pipeline'[(k + 1) + j - 1]
    BY <2>1, SubSeqProperties
  <2>3. m - (k + 1) + 1 = m - k /\ (IF k + 1 <= m THEN m - (k + 1) + 1 ELSE 0) = m - k
    BY <1>3
  <2>4. \A j \in 1 .. m - k : (k + 1) + j - 1 = k + j
    BY <1>3
  <2>5. new = SubSeq(pipeline', k + 1, m)
    BY DEF k, m
  <2> HIDE DEF new
  <2> QED  BY <2>2, <2>3, <2>4, <2>5
<1> HIDE DEF new
<1>5. new # <<>> <=> m # k
  <2>1. new # <<>> <=> Len(new) # 0
    BY <1>4, SeqParts
  <2> HIDE DEF m, k
  <2>2. m - k # 0 <=> m # k
    BY <1>3
  <2> QED  BY <1>4, <2>1, <2>2
<1>6. CASE live
  <2>1. up' = sent \o Numbers(new)
    BY <1>1, <1>6
  <2>2. /\ Numbers(new) \in Seq(Nat) /\ Len(Numbers(new)) = m - k
        /\ \A j \in 1 .. m - k : Numbers(new)[j] = pipeline'[k + j].n
    <3>1. /\ Numbers(new) \in Seq(Nat) /\ Len(Numbers(new)) = Len(new)
          /\ \A i \in 1 .. Len(new) : Numbers(new)[i] = new[i].n
      BY <1>4, NumbersIs
    <3> QED  BY <1>4, <3>1
  <2> DEFINE r == Numbers(new)
  <2> HIDE DEF r
  <2>3. r \in Seq(Nat)
    BY <2>2 DEF r
  <2>4. /\ sent \o r \in Seq(Nat)
        /\ Len(sent \o r) = Len(sent) + Len(r)
        /\ \A i \in 1 .. Len(sent) + Len(r) :
             (sent \o r)[i] = IF i <= Len(sent) THEN sent[i] ELSE r[i - Len(sent)]
    BY <2>3, ConcatProperties
  <2>5. Len(sent) \in Nat /\ Len(r) \in Nat
    BY <2>3, SeqParts
  <2>6. \A j \in 1 .. Len(sent) : (sent \o r)[j] = sent[j]
    BY <2>4, <2>5
  <2>7. ASSUME NEW j \in 1 .. Len(r)  PROVE (sent \o r)[Len(sent) + j] = r[j]
    <3>1. /\ Len(sent) + j \in 1 .. Len(sent) + Len(r) /\ ~(Len(sent) + j <= Len(sent))
          /\ (Len(sent) + j) - Len(sent) = j
      BY <2>5
    <3> QED  BY <2>4, <3>1
  <2>8. Len(r) = m - k /\ \A j \in 1 .. m - k : r[j] = pipeline'[k + j].n
    BY <2>2 DEF r
  <2>9. up' = sent \o r
    BY <2>1 DEF r
  <2> HIDE DEF m, k
  <2>10. /\ up' \in Seq(Nat) /\ Len(up') = Len(sent) + (m - k)
         /\ \A j \in 1 .. Len(sent) : up'[j] = sent[j]
         /\ \A j \in 1 .. m - k : up'[Len(sent) + j] = pipeline'[k + j].n
    BY <2>4, <2>6, <2>7, <2>8, <2>9
  <2> QED  BY <1>1, <1>2, <1>5, <1>6, <2>10 DEF FillsFrom, m, k
<1>7. CASE ~live
  BY <1>1, <1>2, <1>5, <1>7 DEF FillsFrom
<1> QED  BY <1>6, <1>7

-----------------------------------------------------------------------------
(* What travels over the stream.                                             *)

LEMMA CarriesParts ==
  ASSUME NEW hs, NEW cl, NEW d, NEW s, NEW p, Carries(hs, cl, d, s, p)
  PROVE  /\ d \in Seq(Answer) /\ Len(d) \in Nat /\ \A i \in 1 .. Len(d) : d[i] \in Answer
         /\ s \in Seq(Nat) /\ Len(s) \in Nat /\ \A i \in 1 .. Len(s) : s[i] \in Nat
<1>1. d \in Seq(Answer) /\ s \in Seq(Nat)
  BY DEF Carries
<1> QED  BY <1>1, SeqParts

(* The first answer is for the first write of the pipeline; both are taken.  *)
LEMMA CarriesTail ==
  ASSUME NEW cl, NEW d, NEW s, NEW p \in Seq(Batch), Carries(TRUE, cl, d, s, p), d # <<>>
  PROVE  /\ p # <<>> /\ Head(d).of = Head(p).n /\ Head(d) \in Answer
         /\ Carries(TRUE, cl, Tail(d), s, Tail(p))
<1>1. /\ d \in Seq(Answer) /\ s \in Seq(Nat) /\ Len(s) \in Nat /\ Len(p) \in Nat
  BY CarriesParts, SeqParts
<1>2. /\ Len(d) <= Len(p)
      /\ \A i \in 1 .. Len(d) : d[i].of = p[i].n
      /\ cl = "none" => /\ Len(d) + Len(s) = Len(p)
                        /\ \A j \in 1 .. Len(s) : s[j] = p[Len(d) + j].n
  BY DEF Carries
<1>3. /\ Tail(d) \in Seq(Answer) /\ Len(d) >= 1 /\ Len(Tail(d)) = Len(d) - 1
      /\ \A i \in 1 .. Len(d) - 1 : i + 1 \in 1 .. Len(d) /\ Tail(d)[i] = d[i + 1]
      /\ Head(d) = d[1] /\ 1 \in DOMAIN d /\ Head(d) \in Answer /\ DOMAIN d = 1 .. Len(d)
      /\ Len(d) \in Nat
  BY <1>1, TailParts, SeqParts
<1>4. p # <<>>
  <2>1. Len(p) # 0
    BY <1>1, <1>2, <1>3
  <2> QED  BY <2>1, SeqParts
<1>5. /\ Tail(p) \in Seq(Batch) /\ Len(Tail(p)) = Len(p) - 1
      /\ \A i \in 1 .. Len(p) - 1 : i + 1 \in 1 .. Len(p) /\ Tail(p)[i] = p[i + 1]
      /\ Head(p) = p[1]
  BY <1>4, TailParts
<1> DEFINE a == Len(d)
           b == Len(p)
           c == Len(s)
<1>6. a \in Nat /\ b \in Nat /\ c \in Nat /\ a >= 1 /\ a <= b /\ (cl = "none" => a + c = b)
  BY <1>1, <1>2, <1>3
<1>7. Len(Tail(d)) <= Len(Tail(p)) /\ (cl = "none" => Len(Tail(d)) + Len(s) = Len(Tail(p)))
  <2>1. Len(Tail(d)) = a - 1 /\ Len(Tail(p)) = b - 1 /\ Len(s) = c
    BY <1>3, <1>5
  <2> HIDE DEF a, b, c
  <2> QED  BY <1>6, <2>1
<1>8. ASSUME NEW i \in 1 .. a - 1  PROVE Tail(d)[i].of = Tail(p)[i].n
  <2>1. i + 1 \in 1 .. a /\ Tail(d)[i] = d[i + 1]
    BY <1>3
  <2>2. i \in 1 .. b - 1
    <3> HIDE DEF a, b, c
    <3> QED  BY <1>6
  <2>3. Tail(p)[i] = p[i + 1]
    BY <1>5, <2>2
  <2> QED  BY <1>2, <2>1, <2>3
<1>9. ASSUME cl = "none", NEW j \in 1 .. c  PROVE s[j] = Tail(p)[(a - 1) + j].n
  <2>1. (a - 1) + j \in 1 .. b - 1 /\ ((a - 1) + j) + 1 = a + j
    <3> HIDE DEF a, b, c
    <3> QED  BY <1>6, <1>9
  <2>2. Tail(p)[(a - 1) + j] = p[a + j]
    BY <1>5, <2>1
  <2> QED  BY <1>2, <1>9, <2>2
<1>10. Head(d).of = Head(p).n
  BY <1>2, <1>3, <1>5
<1>11. /\ \A i \in 1 .. Len(Tail(d)) : Tail(d)[i].of = Tail(p)[i].n
       /\ cl = "none" => \A j \in 1 .. Len(s) : s[j] = Tail(p)[Len(Tail(d)) + j].n
  BY <1>3, <1>8, <1>9
<1> QED  BY <1>1, <1>3, <1>4, <1>7, <1>10, <1>11 DEF Carries

(* What is new in the pipeline goes out behind the rest.                     *)
LEMMA CarriesMore ==
  ASSUME NEW cl, NEW d, NEW s, NEW p \in Seq(Batch), Carries(TRUE, cl, d, s, p),
         NEW t \in Seq(Nat), NEW r \in Seq(Batch), Len(p) <= Len(r),
         \A i \in 1 .. Len(p) : r[i] = p[i],
         Len(t) = Len(s) + (Len(r) - Len(p)),
         \A j \in 1 .. Len(s) : t[j] = s[j],
         \A j \in 1 .. Len(r) - Len(p) : t[Len(s) + j] = r[Len(p) + j].n
  PROVE  Carries(TRUE, cl, d, t, r)
<1> DEFINE a == Len(d)
           b == Len(p)
           c == Len(s)
           e == Len(r)
<1>1. d \in Seq(Answer) /\ a \in Nat /\ c \in Nat /\ b \in Nat /\ e \in Nat /\ b <= e
  BY CarriesParts, SeqParts
<1>2. /\ a <= b
      /\ \A i \in 1 .. a : d[i].of = p[i].n
      /\ cl = "none" => a + c = b
      /\ cl = "none" => \A j \in 1 .. c : s[j] = p[a + j].n
  BY DEF Carries
<1>3. /\ Len(t) = c + (e - b)
      /\ \A i \in 1 .. b : r[i] = p[i]
      /\ \A j \in 1 .. c : t[j] = s[j]
      /\ \A j \in 1 .. e - b : t[c + j] = r[b + j].n
  OBVIOUS
<1> HIDE DEF a, b, c, e
<1>4. \A i \in 1 .. a : d[i].of = r[i].n
  <2>1. \A i \in 1 .. a : i \in 1 .. b
    BY <1>1, <1>2
  <2> QED  BY <1>2, <1>3, <2>1
<1>5. a <= e
  BY <1>1, <1>2
<1>6. cl = "none" => a + Len(t) = e
  <2>1. ASSUME cl = "none"  PROVE a + (c + (e - b)) = e
    BY <1>1, <1>2, <2>1
  <2> QED  BY <1>3, <2>1
<1>7. ASSUME cl = "none", NEW j \in 1 .. c + (e - b)  PROVE t[j] = r[a + j].n
  <2>1. a + c = b
    BY <1>2, <1>7
  <2>2. CASE j \in 1 .. c
    <3>1. a + j \in 1 .. b
      BY <1>1, <2>1, <2>2
    <3>2. t[j] = s[j] /\ s[j] = p[a + j].n /\ r[a + j] = p[a + j]
      BY <1>2, <1>3, <1>7, <2>2, <3>1
    <3> QED  BY <3>2
  <2>3. CASE j \notin 1 .. c
    <3>1. j - c \in 1 .. e - b /\ c + (j - c) = j /\ b + (j - c) = a + j
      BY <1>1, <2>1, <2>3
    <3>2. t[c + (j - c)] = r[b + (j - c)].n
      BY <1>3, <3>1
    <3> QED  BY <3>1, <3>2
  <2> QED  BY <2>2, <2>3
<1>8. cl = "none" => \A j \in 1 .. Len(t) : t[j] = r[a + j].n
  BY <1>3, <1>7
<1> QED  BY <1>1, <1>4, <1>5, <1>6, <1>8 DEF Carries, a, e

(* The handshake's answer lets the pipeline go out.                          *)
LEMMA CarriesFirst ==
  ASSUME NEW cl, NEW d, NEW s, NEW p \in Seq(Batch), Carries(FALSE, cl, d, s, p), d # <<>>
  PROVE  /\ Carries(TRUE, cl, Tail(d), s \o Numbers(p), p)
         /\ Head(d) \in Answer /\ Tail(d) = <<>>
<1>1. d \in Seq(Answer) /\ s \in Seq(Nat) /\ Len(d) \in Nat /\ Len(s) \in Nat /\ Len(p) \in Nat
  BY CarriesParts, SeqParts
<1>2. Len(d) <= 1 /\ (cl = "none" => Len(d) + Len(s) = 1)
  BY DEF Carries
<1>3. /\ Tail(d) \in Seq(Answer) /\ Len(d) >= 1 /\ Len(Tail(d)) = Len(d) - 1 /\ Head(d) \in Answer
  BY <1>1, TailParts
<1>4. Len(Tail(d)) = 0
  <2>1. Len(d) - 1 = 0
    BY <1>1, <1>2, <1>3
  <2> QED  BY <1>3, <2>1
<1>5. Tail(d) = <<>>
  BY <1>3, <1>4, SeqParts
<1>6. /\ Numbers(p) \in Seq(Nat) /\ Len(Numbers(p)) = Len(p)
      /\ \A i \in 1 .. Len(p) : Numbers(p)[i] = p[i].n
  BY NumbersIs
<1>7. s \o Numbers(p) \in Seq(Nat)
  BY <1>1, <1>6, ConcatProperties
<1>8. cl = "none" => s \o Numbers(p) = Numbers(p)
  <2>1. ASSUME cl = "none"  PROVE s = <<>>
    <3>1. Len(s) = 0
      BY <1>1, <1>2, <1>3, <2>1
    <3> QED  BY <1>1, <3>1, SeqParts
  <2>2. <<>> \o Numbers(p) = Numbers(p)
    BY <1>6, ConcatEmptySeq
  <2> QED  BY <2>1, <2>2
<1>9. /\ 0 <= Len(p) /\ 0 + Len(p) = Len(p)
      /\ \A j \in 1 .. Len(p) : 0 + j = j
      /\ 1 .. 0 = {}
  BY <1>1
<1>10. cl = "none" => /\ Len(Tail(d)) + Len(s \o Numbers(p)) = Len(p)
                      /\ \A j \in 1 .. Len(s \o Numbers(p)) :
                           (s \o Numbers(p))[j] = p[Len(Tail(d)) + j].n
  BY <1>4, <1>6, <1>8, <1>9
<1>11. /\ Len(Tail(d)) <= Len(p)
       /\ \A i \in 1 .. Len(Tail(d)) : Tail(d)[i].of = p[i].n
  BY <1>4, <1>9
<1> QED  BY <1>3, <1>5, <1>7, <1>10, <1>11 DEF Carries

(* The server answers the first request.                                     *)
LEMMA CarriesMoved ==
  ASSUME NEW hs \in BOOLEAN, NEW d, NEW s, NEW p \in Seq(Batch), Carries(hs, "none", d, s, p),
         s # <<>>, NEW t \in Tokens
  PROVE  /\ Carries(hs, "none", Append(d, [of |-> Head(s), token |-> t]), Tail(s), p)
         /\ Head(s) \in Nat
         /\ hs => Len(d) + 1 <= Len(p) /\ Head(s) = p[Len(d) + 1].n
         /\ ~hs => Head(s) = 0
<1> DEFINE a == Len(d)
           b == Len(p)
           c == Len(s)
           x == [of |-> Head(s), token |-> t]
           e == Append(d, x)
           r == Tail(s)
<1>1. /\ d \in Seq(Answer) /\ s \in Seq(Nat) /\ a \in Nat /\ c \in Nat /\ b \in Nat
  BY CarriesParts, SeqParts
<1>2. /\ r \in Seq(Nat) /\ c >= 1 /\ Len(r) = c - 1
      /\ \A i \in 1 .. c - 1 : i + 1 \in 1 .. c /\ r[i] = s[i + 1]
      /\ Head(s) = s[1] /\ 1 \in 1 .. c /\ Head(s) \in Nat
  BY <1>1, TailParts, SeqParts
<1>3. x \in Answer
  BY <1>2 DEF Answer
<1>4. /\ e \in Seq(Answer) /\ Len(e) = a + 1
      /\ \A i \in 1 .. a : e[i] = d[i]
      /\ e[a + 1] = x
      /\ \A i \in 1 .. a + 1 : i \in 1 .. a \/ i = a + 1
  BY <1>1, <1>3, AppendParts
<1>5. x.of = s[1]
  BY <1>2
<1>6. /\ hs => /\ a + c = b
               /\ \A i \in 1 .. a : d[i].of = p[i].n
               /\ \A j \in 1 .. c : s[j] = p[a + j].n
      /\ ~hs => /\ a + c = 1
                /\ \A i \in 1 .. a : d[i].of = 0
                /\ \A j \in 1 .. c : s[j] = 0
  BY DEF Carries
<1> HIDE DEF a, b, c, x, e, r
<1>7. ASSUME hs
      PROVE  /\ a + 1 <= b /\ s[1] = p[a + 1].n
             /\ \A i \in 1 .. a + 1 : e[i].of = p[i].n
             /\ (a + 1) + (c - 1) = b
             /\ \A j \in 1 .. c - 1 : r[j] = p[(a + 1) + j].n
  <2>1. a + 1 <= b /\ (a + 1) + (c - 1) = b
    BY <1>1, <1>2, <1>6, <1>7
  <2>2. s[1] = p[a + 1].n
    BY <1>2, <1>6, <1>7
  <2>3. \A i \in 1 .. a + 1 : e[i].of = p[i].n
    BY <1>4, <1>5, <1>6, <1>7, <2>2
  <2>4. ASSUME NEW j \in 1 .. c - 1  PROVE r[j] = p[(a + 1) + j].n
    <3>1. a + (j + 1) = (a + 1) + j
      BY <1>1
    <3>2. j + 1 \in 1 .. c /\ r[j] = s[j + 1]
      BY <1>2
    <3>3. s[j + 1] = p[a + (j + 1)].n
      BY <1>6, <1>7, <3>2
    <3> QED  BY <3>1, <3>2, <3>3
  <2> QED  BY <2>1, <2>2, <2>3, <2>4
<1>8. ASSUME ~hs
      PROVE  /\ s[1] = 0 /\ a + 1 <= 1
             /\ \A i \in 1 .. a + 1 : e[i].of = 0
             /\ (a + 1) + (c - 1) = 1
             /\ \A j \in 1 .. c - 1 : r[j] = 0
  <2>1. a + 1 <= 1 /\ (a + 1) + (c - 1) = 1
    BY <1>1, <1>2, <1>6, <1>8
  <2>2. s[1] = 0
    BY <1>2, <1>6, <1>8
  <2>3. \A i \in 1 .. a + 1 : e[i].of = 0
    BY <1>4, <1>5, <1>6, <1>8, <2>2
  <2>4. \A j \in 1 .. c - 1 : r[j] = 0
    BY <1>2, <1>6, <1>8
  <2> QED  BY <2>1, <2>2, <2>3, <2>4
<1>9. Carries(hs, "none", e, r, p)
  BY <1>2, <1>4, <1>7, <1>8 DEF Carries, b
<1> QED  BY <1>2, <1>7, <1>8, <1>9 DEF e, r, x, a, b

-----------------------------------------------------------------------------
(* The queues: they stay, a write joins one, or its first write is settled.  *)

LEMMA QueueParts ==
  ASSUME Disk, NEW u \in Users
  PROVE  /\ queue[u] \in Seq(Batch) /\ Ordered(queue[u])
         /\ Len(queue[u]) \in Nat /\ DOMAIN queue[u] = 1 .. Len(queue[u])
         /\ \A i \in 1 .. Len(queue[u]) :
              /\ queue[u][i] \in Batch /\ queue[u][i].id \in Nat /\ queue[u][i].n \in Nat
              /\ 1 <= queue[u][i].id /\ queue[u][i].id < nextId
              /\ 1 <= queue[u][i].n /\ queue[u][i].n <= written
<1>1. queue[u] \in Seq(Batch) /\ Ordered(queue[u])
  BY DEF Disk
<1>2. Len(queue[u]) \in Nat /\ DOMAIN queue[u] = 1 .. Len(queue[u])
      /\ \A i \in 1 .. Len(queue[u]) : queue[u][i] \in Batch
  BY <1>1, SeqParts
<1> QED  BY <1>1, <1>2 DEF Disk, Batch

LEMMA Apart ==
  ASSUME Disk, NEW u \in Users, NEW v \in Users, u # v,
         NEW i \in DOMAIN queue[u], NEW j \in DOMAIN queue[v]
  PROVE  queue[u][i].id # queue[v][j].id
<1>1. \A a, b \in Users : a # b =>
        \A x \in DOMAIN queue[a], y \in DOMAIN queue[b] : queue[a][x].id # queue[b][y].id
  BY Zenon DEF Disk
<1> QED  BY <1>1, Zenon

LEMMA NextIdIs ==
  ASSUME Disk
  PROVE  /\ NextIdFromDb(queue) \in Nat \ {0}
         /\ \A u \in Users : \A i \in DOMAIN queue[u] : queue[u][i].id < NextIdFromDb(queue)
<1> DEFINE S == UNION {IdsOf(queue[u]) : u \in Users}
<1>1. nextId \in Nat
  BY DEF Disk
<1>2. \A u \in Users : \A i \in DOMAIN queue[u] : queue[u][i].id \in 0 .. nextId
  BY <1>1, QueueParts
<1>3. S \subseteq 0 .. nextId
  BY <1>2 DEF IdsOf
<1>4. \A u \in Users : \A i \in DOMAIN queue[u] : queue[u][i].id \in S
  BY DEF IdsOf
<1> HIDE DEF S
<1>5. Newest(S) \in Nat /\ \A y \in S : y <= Newest(S)
  BY <1>1, <1>3, NewestIs
<1>6. NextIdFromDb(queue) = Newest(S) + 1
  BY DEF NextIdFromDb, S
<1> DEFINE m == Newest(S)
<1> HIDE DEF m
<1>7. m \in Nat /\ (\A y \in S : y <= m) /\ NextIdFromDb(queue) = m + 1
  BY <1>5, <1>6 DEF m
<1>8. \A y \in S : y \in Nat
  BY <1>1, <1>3
<1>9. \A y \in S : y < m + 1
  BY <1>7, <1>8
<1> QED  BY <1>4, <1>7, <1>9

LEMMA DiskStays ==
  ASSUME Disk, user' \in Users, queue' = queue, written' = written, faults' \in Nat,
         nextId' = nextId \/ nextId' = NextIdFromDb(queue)
  PROVE  Disk'
<1>1. /\ nextId' \in Nat \ {0}
      /\ \A u \in Users : \A i \in DOMAIN queue[u] : queue[u][i].id < nextId'
  BY NextIdIs DEF Disk
<1> QED  BY <1>1 DEF Disk

LEMMA PastStays ==
  ASSUME Past, queue' = queue, written' = written, applied' = applied, latest' = latest,
         confirmed' = confirmed, refused' = refused
  PROVE  Past'
BY DEF Past

LEMMA ToldStays ==
  ASSUME Told, user' = user, queue' = queue, callbacks' = callbacks, waiting' = waiting,
         confirmed' = confirmed, refused' = refused
  PROVE  Told'
BY DEF Told

(* Write's part in it.                                                       *)
NewBatch == [id |-> nextId, n |-> written + 1]

Joins ==
  /\ queue' = [queue EXCEPT ![user] = AddBatch(@, NewBatch)]
  /\ nextId' = nextId + 1 /\ written' = written + 1
  /\ callbacks' = [callbacks EXCEPT ![user] =
                     IF \E c \in @ : c.id = NewBatch.id THEN @ ELSE @ \cup {NewBatch}]
  /\ user' = user /\ faults' = faults /\ waiting' = waiting /\ confirmed' = confirmed
  /\ refused' = refused /\ applied' = applied /\ latest' = latest

LEMMA QueueJoined ==
  ASSUME Disk, Joins
  PROVE  /\ NewBatch \in Batch /\ NewBatch.id = nextId /\ NewBatch.n = written + 1
         /\ queue' \in [Users -> Seq(Batch)]
         /\ queue'[user] = Append(queue[user], NewBatch)
         /\ \A u \in Users : u # user => queue'[u] = queue[u]
<1>1. /\ user \in Users /\ queue \in [Users -> Seq(Batch)]
      /\ nextId \in Nat /\ written \in Nat
  BY DEF Disk
<1>2. NewBatch \in Batch /\ NewBatch.id = nextId /\ NewBatch.n = written + 1
  BY <1>1 DEF NewBatch, Batch
<1>3. \A i \in DOMAIN queue[user] : queue[user][i].id < NewBatch.id
  BY <1>1, <1>2, QueueParts
<1>4. AddBatch(queue[user], NewBatch) = Append(queue[user], NewBatch)
  BY <1>1, <1>2, <1>3, AddBatchIs
<1>5. Append(queue[user], NewBatch) \in Seq(Batch)
  BY <1>1, <1>2, AppendParts
<1> QED  BY <1>1, <1>2, <1>4, <1>5 DEF Joins

LEMMA DiskJoined ==
  ASSUME Disk, Joins
  PROVE  Disk'
<1>1. /\ user \in Users /\ queue \in [Users -> Seq(Batch)] /\ faults \in Nat
      /\ nextId \in Nat \ {0} /\ written \in Nat
      /\ user' = user /\ nextId' = nextId + 1 /\ written' = written + 1 /\ faults' = faults
  BY DEF Disk, Joins
<1>2. /\ NewBatch \in Batch /\ NewBatch.id = nextId /\ NewBatch.n = written + 1
      /\ queue' \in [Users -> Seq(Batch)]
      /\ queue'[user] = Append(queue[user], NewBatch)
      /\ \A u \in Users : u # user => queue'[u] = queue[u]
  BY QueueJoined
<1> DEFINE q == queue[user]
           r == queue'[user]
           m == Len(q)
<1>3. /\ m \in Nat /\ DOMAIN q = 1 .. m /\ Ordered(q)
      /\ \A i \in 1 .. m : /\ q[i].id \in Nat /\ q[i].n \in Nat
                           /\ 1 <= q[i].id /\ q[i].id < nextId
                           /\ 1 <= q[i].n /\ q[i].n <= written
  BY <1>1, QueueParts
<1>4. /\ DOMAIN r = 1 .. m + 1
      /\ \A i \in 1 .. m : r[i] = q[i]
      /\ r[m + 1].id = nextId /\ r[m + 1].n = written + 1
      /\ \A i \in 1 .. m + 1 : i \in 1 .. m \/ i = m + 1
  <2>1. q \in Seq(Batch)
    BY <1>1
  <2> QED  BY <1>2, <2>1, AppendParts
<1>5. /\ nextId' \in Nat \ {0} /\ written' \in Nat
      /\ \A x \in Nat : x < nextId => x < nextId'
      /\ \A x \in Nat : x <= written => x <= written'
      /\ nextId < nextId' /\ 1 <= nextId /\ 1 <= written + 1
  BY <1>1
<1> HIDE DEF q, r, m
<1>6. Ordered(r)
  <2>1. ASSUME NEW i \in 1 .. m + 1, NEW j \in 1 .. m + 1, i < j
        PROVE  r[i].id < r[j].id /\ r[i].n < r[j].n
    <3>1. i \in 1 .. m
      BY <1>3, <2>1
    <3>2. CASE j \in 1 .. m
      <4>1. q[i].id < q[j].id /\ q[i].n < q[j].n
        BY <1>3, <2>1, <3>1, <3>2 DEF Ordered
      <4> QED  BY <1>4, <3>1, <3>2, <4>1
    <3>3. CASE j = m + 1
      <4>1. q[i].id < nextId /\ q[i].n \in Nat /\ q[i].n <= written
        BY <1>3, <3>1
      <4>2. q[i].n < written + 1
        BY <1>1, <4>1
      <4> QED  BY <1>4, <3>1, <3>3, <4>1, <4>2
    <3> QED  BY <1>4, <3>2, <3>3
  <2> QED  BY <1>4, <2>1 DEF Ordered
<1>7. \A i \in DOMAIN r : /\ 1 <= r[i].id /\ r[i].id < nextId'
                          /\ 1 <= r[i].n /\ r[i].n <= written'
  <2>1. ASSUME NEW i \in 1 .. m
        PROVE  /\ 1 <= r[i].id /\ r[i].id < nextId'
               /\ 1 <= r[i].n /\ r[i].n <= written'
    BY <1>3, <1>4, <1>5
  <2>2. /\ 1 <= r[m + 1].id /\ r[m + 1].id < nextId'
        /\ 1 <= r[m + 1].n /\ r[m + 1].n <= written'
    BY <1>1, <1>4, <1>5
  <2> QED  BY <1>4, <2>1, <2>2
<1>8. ASSUME NEW u \in Users, NEW i \in DOMAIN queue'[u]
      PROVE  /\ 1 <= queue'[u][i].id /\ queue'[u][i].id < nextId'
             /\ 1 <= queue'[u][i].n /\ queue'[u][i].n <= written'
  <2>1. CASE u = user
    BY <1>7, <2>1 DEF r
  <2>2. CASE u # user
    <3>1. queue'[u] = queue[u]
      BY <1>2, <2>2
    <3>2. i \in 1 .. Len(queue[u])
      BY <3>1, QueueParts
    <3> QED  BY <1>5, <3>1, <3>2, QueueParts
  <2> QED  BY <2>1, <2>2
<1>9. \A u \in Users : Ordered(queue'[u])
  BY <1>2, <1>6, QueueParts DEF r
<1>10. ASSUME NEW v \in Users, v # user, NEW i \in DOMAIN r, NEW j \in DOMAIN queue[v]
       PROVE  r[i].id # queue[v][j].id
  <2>1. queue[v][j].id \in Nat /\ queue[v][j].id < nextId
    BY QueueParts
  <2>2. CASE i \in 1 .. m
    <3>1. r[i] = q[i] /\ i \in DOMAIN queue[user]
      BY <1>3, <1>4, <2>2 DEF q
    <3>2. queue[user][i].id # queue[v][j].id
      BY <1>1, <1>10, <3>1, Apart
    <3> QED  BY <3>1, <3>2 DEF q
  <2>3. CASE i = m + 1
    BY <1>1, <1>4, <2>1, <2>3
  <2> QED  BY <1>4, <2>2, <2>3
<1>11. ASSUME NEW u \in Users, NEW v \in Users, u # v,
              NEW i \in DOMAIN queue'[u], NEW j \in DOMAIN queue'[v]
       PROVE  queue'[u][i].id # queue'[v][j].id
  <2>1. CASE u = user
    <3>1. queue'[v] = queue[v] /\ v # user
      BY <1>2, <1>11, <2>1
    <3>2. i \in DOMAIN r /\ j \in DOMAIN queue[v]
      BY <2>1, <3>1 DEF r
    <3>3. r[i].id # queue[v][j].id
      BY <1>10, <3>1, <3>2
    <3> QED  BY <2>1, <3>1, <3>3 DEF r
  <2>2. CASE v = user
    <3>1. queue'[u] = queue[u] /\ u # user
      BY <1>2, <1>11, <2>2
    <3>2. j \in DOMAIN r /\ i \in DOMAIN queue[u]
      BY <2>2, <3>1 DEF r
    <3>3. r[j].id # queue[u][i].id
      BY <1>10, <3>1, <3>2
    <3> QED  BY <2>2, <3>1, <3>3 DEF r
  <2>3. CASE u # user /\ v # user
    <3>1. queue'[u] = queue[u] /\ queue'[v] = queue[v]
      BY <1>2, <2>3
    <3>2. i \in DOMAIN queue[u] /\ j \in DOMAIN queue[v]
      BY <3>1, Zenon
    <3>3. queue[u][i].id # queue[v][j].id
      BY <1>11, <3>2, Apart
    <3> QED  BY <3>1, <3>3, Zenon
  <2> QED  BY <2>1, <2>2, <2>3
<1> QED  BY <1>1, <1>2, <1>5, <1>8, <1>9, <1>11 DEF Disk

LEMMA PastJoined ==
  ASSUME Disk, Past, Joins
  PROVE  Past'
<1>1. /\ written' = written + 1 /\ written \in Nat /\ user \in Users
      /\ confirmed' = confirmed /\ refused' = refused /\ applied' = applied /\ latest' = latest
  BY DEF Disk, Joins
<1>2. /\ NewBatch \in Batch /\ NewBatch.n = written + 1
      /\ queue'[user] = Append(queue[user], NewBatch)
      /\ \A u \in Users : u # user => queue'[u] = queue[u]
  BY QueueJoined
<1>3. ASSUME NEW u \in Users, NEW n \in confirmed[u] \cup refused[u]
      PROVE  n <= written' /\ \A i \in DOMAIN queue'[u] : n < queue'[u][i].n
  <2>1. n \in Nat /\ n <= written /\ \A i \in DOMAIN queue[u] : n < queue[u][i].n
    BY DEF Past
  <2>2. n <= written + 1 /\ n < written + 1
    BY <1>1, <2>1
  <2>3. CASE u = user
    <3>1. /\ DOMAIN queue'[u] = 1 .. Len(queue[u]) + 1
          /\ \A i \in 1 .. Len(queue[u]) : queue'[u][i] = queue[u][i]
          /\ queue'[u][Len(queue[u]) + 1] = NewBatch
          /\ \A i \in 1 .. Len(queue[u]) + 1 : i \in 1 .. Len(queue[u]) \/ i = Len(queue[u]) + 1
          /\ DOMAIN queue[u] = 1 .. Len(queue[u])
      <4>1. queue[user] \in Seq(Batch) /\ DOMAIN queue[user] = 1 .. Len(queue[user])
        BY <1>1, QueueParts
      <4> QED  BY <1>2, <2>3, <4>1, AppendParts
    <3> QED  BY <1>1, <1>2, <2>1, <2>2, <3>1
  <2>4. CASE u # user
    BY <1>1, <1>2, <2>1, <2>2, <2>4
  <2> QED  BY <2>3, <2>4
<1> QED  BY <1>1, <1>3 DEF Past

LEMMA ToldJoined ==
  ASSUME Disk, Told, Joins
  PROVE  Told'
<1>1. /\ user \in Users /\ user' = user /\ waiting' = waiting
      /\ confirmed' = confirmed /\ refused' = refused
      /\ callbacks \in [Users -> SUBSET Batch]
      /\ \A u \in Users : \A c \in callbacks[u] : \E i \in DOMAIN queue[u] : queue[u][i] = c
  BY DEF Disk, Told, Joins
<1>2. /\ NewBatch \in Batch
      /\ queue'[user] = Append(queue[user], NewBatch)
      /\ \A u \in Users : u # user => queue'[u] = queue[u]
  BY QueueJoined
<1>3. /\ DOMAIN queue'[user] = 1 .. Len(queue[user]) + 1
      /\ \A i \in 1 .. Len(queue[user]) :
           i \in 1 .. Len(queue[user]) + 1 /\ queue'[user][i] = queue[user][i]
      /\ Len(queue[user]) + 1 \in 1 .. Len(queue[user]) + 1
      /\ queue'[user][Len(queue[user]) + 1] = NewBatch
      /\ DOMAIN queue[user] = 1 .. Len(queue[user])
  <2>1. queue[user] \in Seq(Batch) /\ DOMAIN queue[user] = 1 .. Len(queue[user])
        /\ Len(queue[user]) \in Nat
    BY <1>1, QueueParts
  <2>2. /\ DOMAIN queue'[user] = 1 .. Len(queue[user]) + 1
        /\ \A i \in 1 .. Len(queue[user]) : queue'[user][i] = queue[user][i]
        /\ queue'[user][Len(queue[user]) + 1] = NewBatch
    BY <1>2, <2>1, AppendParts
  <2>3. /\ \A i \in 1 .. Len(queue[user]) : i \in 1 .. Len(queue[user]) + 1
        /\ Len(queue[user]) + 1 \in 1 .. Len(queue[user]) + 1
    BY <2>1
  <2> QED  BY <2>1, <2>2, <2>3
<1>4. ASSUME NEW i \in DOMAIN queue[user]
      PROVE  i \in DOMAIN queue'[user] /\ queue'[user][i] = queue[user][i]
  BY <1>3
<1>5. /\ callbacks' \in [Users -> SUBSET Batch]
      /\ \A u \in Users : u # user => callbacks'[u] = callbacks[u]
      /\ callbacks'[user] \subseteq callbacks[user] \cup {NewBatch}
  <2>1. callbacks' = [callbacks EXCEPT ![user] =
                     IF \E c \in @ : c.id = NewBatch.id THEN @ ELSE @ \cup {NewBatch}]
    BY DEF Joins
  <2> QED  BY <1>1, <1>2, <2>1
<1>6. \A u \in Users : \A c \in callbacks'[u] : \E i \in DOMAIN queue'[u] : queue'[u][i] = c
  BY <1>1, <1>2, <1>3, <1>4, <1>5
<1>7. ASSUME NEW w \in waiting, NEW n \in w.due
      PROVE  \/ n \in confirmed[user] \cup refused[user]
             \/ \E i \in DOMAIN queue'[user] : queue'[user][i].n = n /\ queue'[user][i].id <= w.id
  BY <1>4 DEF Told
<1>8. waiting \subseteq [id : Nat, due : SUBSET Nat]
  BY DEF Told
<1>9. ASSUME NEW w \in waiting
      PROVE  \E i \in DOMAIN queue'[user] : queue'[user][i].id = w.id /\ queue'[user][i].n \in w.due
  BY <1>4 DEF Told
<1> QED  BY <1>1, <1>5, <1>6, <1>7, <1>8, <1>9 DEF Told

(* The part in it of an answer and of a refusal.                             *)
FirstSettled(b) ==
  /\ queue[user] # <<>> /\ b = Head(queue[user])
  /\ queue' = [queue EXCEPT ![user] = RemoveBatch(@, b.id)]
  /\ TellApp(b.id)
  /\ \/ /\ confirmed' = [confirmed EXCEPT ![user] = @ \cup {b.n}]
        /\ refused' = refused /\ b.n <= latest[user]
     \/ /\ refused' = [refused EXCEPT ![user] = @ \cup {b.n}]
        /\ confirmed' = confirmed
  /\ user' = user /\ nextId' = nextId /\ written' = written /\ faults' \in Nat
  /\ applied' = applied /\ latest' = latest

LEMMA QueueSettled ==
  ASSUME Disk, NEW b, FirstSettled(b)
  PROVE  /\ b \in Batch /\ b = queue[user][1] /\ 1 \in DOMAIN queue[user]
         /\ queue' \in [Users -> Seq(Batch)]
         /\ queue'[user] = Tail(queue[user])
         /\ DOMAIN queue'[user] = 1 .. Len(queue[user]) - 1
         /\ Len(queue'[user]) = Len(queue[user]) - 1
         /\ \A i \in DOMAIN queue'[user] :
              i + 1 \in DOMAIN queue[user] /\ 1 < i + 1 /\ queue'[user][i] = queue[user][i + 1]
         /\ \A i \in DOMAIN queue[user] :
              i = 1 \/ (i - 1 \in DOMAIN queue'[user] /\ queue'[user][i - 1] = queue[user][i])
         /\ \A u \in Users : u # user => queue'[u] = queue[u]
<1>1. /\ user \in Users /\ queue \in [Users -> Seq(Batch)] /\ queue[user] # <<>>
      /\ b = Head(queue[user])
      /\ queue' = [queue EXCEPT ![user] = RemoveBatch(@, b.id)]
  BY DEF Disk, FirstSettled
<1>2. queue[user] \in Seq(Batch) /\ Ordered(queue[user]) /\ Len(queue[user]) \in Nat
      /\ DOMAIN queue[user] = 1 .. Len(queue[user])
  BY <1>1, QueueParts
<1> DEFINE q == queue[user]
           m == Len(q)
<1>3. /\ Tail(q) \in Seq(Batch) /\ m >= 1 /\ Len(Tail(q)) = m - 1
      /\ DOMAIN Tail(q) = 1 .. m - 1
      /\ \A i \in 1 .. m - 1 : i + 1 \in 1 .. m /\ Tail(q)[i] = q[i + 1]
      /\ Head(q) = q[1] /\ 1 \in DOMAIN q /\ Head(q) \in Batch
  BY <1>1, <1>2, TailParts
<1>4. RemoveBatch(q, b.id) = Tail(q)
  BY <1>1, <1>2, <1>3, RemoveBatchIs
<1>5. /\ queue' \in [Users -> Seq(Batch)] /\ queue'[user] = Tail(q)
      /\ \A u \in Users : u # user => queue'[u] = queue[u]
  BY <1>1, <1>3, <1>4
<1>6. \A i \in 1 .. m - 1 : 1 < i + 1
  OBVIOUS
<1>7. m \in Nat
  BY <1>2
<1>8. ASSUME NEW i \in 1 .. m, i # 1
      PROVE  i - 1 \in 1 .. m - 1 /\ Tail(q)[i - 1] = q[i]
  <2> HIDE DEF m, q
  <2>1. i - 1 \in 1 .. m - 1 /\ (i - 1) + 1 = i
    BY <1>8, <1>7
  <2>2. Tail(q)[i - 1] = q[(i - 1) + 1]
    BY <1>3, <2>1
  <2> QED  BY <2>1, <2>2
<1>9. \A i \in 1 .. m : i = 1 \/ (i - 1 \in 1 .. m - 1 /\ Tail(q)[i - 1] = q[i])
  BY <1>8
<1>10. DOMAIN q = 1 .. m /\ DOMAIN queue'[user] = 1 .. m - 1
  BY <1>2, <1>3, <1>5
<1>11. b \in Batch /\ b = q[1] /\ 1 \in DOMAIN q
  BY <1>1, <1>3
<1> QED  BY <1>3, <1>5, <1>6, <1>9, <1>10, <1>11, Zenon

LEMMA DiskSettled ==
  ASSUME Disk, NEW b, FirstSettled(b)
  PROVE  Disk'
<1>1. /\ user \in Users /\ nextId \in Nat \ {0} /\ written \in Nat
      /\ user' = user /\ nextId' = nextId /\ written' = written /\ faults' \in Nat
  BY DEF Disk, FirstSettled
<1>2. /\ queue' \in [Users -> Seq(Batch)]
      /\ \A i \in DOMAIN queue'[user] :
              i + 1 \in DOMAIN queue[user] /\ 1 < i + 1 /\ queue'[user][i] = queue[user][i + 1]
      /\ \A u \in Users : u # user => queue'[u] = queue[u]
      /\ DOMAIN queue'[user] = 1 .. Len(queue[user]) - 1
  BY QueueSettled, Zenon
(* Every batch that is left was there, and in the same order.                *)
<1>3. ASSUME NEW u \in Users, NEW i \in DOMAIN queue'[u]
      PROVE  \E x \in DOMAIN queue[u] : queue'[u][i] = queue[u][x]
  <2>1. CASE u = user
    BY <1>2, <2>1
  <2>2. CASE u # user
    BY <1>2, <2>2, Zenon
  <2> QED  BY <2>1, <2>2
<1>4. ASSUME NEW u \in Users  PROVE Ordered(queue'[u])
  <2>1. CASE u = user
    <3>1. ASSUME NEW i \in DOMAIN queue'[user], NEW j \in DOMAIN queue'[user], i < j
          PROVE  queue'[user][i].id < queue'[user][j].id /\ queue'[user][i].n < queue'[user][j].n
      <4>1. i + 1 < j + 1
        BY <1>2, <3>1
      <4>2. Ordered(queue[user])
        BY <1>1, QueueParts
      <4> QED  BY <1>2, <4>1, <4>2 DEF Ordered
    <3> QED  BY <2>1, <3>1 DEF Ordered
  <2>2. CASE u # user
    <3>1. queue'[u] = queue[u] /\ Ordered(queue[u])
      BY <1>2, <2>2, QueueParts
    <3> QED  BY <3>1
  <2> QED  BY <2>1, <2>2
<1>5. ASSUME NEW u \in Users, NEW i \in DOMAIN queue'[u]
      PROVE  /\ 1 <= queue'[u][i].id /\ queue'[u][i].id < nextId
             /\ 1 <= queue'[u][i].n /\ queue'[u][i].n <= written
  <2>1. PICK x \in DOMAIN queue[u] : queue'[u][i] = queue[u][x]
    BY <1>3
  <2>2. x \in 1 .. Len(queue[u])
    BY <2>1, QueueParts
  <2>3. /\ 1 <= queue[u][x].id /\ queue[u][x].id < nextId
        /\ 1 <= queue[u][x].n /\ queue[u][x].n <= written
    BY <2>2, QueueParts
  <2> QED  BY <2>1, <2>3
<1>6. ASSUME NEW u \in Users, NEW v \in Users, u # v,
              NEW i \in DOMAIN queue'[u], NEW j \in DOMAIN queue'[v]
      PROVE  queue'[u][i].id # queue'[v][j].id
  <2>1. PICK x \in DOMAIN queue[u] : queue'[u][i] = queue[u][x]
    BY <1>3
  <2>2. PICK y \in DOMAIN queue[v] : queue'[v][j] = queue[v][y]
    BY <1>3
  <2>3. queue[u][x].id # queue[v][y].id
    BY <1>6, Apart
  <2> QED  BY <2>1, <2>2, <2>3
<1> QED  BY <1>1, <1>2, <1>4, <1>5, <1>6 DEF Disk

LEMMA PastSettled ==
  ASSUME Disk, Past, NEW b, FirstSettled(b)
  PROVE  Past'
<1>1. /\ user \in Users /\ written' = written /\ applied' = applied /\ latest' = latest
      /\ \/ /\ confirmed' = [confirmed EXCEPT ![user] = @ \cup {b.n}]
            /\ refused' = refused /\ b.n <= latest[user]
         \/ /\ refused' = [refused EXCEPT ![user] = @ \cup {b.n}]
            /\ confirmed' = confirmed
  BY DEF Disk, FirstSettled
<1>2. /\ b \in Batch /\ b = queue[user][1] /\ 1 \in DOMAIN queue[user]
      /\ \A i \in DOMAIN queue'[user] :
              i + 1 \in DOMAIN queue[user] /\ 1 < i + 1 /\ queue'[user][i] = queue[user][i + 1]
      /\ \A u \in Users : u # user => queue'[u] = queue[u]
  BY QueueSettled, Zenon
<1>3. /\ applied \in [Users -> SUBSET Nat] /\ latest \in [Users -> Nat]
      /\ confirmed \in [Users -> SUBSET Nat] /\ refused \in [Users -> SUBSET Nat]
      /\ \A u \in Users : \A n \in confirmed[u] : n <= latest[u]
  BY DEF Past
<1>4. b.n \in Nat /\ b.n <= written /\ \A i \in DOMAIN queue'[user] : b.n < queue'[user][i].n
  <2>1. b.n \in Nat /\ b.n <= written
    <3>1. queue[user][1].n \in Nat /\ queue[user][1].n <= written
      <4>1. 1 \in 1 .. Len(queue[user])
        BY <1>1, <1>2, QueueParts
      <4> QED  BY <1>1, <4>1, QueueParts
    <3> QED  BY <1>2, <3>1
  <2>2. Ordered(queue[user])
    BY <1>1, QueueParts
  <2>3. ASSUME NEW i \in DOMAIN queue'[user]  PROVE b.n < queue'[user][i].n
    BY <1>2, <2>2 DEF Ordered
  <2> QED  BY <2>1, <2>3
<1>5. ASSUME NEW u \in Users, NEW n \in confirmed[u] \cup refused[u]
      PROVE  n <= written /\ \A i \in DOMAIN queue'[u] : n < queue'[u][i].n
  <2>1. n <= written /\ \A i \in DOMAIN queue[u] : n < queue[u][i].n
    BY DEF Past
  <2>2. CASE u = user
    BY <1>2, <2>1, <2>2
  <2>3. CASE u # user
    BY <1>2, <2>1, <2>3
  <2> QED  BY <2>1, <2>2, <2>3
<1>6. /\ confirmed' \in [Users -> SUBSET Nat] /\ refused' \in [Users -> SUBSET Nat]
      /\ \A u \in Users : \A n \in confirmed'[u] \cup refused'[u] :
           n \in confirmed[u] \cup refused[u] \/ (u = user /\ n = b.n)
      /\ \A u \in Users : \A n \in confirmed'[u] :
           n \in confirmed[u] \/ (u = user /\ n = b.n /\ b.n <= latest[user])
  <2>1. CASE /\ confirmed' = [confirmed EXCEPT ![user] = @ \cup {b.n}]
             /\ refused' = refused /\ b.n <= latest[user]
    BY <1>1, <1>3, <1>4, <2>1
  <2>2. CASE /\ refused' = [refused EXCEPT ![user] = @ \cup {b.n}]
             /\ confirmed' = confirmed
    BY <1>1, <1>3, <1>4, <2>2
  <2> QED  BY <1>1, <2>1, <2>2
<1>7. /\ \A u \in Users : \A n \in confirmed'[u] \cup refused'[u] :
           n <= written /\ \A i \in DOMAIN queue'[u] : n < queue'[u][i].n
      /\ \A u \in Users : \A n \in confirmed'[u] : n <= latest[u]
  BY <1>3, <1>4, <1>5, <1>6, Zenon
<1> QED  BY <1>1, <1>3, <1>6, <1>7 DEF Past

LEMMA ToldSettled ==
  ASSUME Disk, Past, Told, NEW b, FirstSettled(b)
  PROVE  Told' /\ ToldInTime
<1>1. /\ user \in Users /\ user' = user
      /\ callbacks' = [callbacks EXCEPT ![user] = {c \in @ : c.id # b.id}]
      /\ waiting' = {w \in waiting : w.id # b.id}
  BY DEF Disk, FirstSettled, TellApp
<1>2. /\ callbacks \in [Users -> SUBSET Batch]
      /\ \A u \in Users : \A c \in callbacks[u] : \E i \in DOMAIN queue[u] : queue[u][i] = c
      /\ waiting \subseteq [id : Nat, due : SUBSET Nat]
      /\ \A w \in waiting : \A n \in w.due :
           \/ n \in confirmed[user] \cup refused[user]
           \/ \E i \in DOMAIN queue[user] : queue[user][i].n = n /\ queue[user][i].id <= w.id
      /\ \A w \in waiting :
           \E i \in DOMAIN queue[user] : queue[user][i].id = w.id /\ queue[user][i].n \in w.due
  BY DEF Told
<1>3. /\ b \in Batch /\ b = queue[user][1] /\ 1 \in DOMAIN queue[user]
      /\ \A i \in DOMAIN queue[user] :
              i = 1 \/ (i - 1 \in DOMAIN queue'[user] /\ queue'[user][i - 1] = queue[user][i])
      /\ \A u \in Users : u # user => queue'[u] = queue[u]
  BY QueueSettled, Zenon
<1>4. /\ \A n \in confirmed[user] \cup refused[user] : n \in confirmed'[user] \cup refused'[user]
      /\ b.n \in confirmed'[user] \cup refused'[user]
  <2>1. confirmed \in [Users -> SUBSET Nat] /\ refused \in [Users -> SUBSET Nat]
    BY DEF Past
  <2>2. CASE confirmed' = [confirmed EXCEPT ![user] = @ \cup {b.n}] /\ refused' = refused
    BY <1>1, <2>1, <2>2
  <2>3. CASE refused' = [refused EXCEPT ![user] = @ \cup {b.n}] /\ confirmed' = confirmed
    BY <1>1, <2>1, <2>3
  <2> QED  BY <2>2, <2>3, Zenon DEF FirstSettled
<1>5. ASSUME NEW w \in waiting, NEW n \in w.due
      PROVE  \/ n \in confirmed'[user] \cup refused'[user]
             \/ \E i \in DOMAIN queue'[user] : queue'[user][i].n = n /\ queue'[user][i].id <= w.id
  <2>1. CASE n \in confirmed[user] \cup refused[user]
    BY <1>4, <2>1
  <2>2. CASE \E i \in DOMAIN queue[user] : queue[user][i].n = n /\ queue[user][i].id <= w.id
    <3>1. PICK i \in DOMAIN queue[user] : queue[user][i].n = n /\ queue[user][i].id <= w.id
      BY <2>2
    <3>2. CASE i = 1
      BY <1>3, <1>4, <3>1, <3>2
    <3>3. CASE i # 1
      BY <1>3, <3>1, <3>3
    <3> QED  BY <3>2, <3>3
  <2> QED  BY <1>2, <2>1, <2>2, Zenon
<1>6. callbacks' \in [Users -> SUBSET Batch]
  BY <1>1, <1>2
<1>7. ASSUME NEW u \in Users, NEW c \in callbacks'[u]
      PROVE  \E i \in DOMAIN queue'[u] : queue'[u][i] = c
  <2>1. c \in callbacks[u] /\ (u = user => c.id # b.id)
    BY <1>1, <1>2
  <2>2. PICK i \in DOMAIN queue[u] : queue[u][i] = c
    BY <1>2, <2>1
  <2>3. CASE u = user
    <3>1. i # 1
      BY <1>3, <2>1, <2>2, <2>3
    <3> QED  BY <1>3, <2>2, <2>3, <3>1
  <2>4. CASE u # user
    BY <1>3, <2>2, <2>4
  <2> QED  BY <2>3, <2>4
<1>8. waiting' \subseteq waiting
  BY <1>1
<1>9. Told'
  <2>1. ASSUME NEW w \in waiting'
        PROVE  \E i \in DOMAIN queue'[user] : queue'[user][i].id = w.id /\ queue'[user][i].n \in w.due
    <3>1. w \in waiting /\ w.id # b.id
      BY <1>1, <2>1
    <3>2. PICK i \in DOMAIN queue[user] : queue[user][i].id = w.id /\ queue[user][i].n \in w.due
      BY <1>2, <3>1
    <3>3. i # 1
      BY <1>3, <3>1, <3>2
    <3> QED  BY <1>3, <3>2, <3>3
  <2> QED  BY <1>1, <1>2, <1>5, <1>6, <1>7, <1>8, <2>1 DEF Told
(* Another batch than the first has another id.                              *)
<1>10. ASSUME NEW i \in DOMAIN queue[user], queue[user][i].id <= b.id
       PROVE  i = 1
  <2>1. SUFFICES ASSUME i # 1 PROVE FALSE
    OBVIOUS
  <2>2. /\ Ordered(queue[user]) /\ i \in 1 .. Len(queue[user]) /\ 1 < i
        /\ queue[user][i].id \in Nat /\ queue[user][1].id \in Nat
    <3>1. DOMAIN queue[user] = 1 .. Len(queue[user])
      BY <1>1, QueueParts
    <3>2. 1 < i /\ i \in 1 .. Len(queue[user]) /\ 1 \in 1 .. Len(queue[user])
      BY <1>3, <2>1, <3>1
    <3> QED  BY <1>1, <3>2, QueueParts
  <2>3. queue[user][1].id < queue[user][i].id
    BY <1>3, <2>2 DEF Ordered
  <2> QED  BY <1>3, <1>10, <2>2, <2>3
(* A waiter is told as the batch with its id, the first, is settled: nothing *)
(* with a lower id is left.                                                  *)
<1>11. ASSUME NEW w \in waiting, w \notin waiting', NEW n \in w.due
       PROVE  n \in confirmed'[user] \cup refused'[user]
  <2>1. w.id = b.id
    BY <1>1, <1>11
  <2>2. CASE n \in confirmed[user] \cup refused[user]
    BY <1>4, <2>2
  <2>3. CASE \E i \in DOMAIN queue[user] : queue[user][i].n = n /\ queue[user][i].id <= w.id
    <3>1. PICK i \in DOMAIN queue[user] : queue[user][i].n = n /\ queue[user][i].id <= b.id
      BY <2>1, <2>3
    <3>2. i = 1
      BY <1>10, <3>1
    <3> QED  BY <1>3, <1>4, <3>1, <3>2
  <2> QED  BY <1>2, <2>2, <2>3, Zenon
<1>12. ASSUME NEW u \in Users, NEW c \in callbacks[u], c \notin callbacks'[u]
       PROVE  c.n \in confirmed'[u] \cup refused'[u]
  <2>1. u = user /\ c.id = b.id
    BY <1>1, <1>2, <1>12
  <2>2. PICK i \in DOMAIN queue[user] : queue[user][i] = c
    BY <1>2, <2>1
  <2>3. b.id <= b.id
    BY <1>3 DEF Batch
  <2>4. i = 1
    BY <1>10, <2>1, <2>2, <2>3
  <2> QED  BY <1>3, <1>4, <2>1, <2>2, <2>4
<1> QED  BY <1>1, <1>9, <1>11, <1>12 DEF ToldInTime, Settled

(* A caller begins to wait for the whole queue.                              *)
LEMMA ToldWaits ==
  ASSUME Disk, Told, queue[user] # <<>>,
         user' = user, queue' = queue, callbacks' = callbacks, confirmed' = confirmed,
         refused' = refused,
         waiting' = {[id |-> Newest(IdsOf(queue[user])),
                      due |-> {queue[user][i].n : i \in DOMAIN queue[user]}]}
  PROVE  Told'
<1>1. user \in Users /\ nextId \in Nat
  BY DEF Disk
<1> DEFINE q == queue[user]
           m == Newest(IdsOf(q))
           w == [id |-> m, due |-> {q[i].n : i \in DOMAIN q}]
<1>2. \A i \in DOMAIN q : q[i].id \in 0 .. nextId /\ q[i].n \in Nat
  BY <1>1, QueueParts
<1>3. IdsOf(q) \subseteq 0 .. nextId /\ \A i \in DOMAIN q : q[i].id \in IdsOf(q)
  BY <1>2 DEF IdsOf
<1>4. m \in Nat /\ (\A i \in DOMAIN q : q[i].id <= m) /\ \E i \in DOMAIN q : q[i].id = m
  <2>1. q # <<>> /\ q \in Seq(Batch)
    BY <1>1, QueueParts
  <2>2. 1 \in DOMAIN q
    BY <2>1
  <2>3. IdsOf(q) # {} /\ \A x \in IdsOf(q) : \E i \in DOMAIN q : q[i].id = x
    BY <1>3, <2>2 DEF IdsOf
  <2> HIDE DEF q
  <2> QED  BY <1>1, <1>3, <2>3, NewestIs
<1> HIDE DEF m
<1>5. w \in [id : Nat, due : SUBSET Nat]
  BY <1>2, <1>4
<1>6. \A n \in w.due : \E i \in DOMAIN q : q[i].n = n /\ q[i].id <= w.id
  BY <1>4
<1>7. \E i \in DOMAIN q : q[i].id = w.id /\ q[i].n \in w.due
  BY <1>4
<1>8. waiting' = {w}
  BY DEF m
<1> HIDE DEF w
<1>9. waiting' \subseteq [id : Nat, due : SUBSET Nat]
  BY <1>5, <1>8
<1>10. \A x \in waiting' : \A n \in x.due :
        \E i \in DOMAIN queue[user] : queue[user][i].n = n /\ queue[user][i].id <= x.id
  <2>1. ASSUME NEW x \in waiting'
        PROVE  \A n \in x.due :
                 \E i \in DOMAIN queue[user] : queue[user][i].n = n /\ queue[user][i].id <= x.id
    <3>1. x = w
      BY <1>8, <2>1
    <3> QED  BY <1>6, <3>1, Zenon
  <2> QED  BY <2>1
<1>11. /\ callbacks' \in [Users -> SUBSET Batch]
       /\ \A u \in Users : \A c \in callbacks'[u] : \E i \in DOMAIN queue'[u] : queue'[u][i] = c
  <2>1. /\ callbacks \in [Users -> SUBSET Batch]
        /\ \A u \in Users : \A c \in callbacks[u] : \E i \in DOMAIN queue[u] : queue[u][i] = c
    BY Zenon DEF Told
  <2>2. callbacks' = callbacks /\ queue' = queue
    OBVIOUS
  <2> QED  BY <2>1, <2>2
<1>12. \A x \in waiting' : \A n \in x.due :
         \/ n \in confirmed'[user'] \cup refused'[user']
         \/ \E i \in DOMAIN queue'[user'] : queue'[user'][i].n = n /\ queue'[user'][i].id <= x.id
  BY <1>10
<1>13. \A x \in waiting' :
         \E i \in DOMAIN queue'[user'] : queue'[user'][i].id = x.id /\ queue'[user'][i].n \in x.due
  <2>1. ASSUME NEW x \in waiting'
        PROVE  \E i \in DOMAIN queue[user] : queue[user][i].id = x.id /\ queue[user][i].n \in x.due
    <3>1. x = w
      BY <1>8, <2>1
    <3> QED  BY <1>7, <3>1
  <2> QED  BY <2>1
<1> QED  BY <1>9, <1>11, <1>12, <1>13, Zenon DEF Told

-----------------------------------------------------------------------------
(* The pipeline and the stream over a change of either.                      *)

LEMMA StartsIs ==
  ASSUME NEW st \in States, NEW p, NEW net \in BOOLEAN
  PROVE  /\ StartIfNeeded(st, p, net) \in States
         /\ StartIfNeeded(st, p, net) = "Open" <=> st = "Open"
         /\ net /\ p # <<>> => Started(StartIfNeeded(st, p, net))
         /\ ~net \/ p = <<>> => StartIfNeeded(st, p, net) = st
BY DEF StartIfNeeded, Started, States

LEMMA BeginsTail ==
  ASSUME NEW q \in Seq(Batch), NEW p, Begins(p, q), p # <<>>
  PROVE  /\ q # <<>> /\ Head(q) = Head(p) /\ Head(p) = p[1] /\ Head(p) \in Batch
         /\ Tail(p) \in Seq(Batch) /\ Begins(Tail(p), Tail(q))
<1>1. /\ p \in Seq(Batch) /\ Len(p) <= MaxPendingWrites /\ Len(p) <= Len(q)
      /\ \A i \in 1 .. Len(p) : p[i] = q[i]
  BY DEF Begins
<1>2. /\ Tail(p) \in Seq(Batch) /\ Len(p) >= 1 /\ Len(Tail(p)) = Len(p) - 1
      /\ \A i \in 1 .. Len(p) - 1 : i + 1 \in 1 .. Len(p) /\ Tail(p)[i] = p[i + 1]
      /\ Head(p) = p[1] /\ 1 \in DOMAIN p /\ DOMAIN p = 1 .. Len(p) /\ Len(p) \in Nat
      /\ Head(p) \in Batch
  BY <1>1, TailParts, SeqParts
<1>3. Len(q) \in Nat /\ (q # <<>> <=> Len(q) # 0)
  BY SeqParts
<1>4. q # <<>>
  <2>1. Len(q) # 0
    BY <1>1, <1>2, <1>3
  <2> QED  BY <1>3, <2>1
<1>5. /\ Tail(q) \in Seq(Batch) /\ Len(Tail(q)) = Len(q) - 1
      /\ \A i \in 1 .. Len(q) - 1 : Tail(q)[i] = q[i + 1]
      /\ Head(q) = q[1]
  BY <1>4, TailParts
<1>6. Len(p) - 1 <= MaxPendingWrites /\ Len(p) - 1 <= Len(q) - 1
  BY <1>1, <1>2, <1>3, WritesAssumption
<1>7. \A i \in 1 .. Len(p) - 1 : i \in 1 .. Len(q) - 1
  BY <1>1, <1>2, <1>3
<1>8. \A i \in 1 .. Len(p) - 1 : Tail(p)[i] = Tail(q)[i]
  BY <1>1, <1>2, <1>5, <1>7
<1>9. Head(q) = Head(p)
  BY <1>1, <1>2, <1>5
<1>10. Begins(Tail(p), Tail(q))
  BY <1>2, <1>5, <1>6, <1>8 DEF Begins
<1> QED  BY <1>2, <1>4, <1>9, <1>10

LEMMA BeginsJoined ==
  ASSUME NEW q \in Seq(Batch), NEW p, Begins(p, q), NEW b \in Batch
  PROVE  Begins(p, Append(q, b))
<1>1. /\ p \in Seq(Batch) /\ Len(p) <= MaxPendingWrites /\ Len(p) <= Len(q)
      /\ \A i \in 1 .. Len(p) : p[i] = q[i]
  BY DEF Begins
<1>2. /\ Len(Append(q, b)) = Len(q) + 1 /\ \A i \in 1 .. Len(q) : Append(q, b)[i] = q[i]
  BY AppendParts
<1>3. Len(p) \in Nat /\ Len(q) \in Nat
  BY <1>1, SeqParts
<1>4. Len(p) <= Len(q) + 1 /\ \A i \in 1 .. Len(p) : i \in 1 .. Len(q)
  BY <1>1, <1>3
<1> QED  BY <1>1, <1>2, <1>4 DEF Begins

LEMMA BeginsEmpty ==
  ASSUME NEW q \in Seq(Batch)
  PROVE  Begins(<<>>, q)
<1>1. /\ <<>> \in Seq(Batch) /\ Len(<<>>) = 0
  BY EmptySeq
<1>2. Len(q) \in Nat /\ MaxPendingWrites \in Nat
  BY SeqParts, WritesAssumption
<1>3. 0 <= Len(q) /\ 0 <= MaxPendingWrites /\ 1 .. 0 = {}
  BY <1>2
<1> QED  BY <1>1, <1>3 DEF Begins

(* FillWritePipeline of the pipeline p, a beginning of the queue q, with the *)
(* stream in state st.                                                       *)
LEMMA StreamFills ==
  ASSUME NEW q \in Seq(Batch), Ordered(q), \A i \in DOMAIN q : 1 <= q[i].id,
         NEW p, Begins(p, q), NEW st \in States, NEW net \in BOOLEAN, NEW sent \in Seq(Nat),
         NEW timer \in BOOLEAN, FillWritePipeline(p, q, st, net, sent, timer),
         handshake \in BOOLEAN, handshake' \in BOOLEAN,
         st = "Open" => handshake' = handshake, handshake' => st = "Open",
         ~net => p = <<>> /\ ~Started(st),
         Started(st) /\ ~handshake' => p # <<>>,
         timer => handshake' /\ p = <<>>,
         IF st = "Open" THEN Carries(handshake', closing', down', sent, p)
                        ELSE down' = <<>> /\ sent = <<>> /\ closing' = "none"
  PROVE  /\ state' \in States /\ Begins(pipeline', q) /\ pipeline' \in Seq(Batch)
         /\ net => Len(pipeline') = MaxPendingWrites \/ Len(pipeline') = Len(q)
         /\ net /\ pipeline' # <<>> => Started(state')
         /\ ~net => pipeline' = <<>> /\ ~Started(state')
         /\ idle' \in BOOLEAN
         /\ handshake' => state' = "Open"
         /\ Started(state') /\ ~handshake' => pipeline' # <<>>
         /\ idle' => handshake' /\ pipeline' = <<>>
         /\ IF state' = "Open" THEN Carries(handshake', closing', down', up', pipeline')
                               ELSE down' = <<>> /\ up' = <<>> /\ closing' = "none"
<1>0. FillsFrom(p, q, st, net, sent, timer)
  BY FillStep
<1>1. /\ Begins(pipeline', q) /\ Len(p) <= Len(pipeline')
      /\ net => Len(pipeline') = MaxPendingWrites \/ Len(pipeline') = Len(q)
      /\ ~net => pipeline' = p
      /\ up' \in Seq(Nat)
      /\ st = "Open" /\ handshake =>
              /\ Len(up') = Len(sent) + (Len(pipeline') - Len(p))
              /\ \A j \in 1 .. Len(sent) : up'[j] = sent[j]
              /\ \A j \in 1 .. Len(pipeline') - Len(p) :
                   up'[Len(sent) + j] = pipeline'[Len(p) + j].n
      /\ ~(st = "Open" /\ handshake) => up' = sent
      /\ idle' <=> \/ timer /\ ~(st = "Open" /\ handshake /\ Len(pipeline') # Len(p))
                   \/ net /\ pipeline' = <<>> /\ st = "Open"
      /\ state' = StartIfNeeded(st, pipeline', net)
  BY <1>0 DEF FillsFrom
<1>2. /\ state' \in States /\ (state' = "Open" <=> st = "Open")
      /\ net /\ pipeline' # <<>> => Started(state')
      /\ ~net \/ pipeline' = <<>> => state' = st
  BY <1>1, StartsIs
<1>3. /\ pipeline' \in Seq(Batch) /\ p \in Seq(Batch)
      /\ \A i \in 1 .. Len(p) : pipeline'[i] = p[i]
      /\ Len(p) \in Nat /\ Len(pipeline') \in Nat
      /\ pipeline' # <<>> <=> Len(pipeline') # 0
      /\ p # <<>> <=> Len(p) # 0
  <2>1. pipeline' \in Seq(Batch) /\ p \in Seq(Batch)
    BY <1>1 DEF Begins
  <2>2. Len(p) \in Nat /\ Len(pipeline') \in Nat
    BY <2>1, SeqParts
  <2>3. \A i \in 1 .. Len(p) : i \in 1 .. Len(pipeline')
    BY <1>1, <2>2
  <2>4. \A i \in 1 .. Len(p) : pipeline'[i] = p[i]
    BY <1>1, <2>3 DEF Begins
  <2> QED  BY <2>1, <2>2, <2>4, SeqParts
<1>4. p # <<>> => pipeline' # <<>>
  <2>1. Len(p) # 0 => Len(pipeline') # 0
    BY <1>1, <1>3
  <2> QED  BY <1>3, <2>1
<1>5. Started(state') /\ ~handshake' => pipeline' # <<>>
  BY <1>2, <1>4
<1>6. idle' => handshake' /\ pipeline' = <<>>
  <2>1. CASE net /\ pipeline' = <<>> /\ st = "Open"
    BY <1>4, <2>1 DEF Started
  <2>2. CASE timer /\ ~(st = "Open" /\ handshake /\ Len(pipeline') # Len(p))
    <3>1. handshake' /\ p = <<>> /\ st = "Open" /\ handshake
      BY <2>2
    <3>2. Len(pipeline') = 0
      BY <1>3, <2>2, <3>1
    <3> QED  BY <1>3, <3>1, <3>2
  <2> QED  BY <1>1, <2>1, <2>2, Zenon
<1>7. idle' \in BOOLEAN
  BY Zenon DEF FillWritePipeline
<1>8. CASE st = "Open" /\ handshake
  <2>1. Carries(TRUE, closing', down', sent, p) /\ handshake' = TRUE
    BY <1>8
  <2>2. Carries(TRUE, closing', down', up', pipeline')
    <3>1. /\ Len(up') = Len(sent) + (Len(pipeline') - Len(p))
          /\ \A j \in 1 .. Len(sent) : up'[j] = sent[j]
          /\ \A j \in 1 .. Len(pipeline') - Len(p) :
                   up'[Len(sent) + j] = pipeline'[Len(p) + j].n
          /\ Len(p) <= Len(pipeline') /\ up' \in Seq(Nat)
      BY <1>1, <1>8
    <3> QED  BY <1>3, <2>1, <3>1, CarriesMore
  <2>3. state' = "Open"
    BY <1>2, <1>8
  <2> QED  BY <1>1, <1>2, <1>3, <1>5, <1>6, <1>7, <2>1, <2>2, <2>3, Zenon
<1>9. CASE st = "Open" /\ ~handshake
  <2>1. Carries(FALSE, closing', down', sent, p) /\ handshake' = FALSE /\ up' = sent
    BY <1>1, <1>9
  <2>2. Carries(FALSE, closing', down', up', pipeline')
    BY <2>1 DEF Carries
  <2>3. state' = "Open"
    BY <1>2, <1>9
  <2>4. net
    BY <1>9 DEF Started
  <2> QED  BY <1>1, <1>2, <1>3, <1>5, <1>6, <1>7, <2>1, <2>2, <2>3, <2>4, Zenon
<1>10. CASE st # "Open"
  <2>1. state' # "Open" /\ up' = <<>> /\ down' = <<>> /\ closing' = "none"
    BY <1>1, <1>2, <1>10
  <2>2. ~handshake'
    BY <1>10
  <2>3. ~net => pipeline' = <<>> /\ ~Started(state')
    BY <1>1, <1>2
  <2> QED  BY <1>1, <1>2, <1>3, <1>5, <1>6, <1>7, <2>1, <2>2, <2>3, Zenon
<1> QED  BY <1>8, <1>9, <1>10

-----------------------------------------------------------------------------
(* Every action keeps the invariant.                                         *)

LEMMA Now ==
  ASSUME IInv
  PROVE  /\ user \in Users /\ queue[user] \in Seq(Batch) /\ Ordered(queue[user])
         /\ \A i \in DOMAIN queue[user] : 1 <= queue[user][i].id
         /\ Begins(pipeline, queue[user]) /\ pipeline \in Seq(Batch)
         /\ network \in BOOLEAN /\ state \in States /\ handshake \in BOOLEAN /\ idle \in BOOLEAN
         /\ Started(state) => network
         /\ handshake => state = "Open"
         /\ up \in Seq(Nat) /\ (state # "Open" => up = <<>> /\ down = <<>>)
         /\ faults \in Nat
<1>1. user \in Users /\ faults \in Nat /\ queue \in [Users -> Seq(Batch)]
  BY DEF IInv, Disk
<1>2. /\ queue[user] \in Seq(Batch) /\ Ordered(queue[user])
      /\ \A i \in DOMAIN queue[user] : 1 <= queue[user][i].id
  BY <1>1 DEF IInv, Disk
<1>3. /\ Begins(pipeline, queue[user]) /\ network \in BOOLEAN /\ state \in States
      /\ (Started(state) => network)
  BY DEF IInv, Piped
<1>4. pipeline \in Seq(Batch)
  BY <1>3 DEF Begins
<1>5. /\ handshake \in BOOLEAN /\ idle \in BOOLEAN /\ (handshake => state = "Open")
      /\ IF state = "Open" THEN Carries(handshake, closing, down, up, pipeline)
                           ELSE down = <<>> /\ up = <<>> /\ closing = "none"
  BY DEF IInv, Streaming
<1>6. <<>> \in Seq(Nat)
  BY EmptySeq
<1>7. up \in Seq(Nat) /\ (state # "Open" => up = <<>> /\ down = <<>>)
  BY <1>5, <1>6, CarriesParts
<1> QED  BY <1>1, <1>2, <1>3, <1>4, <1>5, <1>7

LEMMA StreamNow ==
  ASSUME IInv
  PROVE  /\ closing \in Statuses \cup {"none"}
         /\ savedToken \in [Users -> Tokens \cup {NoToken}] /\ token \in Tokens \cup {NoToken}
         /\ handshake => token = savedToken[user] /\ token \in Tokens
         /\ Started(state) /\ ~handshake => pipeline # <<>>
         /\ idle => handshake /\ pipeline = <<>>
         /\ IF state = "Open"
            THEN Carries(handshake, closing, down, up, pipeline)
            ELSE down = <<>> /\ up = <<>> /\ closing = "none"
         /\ network => Len(pipeline) = MaxPendingWrites \/ Len(pipeline) = Len(queue[user])
         /\ network /\ pipeline # <<>> => Started(state)
         /\ ~network => pipeline = <<>> /\ ~Started(state)
BY DEF IInv, Piped, Streaming

(* What FillWritePipeline leaves in a state with the network net and the     *)
(* token tk, given the queues.                                               *)
LEMMA FilledStep ==
  ASSUME NEW p, NEW st \in States, NEW sent \in Seq(Nat), NEW timer \in BOOLEAN,
         Disk', Past', Told', user' \in Users,
         Begins(p, queue'[user']), network' \in BOOLEAN,
         FillWritePipeline(p, queue'[user'], st, network', sent, timer),
         handshake \in BOOLEAN, handshake' \in BOOLEAN,
         st = "Open" => handshake' = handshake, handshake' => st = "Open",
         ~network' => p = <<>> /\ ~Started(st),
         Started(st) /\ ~handshake' => p # <<>>,
         timer => handshake' /\ p = <<>>,
         IF st = "Open" THEN Carries(handshake', closing', down', sent, p)
                        ELSE down' = <<>> /\ sent = <<>> /\ closing' = "none",
         closing' \in Statuses \cup {"none"},
         savedToken' \in [Users -> Tokens \cup {NoToken}], token' \in Tokens \cup {NoToken},
         handshake' => token' = savedToken'[user'] /\ token' \in Tokens,
         Serving'
  PROVE  IInv'
<1> DEFINE q == queue'[user']
<1>1. q \in Seq(Batch) /\ Ordered(q) /\ \A i \in DOMAIN q : 1 <= q[i].id
  BY DEF Disk
<1> HIDE DEF q
<1>2. Begins(p, q) /\ FillWritePipeline(p, q, st, network', sent, timer)
  BY DEF q
<1>3. /\ state' \in States /\ Begins(pipeline', q) /\ pipeline' \in Seq(Batch)
      /\ network' => Len(pipeline') = MaxPendingWrites \/ Len(pipeline') = Len(q)
      /\ network' /\ pipeline' # <<>> => Started(state')
      /\ ~network' => pipeline' = <<>> /\ ~Started(state')
      /\ idle' \in BOOLEAN
      /\ handshake' => state' = "Open"
      /\ Started(state') /\ ~handshake' => pipeline' # <<>>
      /\ idle' => handshake' /\ pipeline' = <<>>
      /\ IF state' = "Open" THEN Carries(handshake', closing', down', up', pipeline')
                            ELSE down' = <<>> /\ up' = <<>> /\ closing' = "none"
  BY <1>1, <1>2, StreamFills
<1>4. Piped'
  BY <1>3 DEF Piped, q
<1>5. Streaming'
  BY <1>3 DEF Streaming
<1> QED  BY <1>4, <1>5 DEF IInv

LEMMA WriteStep ==
  ASSUME IInv, Write
  PROVE  IInv'
<1>1. Joins
  BY DEF Write, Joins, NewBatch, serverVars
<1>2. Disk' /\ Past' /\ Told'
  BY <1>1, DiskJoined, PastJoined, ToldJoined DEF IInv
<1>3. /\ user' = user /\ network' = network /\ handshake' = handshake /\ down' = down
      /\ closing' = closing /\ token' = token /\ savedToken' = savedToken /\ applied' = applied
      /\ latest' = latest
      /\ FillWritePipeline(pipeline, queue'[user], state, network, up, idle)
  BY DEF Write, serverVars
<1>4. Begins(pipeline, queue'[user])
  <2>1. NewBatch \in Batch /\ queue'[user] = Append(queue[user], NewBatch)
    BY <1>1, QueueJoined DEF IInv
  <2> QED  BY <2>1, Now, BeginsJoined
<1>5. Serving'
  BY <1>3 DEF IInv, Serving
<1>6. /\ user \in Users /\ network \in BOOLEAN /\ state \in States /\ handshake \in BOOLEAN
      /\ idle \in BOOLEAN /\ up \in Seq(Nat) /\ (handshake => state = "Open")
  BY Now
<1> QED  BY <1>2, <1>3, <1>4, <1>5, <1>6, StreamNow, FilledStep

LEMMA WaitStep ==
  ASSUME IInv, WaitForPendingWrites
  PROVE  IInv'
<1>1. /\ user' = user /\ queue' = queue /\ savedToken' = savedToken /\ nextId' = nextId
      /\ network' = network /\ state' = state /\ handshake' = handshake /\ idle' = idle
      /\ up' = up /\ down' = down /\ closing' = closing /\ token' = token /\ pipeline' = pipeline
      /\ callbacks' = callbacks /\ confirmed' = confirmed /\ refused' = refused
      /\ applied' = applied /\ latest' = latest /\ written' = written /\ faults' = faults
      /\ waiting' = {[id |-> Newest(IdsOf(queue[user])),
                      due |-> {queue[user][i].n : i \in DOMAIN queue[user]}]}
      /\ queue[user] # <<>>
  BY DEF WaitForPendingWrites, diskVars, streamVars, serverVars
<1>2. Disk'
  BY <1>1, DiskStays, Now DEF IInv
<1>3. Past'
  BY <1>1, PastStays DEF IInv
<1>4. Told'
  BY <1>1, ToldWaits DEF IInv
<1>5. Piped'
  BY <1>1 DEF IInv, Piped
<1>6. Streaming'
  BY <1>1 DEF IInv, Streaming
<1>7. Serving'
  BY <1>1 DEF IInv, Serving
<1> QED  BY <1>2, <1>3, <1>4, <1>5, <1>6, <1>7 DEF IInv

(* An action of the stream that leaves the queues and the callers alone.     *)
QueuesStay ==
  /\ user' = user /\ queue' = queue /\ nextId' = nextId /\ faults' \in Nat
  /\ callbacks' = callbacks /\ waiting' = waiting /\ confirmed' = confirmed
  /\ refused' = refused /\ applied' = applied /\ latest' = latest /\ written' = written

LEMMA QueuesStayStep ==
  ASSUME IInv, QueuesStay
  PROVE  Disk' /\ Past' /\ Told' /\ user' = user /\ queue' = queue
<1>1. Disk'
  BY DiskStays, Now DEF IInv, QueuesStay
<1>2. Past'
  BY PastStays DEF IInv, QueuesStay
<1>3. Told'
  BY ToldStays DEF IInv, QueuesStay
<1> QED  BY <1>1, <1>2, <1>3 DEF QueuesStay

LEMMA FaultIs ==
  ASSUME IInv, Fault \/ faults' = faults
  PROVE  faults' \in Nat
<1>1. faults \in Nat
  BY Now
<1> QED  BY <1>1 DEF Fault

LEMMA CarriesFresh ==
  ASSUME NEW p
  PROVE  Carries(FALSE, "none", <<>>, <<0>>, p)
<1>1. <<>> \in Seq(Answer) /\ Len(<<>>) = 0 /\ <<0>> \in Seq(Nat)
  OBVIOUS
<1>2. Len(<<0>>) = 1 /\ \A j \in 1 .. 1 : <<0>>[j] = 0
  OBVIOUS
<1>3. /\ \A i \in 1 .. 0 : FALSE
      /\ 0 <= 1 /\ 0 + 1 = 1
  OBVIOUS
<1>4. \A i \in 1 .. Len(<<>>) : <<>>[i].of = 0
  BY <1>1, <1>3
<1> QED  BY <1>1, <1>2, <1>3, <1>4 DEF Carries

LEMMA TokenArrivesStep ==
  ASSUME IInv, TokenArrives
  PROVE  IInv'
<1>1. /\ state = "Starting" /\ state' = "Open" /\ up' = <<0>> /\ idle' = FALSE
      /\ network' = network /\ handshake' = handshake /\ down' = down
      /\ closing' = closing /\ token' = token /\ pipeline' = pipeline /\ savedToken' = savedToken
  BY DEF TokenArrives, diskVars
<1>2. QueuesStay
  BY FaultIs DEF TokenArrives, diskVars, appVars, serverVars, QueuesStay
<1>3. Disk' /\ Past' /\ Told' /\ user' = user /\ queue' = queue
  BY <1>2, QueuesStayStep
<1>4. /\ handshake = FALSE /\ down = <<>> /\ closing = "none" /\ pipeline # <<>> /\ network = TRUE
      /\ Len(pipeline) = MaxPendingWrites \/ Len(pipeline) = Len(queue[user])
      /\ Begins(pipeline, queue[user])
  BY <1>1, Now, StreamNow DEF Started
<1>5. Piped'
  <2>1. "Open" \in States /\ Started("Open")
    BY DEF States, Started
  <2> QED  BY <1>1, <1>3, <1>4, <2>1, Zenon DEF Piped
<1>6. Carries(handshake', closing', down', up', pipeline')
  BY <1>1, <1>4, CarriesFresh
<1>7. Streaming'
  BY <1>1, <1>3, <1>4, <1>6, StreamNow DEF Streaming
<1>8. Serving'
  BY <1>1, <1>4 DEF Serving
<1> QED  BY <1>3, <1>5, <1>7, <1>8 DEF IInv

LEMMA HandshakeStep ==
  ASSUME IInv, HandshakeComplete
  PROVE  IInv'
<1>1. /\ state = "Open" /\ ~handshake /\ down # <<>> /\ handshake' = TRUE /\ state' = state
      /\ token' = Head(down).token /\ savedToken' = [savedToken EXCEPT ![user] = token']
      /\ up' = up \o Numbers(pipeline) /\ idle' = (idle /\ pipeline = <<>>)
      /\ down' = Tail(down) /\ network' = network /\ closing' = closing /\ pipeline' = pipeline
  BY DEF HandshakeComplete
<1>2. QueuesStay
  BY FaultIs DEF HandshakeComplete, appVars, serverVars, QueuesStay
<1>3. Disk' /\ Past' /\ Told' /\ user' = user /\ queue' = queue
  BY <1>2, QueuesStayStep
<1>4. user \in Users /\ pipeline \in Seq(Batch) /\ handshake = FALSE
  BY <1>1, Now
<1>5. Carries(FALSE, closing, down, up, pipeline)
  BY <1>1, <1>4, StreamNow
<1>6. /\ Carries(TRUE, closing, Tail(down), up \o Numbers(pipeline), pipeline)
      /\ Head(down) \in Answer /\ Tail(down) = <<>>
  BY <1>1, <1>4, <1>5, CarriesFirst
<1>7. Piped'
  BY <1>1, <1>3 DEF IInv, Piped
<1>8. /\ token' \in Tokens /\ savedToken' \in [Users -> Tokens \cup {NoToken}]
      /\ token' = savedToken'[user]
  <2>1. token' \in Tokens
    BY <1>1, <1>6 DEF Answer
  <2> QED  BY <1>1, <1>4, <2>1, StreamNow
<1>9. idle' = FALSE
  BY <1>1, StreamNow
<1>10. Streaming'
  BY <1>1, <1>3, <1>6, <1>8, <1>9, StreamNow DEF Streaming
<1>11. Serving'
  <2>1. Len(down') = 0
    BY <1>1, <1>6, EmptySeq
  <2> QED  BY <2>1 DEF Serving
<1> QED  BY <1>3, <1>7, <1>10, <1>11 DEF IInv

(* The next answer's batch is the queue's first, and was applied.            *)
LEMMA AnswerFits ==
  ASSUME IInv, state = "Open", handshake, down # <<>>
  PROVE  /\ pipeline # <<>> /\ queue[user] # <<>> /\ Head(pipeline) = Head(queue[user])
         /\ Head(pipeline).n <= latest[user] /\ Head(pipeline).n \in applied[user]
         /\ Carries(TRUE, closing, Tail(down), up, Tail(pipeline))
         /\ Begins(Tail(pipeline), Tail(queue[user])) /\ Tail(pipeline) \in Seq(Batch)
         /\ Head(down) \in Answer /\ network = TRUE /\ idle = FALSE
<1>1. handshake = TRUE /\ network = TRUE
  BY Now DEF Started
<1>2. Carries(TRUE, closing, down, up, pipeline) /\ pipeline \in Seq(Batch)
      /\ Begins(pipeline, queue[user]) /\ queue[user] \in Seq(Batch)
  BY <1>1, Now, StreamNow
<1>3. /\ pipeline # <<>> /\ Head(down).of = Head(pipeline).n /\ Head(down) \in Answer
      /\ Carries(TRUE, closing, Tail(down), up, Tail(pipeline))
  BY <1>2, CarriesTail
<1>4. /\ queue[user] # <<>> /\ Head(queue[user]) = Head(pipeline)
      /\ Tail(pipeline) \in Seq(Batch) /\ Begins(Tail(pipeline), Tail(queue[user]))
  BY <1>2, <1>3, BeginsTail
<1>5. 1 \in 1 .. Len(down) /\ Head(down) = down[1]
  <2>1. down \in Seq(Answer)
    BY <1>2, CarriesParts
  <2> QED  BY <2>1, TailParts, SeqParts
<1>6. down[1].of \in applied[user] /\ down[1].of <= latest[user]
  BY <1>5 DEF IInv, Serving
<1>7. idle = FALSE
  BY <1>3, Now, StreamNow
<1> QED  BY <1>1, <1>3, <1>4, <1>5, <1>6, <1>7

LEMMA ResultSettles ==
  ASSUME IInv, MutationResult
  PROVE  FirstSettled(Head(pipeline))
<1>1. state = "Open" /\ handshake /\ down # <<>>
  BY DEF MutationResult
<1>2. queue[user] # <<>> /\ Head(pipeline) = Head(queue[user]) /\ Head(pipeline).n <= latest[user]
  BY <1>1, AnswerFits
<1>3. faults' \in Nat
  BY FaultIs DEF MutationResult
<1> QED  BY <1>2, <1>3 DEF MutationResult, FirstSettled, serverVars

LEMMA ResultStep ==
  ASSUME IInv, MutationResult
  PROVE  IInv'
<1>1. /\ state = "Open" /\ handshake /\ down # <<>> /\ handshake' = handshake
      /\ token' = Head(down).token /\ savedToken' = [savedToken EXCEPT ![user] = token']
      /\ FillWritePipeline(Tail(pipeline), queue'[user], state, network, up, idle)
      /\ down' = Tail(down) /\ network' = network /\ closing' = closing /\ user' = user
      /\ applied' = applied /\ latest' = latest
  BY DEF MutationResult, serverVars
<1>2. FirstSettled(Head(pipeline))
  BY ResultSettles
<1>3. Disk' /\ Past' /\ Told' /\ queue'[user] = Tail(queue[user])
  BY <1>2, DiskSettled, PastSettled, ToldSettled, QueueSettled DEF IInv
<1>4. /\ Carries(TRUE, closing, Tail(down), up, Tail(pipeline))
      /\ Begins(Tail(pipeline), Tail(queue[user])) /\ Tail(pipeline) \in Seq(Batch)
      /\ Head(down) \in Answer /\ network = TRUE /\ idle = FALSE
  BY <1>1, AnswerFits
<1>5. /\ user \in Users /\ state \in States /\ handshake = TRUE /\ up \in Seq(Nat)
  BY <1>1, Now
<1>6. /\ token' \in Tokens /\ savedToken' \in [Users -> Tokens \cup {NoToken}]
      /\ token' = savedToken'[user]
  <2>1. token' \in Tokens
    BY <1>1, <1>4 DEF Answer
  <2> QED  BY <1>1, <1>5, <2>1, StreamNow
<1>7. Serving'
  <2>1. down \in Seq(Answer)
    BY <1>1, StreamNow, CarriesParts
  <2>2. /\ Len(Tail(down)) = Len(down) - 1
        /\ \A i \in 1 .. Len(down) - 1 : i + 1 \in 1 .. Len(down) /\ Tail(down)[i] = down[i + 1]
    BY <1>1, <2>1, TailParts
  <2>3. \A i \in 1 .. Len(down) : down[i].of \in applied[user] /\ down[i].of <= latest[user]
    BY <1>1 DEF IInv, Serving
  <2>4. \A i \in 1 .. Len(Tail(down)) :
          Tail(down)[i].of \in applied[user] /\ Tail(down)[i].of <= latest[user]
    BY <2>2, <2>3
  <2> QED  BY <1>1, <2>4 DEF Serving
<1> QED  BY <1>1, <1>3, <1>4, <1>5, <1>6, <1>7, StreamNow, FilledStep

Refused(status) == handshake /\ pipeline # <<>> /\ status \in PermanentWriteError

LEMMA CloseIs ==
  ASSUME IInv, NEW status, NEW tk \in Tokens \cup {NoToken}, StreamCloses(status, tk),
         Started(state), faults' \in Nat
  PROVE  /\ handshake' = FALSE /\ down' = <<>> /\ closing' = "none"
         /\ user' = user /\ network' = TRUE /\ network = TRUE
         /\ token' \in Tokens \cup {NoToken}
         /\ savedToken' \in [Users -> Tokens \cup {NoToken}]
         /\ Serving'
         /\ Refused(status) =>
              /\ FirstSettled(Head(pipeline))
              /\ FillWritePipeline(Tail(pipeline), queue'[user'], "Initial", network', <<>>, FALSE)
         /\ ~Refused(status) =>
              /\ QueuesStay
              /\ state' = StartIfNeeded("Error", pipeline, network)
              /\ up' = <<>> /\ idle' = FALSE /\ pipeline' = pipeline
<1>1. /\ handshake' = FALSE /\ down' = <<>> /\ closing' = "none" /\ user' = user
      /\ network' = network /\ nextId' = nextId /\ confirmed' = confirmed
      /\ applied' = applied /\ latest' = latest /\ written' = written
  BY DEF StreamCloses, serverVars
<1>2. user \in Users /\ network = TRUE
  BY Now
<1>3. /\ token' \in Tokens \cup {NoToken}
      /\ savedToken' \in [Users -> Tokens \cup {NoToken}]
  <2>1. \/ token' = NoToken /\ savedToken' = [savedToken EXCEPT ![user] = NoToken]
        \/ token' = tk /\ savedToken' = savedToken
    BY DEF StreamCloses
  <2>2. savedToken \in [Users -> Tokens \cup {NoToken}]
    BY StreamNow
  <2> QED  BY <1>2, <2>1, <2>2
<1>4. Serving'
  BY <1>1 DEF Serving
<1>5. ASSUME Refused(status)
      PROVE  /\ FirstSettled(Head(pipeline))
             /\ FillWritePipeline(Tail(pipeline), queue'[user'], "Initial", network', <<>>, FALSE)
  <2>1. /\ TellApp(Head(pipeline).id)
        /\ queue' = [queue EXCEPT ![user] = RemoveBatch(@, Head(pipeline).id)]
        /\ refused' = [refused EXCEPT ![user] = @ \cup {Head(pipeline).n}]
        /\ FillWritePipeline(Tail(pipeline), queue'[user], "Initial", network, <<>>, FALSE)
    BY <1>5 DEF StreamCloses, Refused
  <2>2. queue[user] # <<>> /\ Head(pipeline) = Head(queue[user])
    BY <1>5, Now, BeginsTail DEF Refused
  <2> QED  BY <1>1, <2>1, <2>2 DEF FirstSettled
<1>6. ASSUME ~Refused(status)
      PROVE  /\ QueuesStay
             /\ state' = StartIfNeeded("Error", pipeline, network)
             /\ up' = <<>> /\ idle' = FALSE /\ pipeline' = pipeline
  <2>1. /\ state' = StartIfNeeded("Error", pipeline, network)
        /\ up' = <<>> /\ idle' = FALSE /\ pipeline' = pipeline
        /\ queue' = queue /\ callbacks' = callbacks /\ waiting' = waiting /\ refused' = refused
    BY <1>6 DEF StreamCloses, Refused
  <2> QED  BY <1>1, <2>1 DEF QueuesStay
<1> QED  BY <1>1, <1>2, <1>3, <1>4, <1>5, <1>6

LEMMA ClosesStep ==
  ASSUME IInv, NEW status, NEW tk \in Tokens \cup {NoToken}, StreamCloses(status, tk),
         Started(state), faults' \in Nat
  PROVE  IInv'
<1>1. /\ handshake' = FALSE /\ down' = <<>> /\ closing' = "none"
      /\ user' = user /\ network' = TRUE /\ network = TRUE
      /\ token' \in Tokens \cup {NoToken}
      /\ savedToken' \in [Users -> Tokens \cup {NoToken}]
      /\ Serving'
  BY CloseIs
<1>2. /\ user \in Users /\ handshake \in BOOLEAN /\ pipeline \in Seq(Batch)
      /\ queue[user] \in Seq(Batch) /\ Begins(pipeline, queue[user])
  BY Now
<1>3. closing' \in Statuses \cup {"none"}
  BY <1>1
<1>4. CASE Refused(status)
  <2>1. /\ FirstSettled(Head(pipeline))
        /\ FillWritePipeline(Tail(pipeline), queue'[user'], "Initial", network', <<>>, FALSE)
    BY <1>4, CloseIs
  <2>2. Disk' /\ Past' /\ Told' /\ queue'[user] = Tail(queue[user])
    BY <2>1, DiskSettled, PastSettled, ToldSettled, QueueSettled DEF IInv
  <2>3. Begins(Tail(pipeline), queue'[user'])
    BY <1>1, <1>2, <1>4, <2>2, BeginsTail DEF Refused
  <2>4. /\ "Initial" \in States /\ "Initial" # "Open" /\ ~Started("Initial")
        /\ <<>> \in Seq(Nat)
    BY EmptySeq DEF States, Started
  <2> QED  BY <1>1, <1>2, <1>3, <2>1, <2>2, <2>3, <2>4, FilledStep
<1>5. CASE ~Refused(status)
  <2>1. /\ QueuesStay
        /\ state' = StartIfNeeded("Error", pipeline, network)
        /\ up' = <<>> /\ idle' = FALSE /\ pipeline' = pipeline
    BY <1>5, CloseIs
  <2>2. Disk' /\ Past' /\ Told' /\ user' = user /\ queue' = queue
    BY <2>1, QueuesStayStep
  <2>3. state' \in States /\ state' # "Open" /\ (pipeline # <<>> => Started(state'))
        /\ (pipeline = <<>> => ~Started(state'))
    BY <1>1, <2>1 DEF StartIfNeeded, States, Started
  <2>4. Piped'
    BY <1>1, <1>2, <2>1, <2>2, <2>3, StreamNow DEF Piped
  <2>5. Streaming'
    BY <1>1, <1>3, <2>1, <2>2, <2>3 DEF Streaming
  <2> QED  BY <1>1, <2>2, <2>4, <2>5 DEF IInv
<1> QED  BY <1>4, <1>5

LEMMA ClosingSteps ==
  ASSUME IInv, TokenFails \/ ConnectionLost \/ StatusArrives \/ GarbledAnswer
  PROVE  \E status, tk : /\ tk \in Tokens \cup {NoToken} /\ StreamCloses(status, tk)
                         /\ Started(state) /\ faults' \in Nat
<1>1. faults' \in Nat
  BY FaultIs DEF TokenFails, ConnectionLost, StatusArrives, GarbledAnswer
<1>2. token \in Tokens \cup {NoToken}
  BY StreamNow
<1>3. CASE TokenFails
  BY <1>1, <1>2, <1>3 DEF TokenFails, Started
<1>4. CASE ConnectionLost
  BY <1>1, <1>2, <1>4 DEF ConnectionLost, Started
<1>5. CASE StatusArrives
  BY <1>1, <1>2, <1>5 DEF StatusArrives, Started
<1>6. CASE GarbledAnswer
  <2>1. state = "Open" /\ Started(state) /\ down # <<>>
    BY <1>6 DEF GarbledAnswer, Started
  <2>2. CASE StreamCloses("permanent", token)
    BY <1>1, <1>2, <2>1, <2>2
  <2>3. CASE handshake /\ StreamCloses("permanent", Head(down).token)
    <3>1. Head(down) \in Answer
      BY <2>1, <2>3, AnswerFits
    <3>2. Head(down).token \in Tokens \cup {NoToken}
      BY <3>1 DEF Answer
    <3> QED  BY <1>1, <2>1, <2>3, <3>2
  <2> QED  BY <1>6, <2>2, <2>3 DEF GarbledAnswer
<1> QED  BY <1>3, <1>4, <1>5, <1>6

LEMMA BackoffStep ==
  ASSUME IInv, BackoffElapsed
  PROVE  IInv'
<1>1. /\ state = "Backoff" /\ state' = "Starting" /\ savedToken' = savedToken
      /\ network' = network /\ handshake' = handshake /\ idle' = idle /\ up' = up /\ down' = down
      /\ closing' = closing /\ token' = token /\ pipeline' = pipeline
  BY DEF BackoffElapsed, diskVars
<1>2. QueuesStay
  BY FaultIs DEF BackoffElapsed, diskVars, appVars, serverVars, QueuesStay
<1>3. Disk' /\ Past' /\ Told' /\ user' = user /\ queue' = queue
  BY <1>2, QueuesStayStep
<1>4. "Starting" \in States /\ Started("Starting") /\ Started("Backoff")
  BY DEF States, Started
<1>5. Piped'
  BY <1>1, <1>3, <1>4, Zenon DEF IInv, Piped
<1>6. handshake = FALSE
  BY <1>1, Now
<1>7. Streaming'
  BY <1>1, <1>3, <1>4, <1>6 DEF IInv, Streaming
<1>8. Serving'
  BY <1>1, <1>6 DEF Serving
<1> QED  BY <1>3, <1>5, <1>7, <1>8 DEF IInv

(* A stream that is stopped, with nothing left to send.                      *)
LEMMA StoppedStep ==
  ASSUME IInv, QueuesStay, StreamGone, network' \in BOOLEAN, state' = Stopped(state),
         up' = <<>>, idle' = FALSE, pipeline' = <<>>, token' = token, savedToken' = savedToken,
         network' => network' = network /\ pipeline = <<>>
  PROVE  IInv'
<1>1. Disk' /\ Past' /\ Told' /\ user' = user /\ queue' = queue
  BY QueuesStayStep
<1>2. state' \in States /\ ~Started(state') /\ state' # "Open"
  BY Now DEF Stopped, States, Started
<1>3. Begins(pipeline', queue[user])
  BY Now, BeginsEmpty
<1>4. Piped'
  BY <1>1, <1>2, <1>3, StreamNow DEF Piped
<1>5. handshake' = FALSE /\ down' = <<>> /\ closing' = "none"
  BY DEF StreamGone
<1>6. Streaming'
  BY <1>2, <1>5, StreamNow DEF Streaming
<1>7. Serving'
  BY <1>5 DEF Serving
<1> QED  BY <1>1, <1>4, <1>6, <1>7 DEF IInv

LEMMA IdleStep ==
  ASSUME IInv, IdleTimeout
  PROVE  IInv'
<1>1. pipeline = <<>> /\ network \in BOOLEAN
  BY Now, StreamNow DEF IdleTimeout
<1>2. QueuesStay
  BY FaultIs DEF IdleTimeout, diskVars, appVars, serverVars, QueuesStay
<1>3. /\ StreamGone /\ network' = network /\ state' = Stopped(state) /\ up' = <<>>
      /\ idle' = FALSE /\ pipeline' = pipeline /\ token' = token /\ savedToken' = savedToken
  BY DEF IdleTimeout, diskVars
<1> QED  BY <1>1, <1>2, <1>3, StoppedStep

LEMMA DisableStep ==
  ASSUME IInv, DisableNetwork
  PROVE  IInv'
<1>1. QueuesStay
  BY FaultIs DEF DisableNetwork, diskVars, appVars, serverVars, QueuesStay
<1>2. /\ StreamGone /\ network' = FALSE /\ state' = Stopped(state) /\ up' = <<>>
      /\ idle' = FALSE /\ pipeline' = <<>> /\ token' = token /\ savedToken' = savedToken
  BY DEF DisableNetwork, diskVars
<1> QED  BY <1>1, <1>2, StoppedStep

LEMMA EnableStep ==
  ASSUME IInv, EnableNetwork
  PROVE  IInv'
<1>1. QueuesStay
  BY FaultIs DEF EnableNetwork, diskVars, appVars, serverVars, QueuesStay
<1>2. Disk' /\ Past' /\ Told' /\ user' = user /\ queue' = queue
  BY <1>1, QueuesStayStep
<1>3. /\ network' = TRUE /\ token' = savedToken[user] /\ savedToken' = savedToken
      /\ FillWritePipeline(pipeline, queue[user], state, TRUE, up, idle)
      /\ handshake' = handshake /\ down' = down /\ closing' = closing
      /\ applied' = applied /\ latest' = latest
  BY DEF EnableNetwork, diskVars, serverVars
<1>4. Serving'
  BY <1>2, <1>3 DEF IInv, Serving
<1>5. /\ user \in Users /\ Begins(pipeline, queue[user]) /\ state \in States
      /\ handshake \in BOOLEAN /\ idle \in BOOLEAN /\ up \in Seq(Nat)
      /\ (handshake => state = "Open")
  BY Now
<1>6. token' \in Tokens \cup {NoToken} /\ (handshake => token' = token)
  BY <1>3, <1>5, StreamNow
<1> QED  BY <1>2, <1>3, <1>4, <1>5, <1>6, StreamNow, FilledStep

(* RestartNetwork for the user u, given the queues and the callers.          *)
LEMMA RestartStep ==
  ASSUME IInv, NEW u \in Users, RestartNetwork(u), Disk', Past', Told',
         user' = u, queue' = queue, savedToken' = savedToken
  PROVE  IInv'
<1>1. /\ network' = TRUE /\ token' = savedToken[u] /\ handshake' = FALSE
      /\ down' = <<>> /\ closing' = "none"
      /\ FillWritePipeline(<<>>, queue[u], "Initial", TRUE, <<>>, FALSE)
  BY DEF RestartNetwork, StreamGone
<1>2. Serving'
  BY <1>1 DEF Serving
<1>3. Begins(<<>>, queue[u])
  BY QueueParts, BeginsEmpty DEF IInv
<1>4. /\ "Initial" \in States /\ "Initial" # "Open" /\ ~Started("Initial")
      /\ <<>> \in Seq(Nat)
  BY EmptySeq DEF States, Started
<1>5. handshake \in BOOLEAN
  BY Now
<1>6. token' \in Tokens \cup {NoToken} /\ closing' \in Statuses \cup {"none"}
  BY <1>1, StreamNow
<1> QED  BY <1>1, <1>2, <1>3, <1>4, <1>5, <1>6, StreamNow, FilledStep

LEMMA ConnectivityStep ==
  ASSUME IInv, ConnectivityChanges
  PROVE  IInv'
<1>1. QueuesStay
  BY FaultIs DEF ConnectivityChanges, diskVars, appVars, serverVars, QueuesStay
<1>2. Disk' /\ Past' /\ Told' /\ user' = user /\ queue' = queue
  BY <1>1, QueuesStayStep
<1>3. RestartNetwork(user) /\ savedToken' = savedToken
  BY DEF ConnectivityChanges, diskVars
<1> QED  BY <1>2, <1>3, Now, RestartStep

LEMMA CredentialStep ==
  ASSUME IInv, NEW u \in Users, CredentialChanges(u)
  PROVE  IInv'
<1>1. /\ user' = u /\ queue' = queue /\ savedToken' = savedToken /\ callbacks' = callbacks
      /\ confirmed' = confirmed /\ refused' = refused /\ applied' = applied /\ latest' = latest
      /\ written' = written
      /\ IF u # user THEN nextId' = NextIdFromDb(queue) /\ waiting' = {}
                     ELSE nextId' = nextId /\ waiting' = waiting
      /\ IF network THEN RestartNetwork(u)
                    ELSE /\ network' = network /\ state' = state /\ handshake' = handshake
                         /\ idle' = idle /\ up' = up /\ down' = down /\ closing' = closing
                         /\ token' = token /\ pipeline' = pipeline
  BY DEF CredentialChanges, streamVars, serverVars
<1>2. faults' \in Nat
  BY FaultIs DEF CredentialChanges
<1>3. Disk'
  BY <1>1, <1>2, DiskStays DEF IInv
<1>4. Past'
  BY <1>1, PastStays DEF IInv
<1>5. Told'
  BY <1>1 DEF IInv, Told
<1>6. CASE network
  BY <1>1, <1>3, <1>4, <1>5, <1>6, RestartStep
<1>7. CASE ~network
  <2>1. /\ network' = network /\ state' = state /\ handshake' = handshake
        /\ idle' = idle /\ up' = up /\ down' = down /\ closing' = closing
        /\ token' = token /\ pipeline' = pipeline
    BY <1>1, <1>7
  <2>2. pipeline = <<>> /\ ~Started(state) /\ handshake = FALSE
    BY <1>7, Now, StreamNow DEF Started
  <2>3. Begins(<<>>, queue[u])
    BY QueueParts, BeginsEmpty DEF IInv
  <2>4. Piped'
    BY <1>1, <1>7, <2>1, <2>2, <2>3, Now DEF Piped
  <2>5. Streaming'
    BY <1>1, <2>1, <2>2, Now, StreamNow DEF Streaming
  <2>6. Serving'
    BY <2>1, <2>2 DEF Serving
  <2> QED  BY <1>3, <1>4, <1>5, <2>4, <2>5, <2>6 DEF IInv
<1> QED  BY <1>6, <1>7

LEMMA CrashStep ==
  ASSUME IInv, NEW u \in Users, CrashAndRestart(u)
  PROVE  IInv'
<1>1. /\ user' = u /\ queue' = queue /\ savedToken' = savedToken
      /\ callbacks' = [v \in Users |-> {}] /\ waiting' = {} /\ nextId' = NextIdFromDb(queue)
      /\ confirmed' = confirmed /\ refused' = refused /\ applied' = applied /\ latest' = latest
      /\ written' = written /\ RestartNetwork(u)
  BY DEF CrashAndRestart, serverVars
<1>2. faults' \in Nat
  BY FaultIs DEF CrashAndRestart
<1>3. Disk'
  BY <1>1, <1>2, DiskStays DEF IInv
<1>4. Past'
  BY <1>1, PastStays DEF IInv
<1>5. Told'
  BY <1>1 DEF Told
<1> QED  BY <1>1, <1>3, <1>4, <1>5, RestartStep

(* The server's steps leave the client alone.                                *)
ClientStays ==
  /\ user' = user /\ queue' = queue /\ savedToken' = savedToken /\ nextId' = nextId
  /\ network' = network /\ state' = state /\ handshake' = handshake /\ idle' = idle
  /\ token' = token /\ pipeline' = pipeline /\ callbacks' = callbacks /\ waiting' = waiting
  /\ confirmed' = confirmed /\ refused' = refused /\ written' = written /\ faults' \in Nat

LEMMA ServerStep ==
  ASSUME IInv, ClientStays, state = "Open", Past', Serving',
         closing' \in Statuses \cup {"none"}, Carries(handshake, closing', down', up', pipeline)
  PROVE  IInv'
<1>1. Disk'
  BY DiskStays, Now DEF IInv, ClientStays
<1>2. Told'
  BY ToldStays DEF IInv, ClientStays
<1>3. Piped'
  BY DEF IInv, Piped, ClientStays
<1>4. Streaming'
  BY Now, StreamNow DEF Streaming, ClientStays
<1> QED  BY <1>1, <1>2, <1>3, <1>4 DEF IInv

LEMMA AnswersStep ==
  ASSUME IInv, AnswersHandshake
  PROVE  IInv'
<1>1. /\ closing = "none" /\ up # <<>> /\ Head(up) = 0 /\ up' = Tail(up) /\ closing' = closing
      /\ applied' = applied /\ latest' = latest
  BY DEF AnswersHandshake, serverVars
<1>2. PICK t \in Tokens : down' = Append(down, [of |-> Head(up), token |-> t])
  BY <1>1 DEF AnswersHandshake
<1>3. ClientStays
  BY FaultIs DEF AnswersHandshake, serverFrame, diskVars, appVars, ClientStays
<1>4. state = "Open" /\ handshake \in BOOLEAN /\ pipeline \in Seq(Batch)
  BY <1>1, Now
<1>5. Carries(handshake, "none", down, up, pipeline)
  BY <1>1, <1>4, StreamNow
<1>6. /\ Carries(handshake, "none", down', up', pipeline)
      /\ handshake => Len(down) + 1 <= Len(pipeline) /\ Head(up) = pipeline[Len(down) + 1].n
  BY <1>1, <1>2, <1>4, <1>5, CarriesMoved
(* A write's number is not 0.                                                *)
<1>7. handshake = FALSE
  <2>1. SUFFICES ASSUME handshake PROVE FALSE
    BY <1>4
  <2>2. Len(down) \in Nat
    BY <1>5, CarriesParts
  <2>3. Len(down) + 1 \in 1 .. Len(pipeline) /\ Head(up) = pipeline[Len(down) + 1].n
    BY <1>6, <2>1, <2>2
  <2>4. pipeline[Len(down) + 1].n # 0
    <3>1. /\ Len(pipeline) <= Len(queue[user])
          /\ pipeline[Len(down) + 1] = queue[user][Len(down) + 1]
      BY <2>3, Now DEF Begins
    <3>2. Len(queue[user]) \in Nat /\ Len(pipeline) \in Nat
      BY <1>4, Now, SeqParts
    <3>3. Len(down) + 1 \in 1 .. Len(queue[user])
      BY <2>3, <3>1, <3>2
    <3>4. 1 <= queue[user][Len(down) + 1].n
      BY <3>3, Now, QueueParts DEF IInv
    <3> QED  BY <3>1, <3>4
  <2> QED  BY <1>1, <2>3, <2>4
<1>8. Past'
  BY <1>1, <1>3, PastStays DEF IInv, ClientStays
<1>9. Serving'
  BY <1>3, <1>7 DEF Serving, ClientStays
<1> QED  BY <1>1, <1>3, <1>4, <1>6, <1>8, <1>9, StreamNow, ServerStep

(* The server applies the write after those it has answered.                 *)
LEMMA AppliesParts ==
  ASSUME IInv, AppliesWrite
  PROVE  /\ handshake = TRUE /\ state = "Open" /\ user \in Users
         /\ closing = "none" /\ closing' = "none" /\ ClientStays
         /\ \E t \in Tokens : down' = Append(down, [of |-> Head(up), token |-> t])
         /\ down \in Seq(Answer) /\ Len(down) \in Nat
         /\ Carries(TRUE, "none", down', up', pipeline)
         /\ Len(down) + 1 \in DOMAIN queue[user]
         /\ Head(up) = queue[user][Len(down) + 1].n /\ Head(up) \in Nat
         /\ \A i \in 1 .. Len(down) :
              i \in DOMAIN queue[user] /\ down[i].of = queue[user][i].n /\ i < Len(down) + 1
         /\ applied' = [applied EXCEPT ![user] = @ \cup {Head(up)}]
         /\ latest' = [latest EXCEPT ![user] = Head(up)]
<1>1. /\ closing = "none" /\ up # <<>> /\ Head(up) # 0 /\ up' = Tail(up) /\ closing' = closing
      /\ applied' = [applied EXCEPT ![user] = @ \cup {Head(up)}]
      /\ latest' = [latest EXCEPT ![user] = Head(up)]
      /\ \E t \in Tokens : down' = Append(down, [of |-> Head(up), token |-> t])
  BY DEF AppliesWrite
<1>2. PICK t \in Tokens : down' = Append(down, [of |-> Head(up), token |-> t])
  BY <1>1
<1>3. ClientStays
  BY FaultIs DEF AppliesWrite, serverFrame, diskVars, appVars, ClientStays
<1>4. /\ state = "Open" /\ handshake \in BOOLEAN /\ pipeline \in Seq(Batch) /\ user \in Users
      /\ Begins(pipeline, queue[user]) /\ queue[user] \in Seq(Batch)
  BY <1>1, Now
<1>5. Carries(handshake, "none", down, up, pipeline)
  BY <1>1, <1>4, StreamNow
<1>6. /\ Carries(handshake, "none", down', up', pipeline) /\ Head(up) \in Nat
      /\ handshake => Len(down) + 1 <= Len(pipeline) /\ Head(up) = pipeline[Len(down) + 1].n
      /\ ~handshake => Head(up) = 0
  BY <1>1, <1>2, <1>4, <1>5, CarriesMoved
<1>7. handshake = TRUE
  BY <1>1, <1>4, <1>6
<1>8. down \in Seq(Answer) /\ Len(down) \in Nat
  BY <1>5, CarriesParts
<1>9. /\ Len(pipeline) \in Nat /\ Len(queue[user]) \in Nat
      /\ DOMAIN queue[user] = 1 .. Len(queue[user])
      /\ Len(pipeline) <= Len(queue[user])
      /\ \A i \in 1 .. Len(pipeline) : pipeline[i] = queue[user][i]
  BY <1>4, SeqParts DEF Begins
<1>10. \A i \in 1 .. Len(down) : down[i].of = pipeline[i].n
  BY <1>5, <1>7 DEF Carries
<1> DEFINE k == Len(down)
<1> HIDE DEF k
<1>11. k \in Nat /\ k + 1 <= Len(pipeline)
  BY <1>6, <1>7, <1>8 DEF k
<1>12. /\ k + 1 \in 1 .. Len(pipeline) /\ k + 1 \in 1 .. Len(queue[user])
       /\ \A i \in 1 .. k : /\ i \in 1 .. Len(pipeline) /\ i \in 1 .. Len(queue[user])
                            /\ i < k + 1
  BY <1>9, <1>11
<1>13. Head(up) = queue[user][k + 1].n
  BY <1>6, <1>7, <1>9, <1>12 DEF k
<1>14. \A i \in 1 .. k : down[i].of = queue[user][i].n
  BY <1>9, <1>10, <1>12 DEF k
<1> QED  BY <1>1, <1>3, <1>4, <1>6, <1>7, <1>8, <1>9, <1>12, <1>13, <1>14 DEF k

LEMMA AppliesStep ==
  ASSUME IInv, AppliesWrite
  PROVE  IInv'
<1> DEFINE w == Head(up)
           k == Len(down)
           q == queue[user]
<1>1. /\ handshake = TRUE /\ state = "Open" /\ user \in Users
      /\ closing' = "none" /\ ClientStays
      /\ down \in Seq(Answer) /\ k \in Nat
      /\ Carries(TRUE, "none", down', up', pipeline)
      /\ k + 1 \in DOMAIN q /\ w = q[k + 1].n /\ w \in Nat
      /\ \A i \in 1 .. k : i \in DOMAIN q /\ down[i].of = q[i].n /\ i < k + 1
      /\ applied' = [applied EXCEPT ![user] = @ \cup {w}]
      /\ latest' = [latest EXCEPT ![user] = w]
  BY AppliesParts
<1>2. PICK t \in Tokens : down' = Append(down, [of |-> w, token |-> t])
  BY AppliesParts
<1>3. /\ DOMAIN q = 1 .. Len(q) /\ Ordered(q) /\ \A i \in 1 .. Len(q) : q[i].n \in Nat
  BY <1>1, QueueParts DEF IInv
<1>4. /\ applied \in [Users -> SUBSET Nat] /\ latest \in [Users -> Nat]
      /\ confirmed \in [Users -> SUBSET Nat] /\ refused \in [Users -> SUBSET Nat]
      /\ \A u \in Users : \A n \in confirmed[u] \cup refused[u] :
           n <= written /\ \A i \in DOMAIN queue[u] : n < queue[u][i].n
      /\ \A u \in Users : \A n \in confirmed[u] : n <= latest[u]
  BY DEF IInv, Past
<1>5. /\ user' = user /\ queue' = queue /\ confirmed' = confirmed /\ refused' = refused
      /\ written' = written /\ handshake' = handshake
  BY <1>1 DEF ClientStays
<1> HIDE DEF w, k
<1>6. /\ applied' \in [Users -> SUBSET Nat] /\ latest' \in [Users -> Nat]
      /\ latest'[user] = w /\ applied'[user] = applied[user] \cup {w}
      /\ \A u \in Users : u # user => latest'[u] = latest[u]
  BY <1>1, <1>4
<1>7. ASSUME NEW u \in Users, NEW n \in confirmed[u]  PROVE n <= latest'[u]
  <2>1. CASE u = user
    <3>1. n < w /\ n \in Nat /\ w \in Nat
      BY <1>1, <1>4, <2>1
    <3> QED  BY <1>6, <2>1, <3>1
  <2>2. CASE u # user
    BY <1>4, <1>6, <2>2
  <2> QED  BY <2>1, <2>2
<1>8. Past'
  BY <1>4, <1>5, <1>6, <1>7 DEF Past
<1>9. /\ Len(down') = k + 1 /\ down'[k + 1].of = w
      /\ \A i \in 1 .. k : down'[i] = down[i]
      /\ \A i \in 1 .. k + 1 : i \in 1 .. k \/ i = k + 1
  <2>1. [of |-> w, token |-> t] \in Answer
    BY <1>1 DEF Answer
  <2> QED  BY <1>1, <1>2, <2>1, AppendParts DEF k
<1>10. ASSUME NEW i \in 1 .. k
       PROVE  down[i].of \in applied[user] /\ down[i].of <= w
  <2>1. down[i].of \in applied[user]
    BY <1>1 DEF IInv, Serving, k
  <2>2. down[i].of = q[i].n /\ q[i].n < q[k + 1].n
    BY <1>1, <1>3 DEF Ordered
  <2>3. q[i].n \in Nat /\ q[k + 1].n \in Nat
    BY <1>1, <1>3
  <2> QED  BY <1>1, <2>1, <2>2, <2>3
<1>11. w <= w
  BY <1>1
<1>12. \A i \in 1 .. k + 1 : down'[i].of \in applied'[user] /\ down'[i].of <= latest'[user]
  BY <1>6, <1>9, <1>10, <1>11
<1>13. Serving'
  BY <1>5, <1>9, <1>12 DEF Serving
<1> QED  BY <1>1, <1>8, <1>13, ServerStep

LEMMA ServerClosesStep ==
  ASSUME IInv, ClosesStream
  PROVE  IInv'
<1>1. /\ state = "Open" /\ closing' \in Statuses \cup {"none"} /\ closing' # "none"
      /\ up' = <<>> /\ down' = down /\ applied' = applied /\ latest' = latest
  BY DEF ClosesStream, Statuses, serverVars
<1>2. ClientStays
  BY FaultIs DEF ClosesStream, serverFrame, diskVars, appVars, ClientStays
<1>3. Past'
  BY <1>1, <1>2, PastStays DEF IInv, ClientStays
<1>4. Serving'
  BY <1>1, <1>2 DEF IInv, Serving, ClientStays
<1>5. Carries(handshake, closing', down', up', pipeline)
  <2>1. Carries(handshake, closing, down, up, pipeline)
    BY <1>1, StreamNow
  <2>2. <<>> \in Seq(Nat)
    BY EmptySeq
  <2> QED  BY <1>1, <2>1, <2>2 DEF Carries
<1> QED  BY <1>1, <1>2, <1>3, <1>4, <1>5, ServerStep

LEMMA StutterStep ==
  ASSUME IInv, UNCHANGED vars
  PROVE  IInv'
<1>1. QueuesStay
  BY FaultIs DEF vars, diskVars, appVars, serverVars, QueuesStay
<1>2. Disk' /\ Past' /\ Told' /\ user' = user /\ queue' = queue
  BY <1>1, QueuesStayStep
<1>3. /\ network' = network /\ state' = state /\ handshake' = handshake /\ idle' = idle
      /\ up' = up /\ down' = down /\ closing' = closing /\ token' = token /\ pipeline' = pipeline
      /\ savedToken' = savedToken /\ applied' = applied /\ latest' = latest
  BY DEF vars, diskVars, streamVars, serverVars
<1>4. Piped'
  BY <1>2, <1>3 DEF IInv, Piped
<1>5. Streaming'
  BY <1>2, <1>3 DEF IInv, Streaming
<1>6. Serving'
  BY <1>2, <1>3 DEF IInv, Serving
<1> QED  BY <1>2, <1>4, <1>5, <1>6 DEF IInv

LEMMA InitIInv ==
  ASSUME Init
  PROVE  IInv
<1>1. /\ user \in Users
      /\ queue = [u \in Users |-> <<>>] /\ savedToken = [u \in Users |-> NoToken] /\ nextId = 1
      /\ network = TRUE /\ state = "Initial" /\ handshake = FALSE /\ idle = FALSE
      /\ token = NoToken /\ pipeline = <<>> /\ up = <<>> /\ down = <<>> /\ closing = "none"
      /\ callbacks = [u \in Users |-> {}] /\ waiting = {}
      /\ applied = [u \in Users |-> {}] /\ latest = [u \in Users |-> 0]
      /\ confirmed = [u \in Users |-> {}] /\ refused = [u \in Users |-> {}]
      /\ written = 0 /\ faults = 0
  BY DEF Init
<1>2. <<>> \in Seq(Batch) /\ Len(<<>>) = 0 /\ DOMAIN <<>> = {}
  OBVIOUS
<1>3. \A u \in Users : queue[u] = <<>> /\ DOMAIN queue[u] = {}
  BY <1>1, <1>2
<1>4. Disk
  <2>1. queue \in [Users -> Seq(Batch)]
    BY <1>1, <1>2
  <2>2. nextId \in Nat \ {0} /\ written \in Nat /\ faults \in Nat
    BY <1>1
  <2>3. \A u \in Users : Ordered(queue[u])
    BY <1>3 DEF Ordered
  <2> QED  BY <1>1, <1>3, <2>1, <2>2, <2>3 DEF Disk
<1>5. Past
  BY <1>1 DEF Past
<1>6. Told
  BY <1>1 DEF Told
<1>7. Piped
  <2>1. Begins(pipeline, queue[user])
    BY <1>1, <1>2, <1>3, BeginsEmpty
  <2>2. Len(pipeline) = Len(queue[user])
    BY <1>1, <1>3
  <2>3. "Initial" \in States
    BY DEF States
  <2> QED  BY <1>1, <2>1, <2>2, <2>3 DEF Piped
<1>8. Streaming
  BY <1>1 DEF Streaming, Started
<1>9. Serving
  BY <1>1 DEF Serving
<1> QED  BY <1>4, <1>5, <1>6, <1>7, <1>8, <1>9 DEF IInv

LEMMA NextIInv ==
  ASSUME IInv, [Next]_vars
  PROVE  IInv'
<1>1. CASE Write \/ WaitForPendingWrites
  BY <1>1, WriteStep, WaitStep
<1>2. CASE Progress
  <2>1. CASE TokenArrives \/ BackoffElapsed \/ HandshakeComplete
    BY <2>1, TokenArrivesStep, BackoffStep, HandshakeStep
  <2>2. CASE MutationResult
    BY <2>2, ResultStep
  <2>3. CASE StatusArrives
    BY <2>3, ClosingSteps, ClosesStep
  <2>4. CASE AnswersHandshake \/ AppliesWrite
    BY <2>4, AnswersStep, AppliesStep
  <2> QED  BY <1>2, <2>1, <2>2, <2>3, <2>4 DEF Progress
<1>3. CASE TokenFails \/ ConnectionLost \/ GarbledAnswer
  BY <1>3, ClosingSteps, ClosesStep
<1>4. CASE ClosesStream \/ IdleTimeout
  BY <1>4, ServerClosesStep, IdleStep
<1>5. CASE DisableNetwork \/ EnableNetwork \/ ConnectivityChanges
  BY <1>5, DisableStep, EnableStep, ConnectivityStep
<1>6. CASE \E u \in Users : CredentialChanges(u) \/ CrashAndRestart(u)
  BY <1>6, CredentialStep, CrashStep
<1>7. CASE UNCHANGED vars
  BY <1>7, StutterStep
<1> QED  BY <1>1, <1>2, <1>3, <1>4, <1>5, <1>6, <1>7 DEF Next

(* The queues, the pipeline, the stream and the server's past fit together,  *)
(* whatever is lost, refused, restarted or handed to another user.           *)
THEOREM WritesInvariant == Spec => []IInv
<1>1. Init => IInv
  BY InitIInv
<1>2. IInv /\ [Next]_vars => IInv'
  BY NextIInv
<1> QED  BY <1>1, <1>2, PTL DEF Spec

-----------------------------------------------------------------------------
(* What the invariant implies.                                               *)

LEMMA InvTypeOK ==
  ASSUME IInv
  PROVE  TypeOK
<1>1. /\ user \in Users /\ queue \in [Users -> Seq(Batch)] /\ nextId \in Nat \ {0}
      /\ written \in Nat /\ faults \in Nat
  BY DEF IInv, Disk
<1>2. /\ applied \in [Users -> SUBSET Nat] /\ latest \in [Users -> Nat]
      /\ confirmed \in [Users -> SUBSET Nat] /\ refused \in [Users -> SUBSET Nat]
  BY DEF IInv, Past
<1>3. callbacks \in [Users -> SUBSET Batch] /\ waiting \subseteq [id : Nat, due : SUBSET Nat]
  BY DEF IInv, Told
<1>4. /\ network \in BOOLEAN /\ handshake \in BOOLEAN /\ idle \in BOOLEAN /\ state \in States
      /\ pipeline \in Seq(Batch) /\ up \in Seq(Nat)
  BY Now
<1>5. /\ closing \in Statuses \cup {"none"}
      /\ savedToken \in [Users -> Tokens \cup {NoToken}] /\ token \in Tokens \cup {NoToken}
  BY StreamNow
<1>6. down \in Seq(Answer)
  <2>1. CASE state = "Open"
    BY <2>1, StreamNow, CarriesParts
  <2>2. CASE state # "Open"
    BY <2>2, Now, EmptySeq
  <2> QED  BY <2>1, <2>2
<1> QED  BY <1>1, <1>2, <1>3, <1>4, <1>5, <1>6 DEF TypeOK, States, Answer

LEMMA InvPipelineFilled ==
  ASSUME IInv
  PROVE  PipelineFilled
<1> DEFINE q == queue[user]
           n == Len(q)
           m == Min({MaxPendingWrites, n})
<1>1. /\ q \in Seq(Batch) /\ Begins(pipeline, q) /\ pipeline \in Seq(Batch)
      /\ network \in BOOLEAN
  BY Now
<1>2. /\ n \in Nat /\ \A i \in 1 .. n : q[i] \in Batch
      /\ Len(pipeline) \in Nat /\ MaxPendingWrites \in Nat
  BY <1>1, SeqParts, WritesAssumption
<1>3. /\ Len(pipeline) <= MaxPendingWrites /\ Len(pipeline) <= n
      /\ \A i \in 1 .. Len(pipeline) : pipeline[i] = q[i]
  BY <1>1 DEF Begins
<1>4. /\ network => Len(pipeline) = MaxPendingWrites \/ Len(pipeline) = n
      /\ network /\ pipeline # <<>> => Started(state)
      /\ ~network => pipeline = <<>> /\ ~Started(state)
  BY StreamNow
<1>5. ASSUME network  PROVE pipeline = SubSeq(q, 1, m)
  <2>1. m \in {MaxPendingWrites, n} /\ m <= MaxPendingWrites /\ m <= n
    <3>1. {MaxPendingWrites, n} \subseteq Nat /\ {MaxPendingWrites, n} # {}
      BY <1>2
    <3> QED  BY <3>1, MinIs
  <2> HIDE DEF m, n
  <2>2. m = Len(pipeline) /\ m \in Nat
    BY <1>2, <1>3, <1>4, <1>5, <2>1 DEF n
  <2>3. \A i \in 1 .. m : q[i] \in Batch
    BY <1>2, <2>1, <2>2 DEF n
  <2>4. 1 \in Int /\ m \in Int /\ m - 1 + 1 = m /\ (IF 1 <= m THEN m - 1 + 1 ELSE 0) = m
        /\ \A i \in 1 .. m : 1 + i - 1 = i
    BY <2>2
  <2>5. /\ SubSeq(q, 1, m) \in Seq(Batch)
        /\ Len(SubSeq(q, 1, m)) = IF 1 <= m THEN m - 1 + 1 ELSE 0
        /\ \A i \in 1 .. m - 1 + 1 : SubSeq(q, 1, m)[i] = q[1 + i - 1]
    BY <2>3, <2>4, SubSeqProperties
  <2>6. Len(SubSeq(q, 1, m)) = m /\ \A i \in 1 .. m : SubSeq(q, 1, m)[i] = q[i]
    BY <2>4, <2>5
  <2> HIDE DEF q
  <2> QED  BY <1>1, <1>3, <2>2, <2>5, <2>6, SeqEqual
<1> QED  BY <1>1, <1>4, <1>5, InvTypeOK DEF PipelineFilled

(* The answers and requests of a stream, as StreamCarriesIt puts them.       *)
CarriedInOrder(hs, cl, d, s, p) ==
  LET of == [i \in DOMAIN d |-> d[i].of]
      expected == IF hs THEN Numbers(p) ELSE <<0>>
  IN  IsPrefix(of, expected) /\ (cl = "none" => of \o s = expected)

LEMMA CarriedIs ==
  ASSUME NEW hs \in BOOLEAN, NEW cl, NEW d, NEW s, NEW p \in Seq(Batch), Carries(hs, cl, d, s, p)
  PROVE  CarriedInOrder(hs, cl, d, s, p)
<1> DEFINE of == [i \in DOMAIN d |-> d[i].of]
           x == IF hs THEN Numbers(p) ELSE <<0>>
           a == Len(d)
           c == Len(s)
           e == Len(x)
<1>1. /\ d \in Seq(Answer) /\ a \in Nat /\ \A i \in 1 .. a : d[i] \in Answer
      /\ s \in Seq(Nat) /\ c \in Nat /\ \A i \in 1 .. c : s[i] \in Nat
      /\ DOMAIN d = 1 .. a
  BY CarriesParts, SeqParts
<1>2. of \in Seq(Nat) /\ Len(of) = a /\ \A i \in 1 .. a : of[i] = d[i].of
  <2>1. of \in [1 .. a -> Nat]
    BY <1>1 DEF Answer
  <2>2. of \in Seq(Nat) /\ Len(of) = a
    BY <1>1, <2>1, FunctionIsSeq
  <2> QED  BY <1>1, <2>2
<1>3. /\ Numbers(p) \in Seq(Nat) /\ Len(Numbers(p)) = Len(p)
      /\ \A i \in 1 .. Len(p) : Numbers(p)[i] = p[i].n
      /\ Len(p) \in Nat
  BY NumbersIs, SeqParts
<1>4. <<0>> \in Seq(Nat) /\ Len(<<0>>) = 1 /\ \A i \in 1 .. 1 : <<0>>[i] = 0
  OBVIOUS
<1>5. /\ x \in Seq(Nat) /\ e \in Nat /\ a <= e
      /\ \A i \in 1 .. a : of[i] = x[i]
      /\ cl = "none" => a + c = e /\ \A j \in 1 .. c : s[j] = x[a + j]
  <2>1. CASE hs
    <3>1. /\ a <= Len(p) /\ \A i \in 1 .. a : d[i].of = p[i].n
          /\ cl = "none" => a + c = Len(p) /\ \A j \in 1 .. c : s[j] = p[a + j].n
      BY <2>1 DEF Carries
    <3>2. x = Numbers(p)
      BY <2>1
    <3> DEFINE b == Len(p)
    <3> HIDE DEF a, b, c, x, of
    <3>3. \A i \in 1 .. a : i \in 1 .. b
      BY <1>1, <1>3, <3>1 DEF b
    <3>4. cl = "none" => \A j \in 1 .. c : a + j \in 1 .. b
      BY <1>1, <1>3, <3>1 DEF b
    <3>5. \A i \in 1 .. a : of[i] = x[i]
      BY <1>2, <1>3, <3>1, <3>2, <3>3 DEF b
    <3>6. cl = "none" => \A j \in 1 .. c : s[j] = x[a + j]
      BY <1>3, <3>1, <3>2, <3>4 DEF b
    <3> QED  BY <1>3, <3>1, <3>2, <3>5, <3>6
  <2>2. CASE ~hs
    <3>1. /\ a <= 1 /\ \A i \in 1 .. a : d[i].of = 0
          /\ cl = "none" => a + c = 1 /\ \A j \in 1 .. c : s[j] = 0
      BY <2>2 DEF Carries
    <3>2. x = <<0>>
      BY <2>2
    <3> HIDE DEF a, c, x, of
    <3>3. \A i \in 1 .. a : i \in 1 .. 1
      BY <1>1, <3>1
    <3>4. cl = "none" => \A j \in 1 .. c : a + j \in 1 .. 1
      BY <1>1, <3>1
    <3>5. \A i \in 1 .. a : of[i] = x[i]
      BY <1>2, <1>4, <3>1, <3>2, <3>3
    <3>6. cl = "none" => \A j \in 1 .. c : s[j] = x[a + j]
      BY <1>4, <3>1, <3>2, <3>4
    <3> QED  BY <1>4, <3>1, <3>2, <3>5, <3>6
  <2> QED  BY <2>1, <2>2
<1> HIDE DEF of, x, a, c, e
<1>6. IsPrefix(of, x)
  <2>1. /\ \A i \in 1 .. a : of[i] \in Nat /\ x[i] \in Nat
        /\ 1 \in Int /\ a \in Int /\ a - 1 + 1 = a /\ \A i \in 1 .. a : 1 + i - 1 = i
        /\ (IF 1 <= a THEN a - 1 + 1 ELSE 0) = a
    BY <1>1, <1>2, <1>5 DEF Answer
  <2>2. /\ SubSeq(of, 1, a) \in Seq(Nat)
        /\ Len(SubSeq(of, 1, a)) = IF 1 <= a THEN a - 1 + 1 ELSE 0
        /\ \A i \in 1 .. a - 1 + 1 : SubSeq(of, 1, a)[i] = of[1 + i - 1]
    BY <2>1, SubSeqProperties
  <2>3. /\ SubSeq(x, 1, a) \in Seq(Nat)
        /\ Len(SubSeq(x, 1, a)) = IF 1 <= a THEN a - 1 + 1 ELSE 0
        /\ \A i \in 1 .. a - 1 + 1 : SubSeq(x, 1, a)[i] = x[1 + i - 1]
    BY <2>1, SubSeqProperties
  <2>4. /\ Len(SubSeq(of, 1, a)) = a /\ Len(SubSeq(x, 1, a)) = a
        /\ \A i \in 1 .. a : SubSeq(of, 1, a)[i] = SubSeq(x, 1, a)[i]
    BY <1>5, <2>1, <2>2, <2>3
  <2>5. SubSeq(of, 1, a) = SubSeq(x, 1, a)
    BY <2>2, <2>3, <2>4, SeqEqual
  <2> QED  BY <1>2, <1>5, <2>5 DEF IsPrefix, e
<1>7. ASSUME cl = "none"  PROVE of \o s = x
  <2>1. /\ of \o s \in Seq(Nat) /\ Len(of \o s) = Len(of) + Len(s)
        /\ \A i \in 1 .. Len(of) + Len(s) :
             (of \o s)[i] = IF i <= Len(of) THEN of[i] ELSE s[i - Len(of)]
    BY <1>1, <1>2, ConcatProperties
  <2>2. Len(of) = a /\ Len(s) = c
    BY <1>2 DEF c
  <2>3. a + c = e /\ \A j \in 1 .. c : s[j] = x[a + j]
    BY <1>5, <1>7
  <2>4. ASSUME NEW i \in 1 .. a + c  PROVE (of \o s)[i] = x[i]
    <3>1. (of \o s)[i] = IF i <= a THEN of[i] ELSE s[i - a]
      BY <2>1, <2>2
    <3>2. CASE i <= a
      <4>1. i \in 1 .. a
        BY <1>1, <3>2
      <4> QED  BY <1>5, <3>1, <3>2, <4>1
    <3>3. CASE ~(i <= a)
      <4>1. i - a \in 1 .. c /\ a + (i - a) = i
        BY <1>1, <3>3
      <4> QED  BY <2>3, <3>1, <3>3, <4>1
    <3> QED  BY <3>2, <3>3
  <2>5. Len(of \o s) = Len(x) /\ \A i \in 1 .. Len(of \o s) : (of \o s)[i] = x[i]
    BY <2>1, <2>2, <2>3, <2>4 DEF e
  <2> QED  BY <1>5, <2>1, <2>5, SeqEqual
<1> QED  BY <1>6, <1>7 DEF CarriedInOrder, of, x

LEMMA InvStreamCarriesIt ==
  ASSUME IInv
  PROVE  StreamCarriesIt
<1>1. handshake \in BOOLEAN /\ pipeline \in Seq(Batch)
  BY Now
<1>2. CASE state = "Open"
  <2>1. Carries(handshake, closing, down, up, pipeline)
    BY <1>2, StreamNow
  <2>2. CarriedInOrder(handshake, closing, down, up, pipeline)
    BY <1>1, <2>1, CarriedIs
  <2> DEFINE of == [i \in DOMAIN down |-> down[i].of]
             x == IF handshake THEN Numbers(pipeline) ELSE <<0>>
  <2>3. IsPrefix(of, x) /\ (closing = "none" => of \o up = x)
    BY <2>2, Zenon DEF CarriedInOrder
  <2> HIDE DEF of, x
  <2>4. \/ closing = "none" /\ of \o up = x
        \/ closing # "none" /\ IsPrefix(of, x)
    BY <2>3
  <2> QED  BY <1>2, <2>4, Zenon DEF StreamCarriesIt, of, x
<1>3. CASE state # "Open"
  <2>1. down = <<>> /\ up = <<>> /\ closing = "none"
    BY <1>3, StreamNow
  <2>2. /\ [i \in DOMAIN <<>> |-> <<>>[i].of] \in Seq(Nat)
        /\ Len([i \in DOMAIN <<>> |-> <<>>[i].of]) = 0
    <3>1. 0 \in Nat /\ DOMAIN <<>> = 1 .. 0 /\ 1 .. 0 = {}
      OBVIOUS
    <3>2. [i \in DOMAIN <<>> |-> <<>>[i].of] \in [1 .. 0 -> Nat]
      BY <3>1
    <3> QED  BY <3>1, <3>2, FunctionIsSeq
  <2>3. [i \in DOMAIN <<>> |-> <<>>[i].of] = <<>>
    BY <2>2, SeqParts
  <2>4. [i \in DOMAIN down |-> down[i].of] \o up = <<>>
    <3>1. <<>> \o <<>> = <<>>
      BY EmptySeq, ConcatEmptySeq
    <3> QED  BY <2>1, <2>3, <3>1
  <2> QED  BY <1>3, <2>1, <2>4 DEF StreamCarriesIt
<1> QED  BY <1>2, <1>3

LEMMA InvInStep ==
  ASSUME IInv
  PROVE  InStep
<1>1. state = "Open" /\ handshake /\ down # <<>> => pipeline # <<>>
  BY AnswerFits
<1>2. idle => state = "Open" /\ pipeline = <<>>
  BY Now, StreamNow
<1>3. handshake => state = "Open"
  BY Now
<1>4. IdsOf(pipeline) \subseteq IdsOf(queue[user])
  <2>1. /\ DOMAIN pipeline = 1 .. Len(pipeline) /\ Len(pipeline) \in Nat
        /\ DOMAIN queue[user] = 1 .. Len(queue[user]) /\ Len(queue[user]) \in Nat
        /\ Len(pipeline) <= Len(queue[user])
        /\ \A i \in 1 .. Len(pipeline) : pipeline[i] = queue[user][i]
    BY Now, SeqParts DEF Begins
  <2>2. \A i \in 1 .. Len(pipeline) : i \in 1 .. Len(queue[user])
    BY <2>1
  <2> QED  BY <2>1, <2>2 DEF IdsOf
<1> QED  BY <1>1, <1>2, <1>3, <1>4, InvPipelineFilled, InvStreamCarriesIt DEF InStep

(* While the network may be used the pipeline is the beginning of the user's *)
(* queue; answers and requests under way are those of its writes in their    *)
(* order; the client's assertions hold.                                      *)
THEOREM StreamStaysInStep == Spec => []InStep
<1>1. IInv => InStep
  BY InvInStep
<1> QED  BY <1>1, WritesInvariant, PTL

(* However often writes are sent again, an older one never comes back over a *)
(* write confirmed to the app, and the token in use is the one on disk.      *)
THEOREM ConfirmedIsKept == Spec => []ConfirmedStays
<1>1. ASSUME IInv  PROVE ConfirmedStays
  <2>1. handshake => token = savedToken[user] /\ token # NoToken
    BY <1>1, StreamNow, WritesAssumption
  <2>2. \A u \in Users : \A n \in confirmed[u] : latest[u] >= n
    BY <1>1 DEF IInv, Past
  <2> QED  BY <2>1, <2>2 DEF ConfirmedStays
<1> QED  BY <1>1, WritesInvariant, PTL

-----------------------------------------------------------------------------
(* Callers.                                                                  *)

LEMMA InvCallbacksMatch ==
  ASSUME IInv
  PROVE  CallbacksMatch
<1>1. ASSUME NEW u \in Users  PROVE callbacks[u] \subseteq Range(queue[u])
  BY DEF IInv, Told, Range
<1>2. ASSUME NEW u \in Users, NEW v \in Users, u # v
      PROVE  IdsOf(queue[u]) \cap IdsOf(queue[v]) = {}
  BY <1>2, Apart DEF IInv, IdsOf
<1> QED  BY <1>1, <1>2 DEF CallbacksMatch

(* Whoever waits does so for a batch that waits, which was written after     *)
(* everything that is settled.                                               *)
LEMMA InvStillDue ==
  ASSUME IInv
  PROVE  StillDue
<1>1. user \in Users
  BY DEF IInv, Disk
<1>2. ASSUME NEW u \in Users, NEW i \in DOMAIN queue[u]
      PROVE  queue[u][i].n \notin Settled(u)
  <2>1. queue[u][i].n \in Nat
    BY QueueParts DEF IInv
  <2>2. queue[u][i].n \in Settled(u) => queue[u][i].n < queue[u][i].n
    BY DEF IInv, Past, Settled
  <2> QED  BY <2>1, <2>2
<1>3. ASSUME NEW u \in Users, NEW c \in callbacks[u]  PROVE c.n \notin Settled(u)
  BY <1>2 DEF IInv, Told
<1>4. ASSUME NEW w \in waiting  PROVE ~(w.due \subseteq Settled(user))
  <2>1. PICK i \in DOMAIN queue[user] : queue[user][i].n \in w.due
    BY DEF IInv, Told
  <2> QED  BY <1>1, <1>2, <2>1
<1> QED  BY <1>3, <1>4 DEF StillDue

LEMMA NextToldInTime ==
  ASSUME IInv, [Next]_vars
  PROVE  [ToldInTime]_vars
<1>1. ASSUME NEW b, FirstSettled(b)  PROVE ToldInTime
  BY <1>1, ToldSettled DEF IInv
<1>2. ASSUME \A u \in Users : callbacks[u] \subseteq callbacks'[u],
             user' = user => waiting \subseteq waiting'
      PROVE  ToldInTime
  BY <1>2 DEF ToldInTime
<1>3. ASSUME NEW status, NEW tk \in Tokens \cup {NoToken}, StreamCloses(status, tk),
             Started(state), faults' \in Nat
      PROVE  ToldInTime
  <2>1. CASE Refused(status)
    BY <1>1, <1>3, <2>1, CloseIs
  <2>2. CASE ~Refused(status)
    <3>1. callbacks' = callbacks /\ waiting' = waiting
      BY <1>3, <2>2, CloseIs DEF QueuesStay
    <3> QED  BY <1>2, <3>1
  <2> QED  BY <2>1, <2>2
<1>4. CASE Write
  <2>1. /\ callbacks \in [Users -> SUBSET Batch] /\ waiting' = waiting
        /\ \E b : callbacks' = [callbacks EXCEPT ![user] =
                       IF \E c \in @ : c.id = b.id THEN @ ELSE @ \cup {b}]
    BY <1>4 DEF Write, IInv, Told
  <2> QED  BY <1>2, <2>1
<1>5. CASE WaitForPendingWrites
  <2>1. waiting = {} /\ callbacks' = callbacks
    BY <1>5 DEF WaitForPendingWrites
  <2> QED  BY <1>2, <2>1
<1>6. CASE Progress
  <2>1. CASE MutationResult
    BY <1>1, <2>1, ResultSettles
  <2>2. CASE StatusArrives
    BY <1>3, <2>2, ClosingSteps
  <2>3. CASE TokenArrives \/ BackoffElapsed \/ HandshakeComplete
    <3>1. callbacks' = callbacks /\ waiting' = waiting
      BY <2>3 DEF TokenArrives, BackoffElapsed, HandshakeComplete, appVars
    <3> QED  BY <1>2, <3>1
  <2>4. CASE AnswersHandshake \/ AppliesWrite
    <3>1. callbacks' = callbacks /\ waiting' = waiting
      BY <2>4 DEF AnswersHandshake, AppliesWrite, serverFrame, appVars
    <3> QED  BY <1>2, <3>1
  <2> QED  BY <1>6, <2>1, <2>2, <2>3, <2>4 DEF Progress
<1>7. CASE TokenFails \/ ConnectionLost \/ GarbledAnswer
  BY <1>3, <1>7, ClosingSteps
<1>8. CASE ClosesStream \/ IdleTimeout \/ DisableNetwork \/ EnableNetwork \/ ConnectivityChanges
  <2>1. callbacks' = callbacks /\ waiting' = waiting
    BY <1>8 DEF ClosesStream, IdleTimeout, DisableNetwork, EnableNetwork, ConnectivityChanges,
                serverFrame, appVars
  <2> QED  BY <1>2, <2>1
<1>9. ASSUME NEW u \in Users, CredentialChanges(u)  PROVE ToldInTime
  <2>1. callbacks' = callbacks /\ (user' = user => waiting' = waiting)
    BY <1>9 DEF CredentialChanges
  <2> QED  BY <1>2, <2>1
<1>10. ASSUME NEW u \in Users, CrashAndRestart(u)  PROVE ToldInTime
  BY <1>10 DEF ToldInTime
<1> QED  BY <1>4, <1>5, <1>6, <1>7, <1>8, <1>9, <1>10 DEF Next

(* A callback waits under the id of its own write.  It is called, and a      *)
(* caller that waits for the pending writes is told, in the step that        *)
(* settles the last of its writes: not later, and not before, unless the     *)
(* user changes or the app dies.                                             *)
THEOREM CallersAreTold == Spec => CallersTold
<1>1. IInv => CallbacksMatch /\ StillDue
  BY InvCallbacksMatch, InvStillDue
<1>2. IInv /\ [Next]_vars => [ToldInTime]_vars
  BY NextToldInTime
<1> QED  BY <1>1, <1>2, WritesInvariant, PTL DEF Spec, CallersTold

-----------------------------------------------------------------------------
(* The client implements the Outbox.                                         *)

LEMMA NumbersAppend ==
  ASSUME NEW q \in Seq(Batch), NEW b \in Batch
  PROVE  Numbers(Append(q, b)) = Append(Numbers(q), b.n)
<1>1. /\ Append(q, b) \in Seq(Batch) /\ Len(Append(q, b)) = Len(q) + 1
      /\ \A i \in 1 .. Len(q) : Append(q, b)[i] = q[i]
      /\ Append(q, b)[Len(q) + 1] = b
      /\ \A i \in 1 .. Len(q) + 1 : i \in 1 .. Len(q) \/ i = Len(q) + 1
  BY AppendParts
<1>2. /\ Numbers(Append(q, b)) \in Seq(Nat) /\ Len(Numbers(Append(q, b))) = Len(q) + 1
      /\ \A i \in 1 .. Len(q) + 1 : Numbers(Append(q, b))[i] = Append(q, b)[i].n
  BY <1>1, NumbersIs
<1>3. /\ Numbers(q) \in Seq(Nat) /\ Len(Numbers(q)) = Len(q)
      /\ \A i \in 1 .. Len(q) : Numbers(q)[i] = q[i].n
  BY NumbersIs
<1>4. b.n \in Nat
  BY DEF Batch
<1> DEFINE r == Numbers(q)
           s == Append(r, b.n)
           t == Numbers(Append(q, b))
           m == Len(q)
<1> HIDE DEF r, t
<1>5. /\ s \in Seq(Nat) /\ Len(s) = m + 1
      /\ \A i \in 1 .. m : s[i] = r[i]
      /\ s[m + 1] = b.n
  <2>1. r \in Seq(Nat) /\ Len(r) = m
    BY <1>3 DEF r
  <2> QED  BY <1>4, <2>1, AppendParts
<1> HIDE DEF s, m
<1>6. \A i \in 1 .. m + 1 : t[i] = s[i]
  <2>1. /\ \A i \in 1 .. m + 1 : i \in 1 .. m \/ i = m + 1
        /\ \A i \in 1 .. m + 1 : t[i] = Append(q, b)[i].n
        /\ \A i \in 1 .. m : Append(q, b)[i] = q[i] /\ r[i] = q[i].n
        /\ Append(q, b)[m + 1] = b
    BY <1>1, <1>2, <1>3 DEF r, t, m
  <2> QED  BY <1>5, <2>1
<1>7. t \in Seq(Nat) /\ Len(t) = m + 1
  BY <1>2 DEF t, m
<1>8. t = s
  BY <1>5, <1>6, <1>7, SeqEqual
<1> QED  BY <1>8 DEF t, s, r

LEMMA NumbersTail ==
  ASSUME NEW q \in Seq(Batch), q # <<>>
  PROVE  /\ Numbers(Tail(q)) = Tail(Numbers(q)) /\ Numbers(q) # <<>>
         /\ Head(Numbers(q)) = Head(q).n
<1>1. /\ Tail(q) \in Seq(Batch) /\ Len(q) >= 1 /\ Len(Tail(q)) = Len(q) - 1
      /\ \A i \in 1 .. Len(q) - 1 : i + 1 \in 1 .. Len(q) /\ Tail(q)[i] = q[i + 1]
      /\ Head(q) = q[1] /\ 1 \in 1 .. Len(q) /\ Len(q) \in Nat
  BY TailParts, SeqParts
<1>2. /\ Numbers(Tail(q)) \in Seq(Nat) /\ Len(Numbers(Tail(q))) = Len(q) - 1
      /\ \A i \in 1 .. Len(q) - 1 : Numbers(Tail(q))[i] = Tail(q)[i].n
  BY <1>1, NumbersIs
<1>3. /\ Numbers(q) \in Seq(Nat) /\ Len(Numbers(q)) = Len(q)
      /\ \A i \in 1 .. Len(q) : Numbers(q)[i] = q[i].n
  BY NumbersIs
<1> DEFINE r == Numbers(q)
           t == Numbers(Tail(q))
           m == Len(q)
<1>4. r # <<>>
  <2>1. Len(r) # 0
    BY <1>1, <1>3
  <2> HIDE DEF r
  <2> QED  BY <2>1, EmptySeq
<1> HIDE DEF r, t, m
<1>5. /\ Tail(r) \in Seq(Nat) /\ Len(Tail(r)) = m - 1
      /\ \A i \in 1 .. m - 1 : Tail(r)[i] = r[i + 1]
      /\ Head(r) = r[1]
  <2>1. r \in Seq(Nat) /\ Len(r) = m
    BY <1>3 DEF r, m
  <2> QED  BY <1>4, <2>1, TailParts
<1>6. \A i \in 1 .. m - 1 : t[i] = Tail(r)[i]
  <2>1. \A i \in 1 .. m - 1 : /\ i + 1 \in 1 .. m /\ t[i] = Tail(q)[i].n
                              /\ Tail(q)[i] = q[i + 1]
    BY <1>1, <1>2 DEF t, m
  <2>2. \A i \in 1 .. m : r[i] = q[i].n
    BY <1>3 DEF r, m
  <2> QED  BY <1>5, <2>1, <2>2
<1>7. t \in Seq(Nat) /\ Len(t) = m - 1
  BY <1>2 DEF t, m
<1>8. t = Tail(r)
  BY <1>5, <1>6, <1>7, SeqEqual
<1>9. Head(r) = Head(q).n
  BY <1>1, <1>3, <1>5 DEF r
<1> QED  BY <1>4, <1>8, <1>9 DEF t, r

Pending == [u \in Users |-> Numbers(queue[u])]

LEMMA PendingJoined ==
  ASSUME Disk, Joins
  PROVE  Pending' = [Pending EXCEPT ![user] = Append(@, written + 1)]
<1>1. /\ user \in Users /\ queue[user] \in Seq(Batch)
      /\ NewBatch \in Batch /\ NewBatch.n = written + 1
      /\ queue'[user] = Append(queue[user], NewBatch)
      /\ \A u \in Users : u # user => queue'[u] = queue[u]
  BY QueueJoined DEF Disk
<1>2. Numbers(queue'[user]) = Append(Numbers(queue[user]), written + 1)
  BY <1>1, NumbersAppend
<1> QED  BY <1>1, <1>2 DEF Pending

LEMMA PendingSettled ==
  ASSUME Disk, NEW b, FirstSettled(b)
  PROVE  /\ Pending[user] # <<>> /\ Head(Pending[user]) = b.n
         /\ Pending' = [Pending EXCEPT ![user] = Tail(@)]
<1>1. /\ user \in Users /\ queue[user] \in Seq(Batch) /\ queue[user] # <<>>
      /\ b = Head(queue[user])
      /\ queue'[user] = Tail(queue[user])
      /\ \A u \in Users : u # user => queue'[u] = queue[u]
  BY QueueSettled DEF Disk, FirstSettled
<1>2. /\ Numbers(queue'[user]) = Tail(Numbers(queue[user])) /\ Numbers(queue[user]) # <<>>
      /\ Head(Numbers(queue[user])) = b.n
  BY <1>1, NumbersTail
<1> QED  BY <1>1, <1>2 DEF Pending

LEMMA InitOutbox ==
  ASSUME Init
  PROVE  Promise!OutboxInit
<1>1. Numbers(<<>>) = <<>>
  <2>1. <<>> \in Seq(Batch) /\ Len(<<>>) = 0
    BY EmptySeq
  <2>2. Numbers(<<>>) \in Seq(Nat) /\ Len(Numbers(<<>>)) = 0
    BY <2>1, NumbersIs
  <2> QED  BY <2>2, SeqParts
<1> QED  BY <1>1 DEF Init, Promise!OutboxInit

LEMMA WriteSubmits ==
  ASSUME IInv, Write
  PROVE  \E u \in Users : \E w \in Writes : Promise!Submit(u, w)
<1>1. Joins
  BY DEF Write, Joins, NewBatch, serverVars
<1>2. Disk /\ Past /\ user \in Users /\ written \in Nat /\ MaxWrites \in Nat
  BY WritesAssumption DEF IInv, Disk
<1>3. written + 1 \in Writes
  <2>1. written < MaxWrites
    BY DEF Write
  <2> QED  BY <1>2, <2>1 DEF Writes
<1>4. ASSUME NEW v \in Users, NEW i \in DOMAIN Pending[v]  PROVE Pending[v][i] # written + 1
  <2>1. Pending[v] = Numbers(queue[v]) /\ DOMAIN Pending[v] = DOMAIN queue[v]
    BY DEF Pending, Numbers
  <2>2. i \in 1 .. Len(queue[v])
    BY <1>2, <2>1, QueueParts
  <2>3. queue[v][i].n \in Nat /\ queue[v][i].n <= written
    BY <1>2, <2>2, QueueParts
  <2>4. Pending[v][i] = queue[v][i].n
    BY <2>1 DEF Numbers
  <2> QED  BY <1>2, <2>3, <2>4
<1>5. ASSUME NEW v \in Users  PROVE written + 1 \notin confirmed[v] \cup refused[v]
  <2>1. \A n \in confirmed[v] \cup refused[v] : n <= written
    BY <1>2 DEF Past
  <2> QED  BY <1>2, <2>1
<1>6. ~Promise!Known(written + 1)
  BY <1>4, <1>5 DEF Promise!Known, Pending
<1>7. Pending' = [Pending EXCEPT ![user] = Append(@, written + 1)]
  BY <1>1, <1>2, PendingJoined
<1>8. Promise!Submit(user, written + 1)
  BY <1>1, <1>6, <1>7 DEF Promise!Submit, Pending, Joins
<1> QED  BY <1>2, <1>3, <1>8

LEMMA AppliesInOrder ==
  ASSUME IInv, AppliesWrite
  PROVE  \E u \in Users : \E i \in DOMAIN Pending[u] : Promise!Apply(u, i)
<1> DEFINE k == Len(down)
<1>1. /\ handshake /\ user \in Users /\ ClientStays /\ k \in Nat
      /\ k + 1 \in DOMAIN queue[user] /\ Head(up) = queue[user][k + 1].n
      /\ \A i \in 1 .. k : i \in DOMAIN queue[user] /\ down[i].of = queue[user][i].n
      /\ applied' = [applied EXCEPT ![user] = @ \cup {Head(up)}]
  BY AppliesParts
<1>2. DOMAIN Pending[user] = DOMAIN queue[user]
      /\ \A i \in DOMAIN queue[user] : Pending[user][i] = queue[user][i].n
  BY <1>1 DEF Pending, Numbers
<1>3. \A j \in 1 .. k : Pending[user][j] \in applied[user]
  <2>1. \A j \in 1 .. k : down[j].of \in applied[user]
    BY <1>1 DEF IInv, Serving
  <2> QED  BY <1>1, <1>2, <2>1
<1> HIDE DEF k
<1>4. \A j \in 1 .. (k + 1) - 1 : Pending[user][j] \in applied[user]
  <2>1. (k + 1) - 1 = k
    BY <1>1
  <2> QED  BY <1>3, <2>1
<1>5. applied' = [applied EXCEPT ![user] = @ \cup {Pending[user][k + 1]}]
  BY <1>1, <1>2
<1>6. Pending' = Pending /\ confirmed' = confirmed /\ refused' = refused
  BY <1>1 DEF ClientStays, Pending
<1>7. Promise!Apply(user, k + 1)
  BY <1>4, <1>5, <1>6 DEF Promise!Apply, Pending
<1> QED  BY <1>1, <1>2, <1>7

LEMMA ResultConfirms ==
  ASSUME IInv, MutationResult
  PROVE  \E u \in Users : Promise!Confirm(u)
<1> DEFINE b == Head(pipeline)
<1>1. FirstSettled(b)
  BY ResultSettles
<1>2. user \in Users /\ b.n \in applied[user]
  BY Now, AnswerFits DEF MutationResult
<1>3. /\ confirmed' = [confirmed EXCEPT ![user] = @ \cup {b.n}]
      /\ refused' = refused /\ applied' = applied
  BY DEF MutationResult, serverVars
<1> HIDE DEF b
<1>4. /\ Pending[user] # <<>> /\ Head(Pending[user]) = b.n
      /\ Pending' = [Pending EXCEPT ![user] = Tail(@)]
  BY <1>1, PendingSettled DEF IInv
<1>5. Promise!Confirm(user)
  BY <1>2, <1>3, <1>4 DEF Promise!Confirm, Pending
<1> QED  BY <1>2, <1>5

Still == UNCHANGED <<queue, applied, confirmed, refused>>

LEMMA CloseRefuses ==
  ASSUME IInv, NEW status, NEW tk \in Tokens \cup {NoToken}, StreamCloses(status, tk),
         Started(state), faults' \in Nat
  PROVE  (\E u \in Users : Promise!Refuse(u)) \/ Still
<1>1. CASE Refused(status)
  <2> DEFINE b == Head(pipeline)
  <2>1. FirstSettled(b) /\ user \in Users
    BY <1>1, CloseIs, Now
  <2>2. /\ refused' = [refused EXCEPT ![user] = @ \cup {b.n}]
        /\ confirmed' = confirmed /\ applied' = applied
    BY <1>1 DEF StreamCloses, Refused, serverVars
  <2> HIDE DEF b
  <2>3. /\ Pending[user] # <<>> /\ Head(Pending[user]) = b.n
        /\ Pending' = [Pending EXCEPT ![user] = Tail(@)]
    BY <2>1, PendingSettled DEF IInv
  <2>4. Promise!Refuse(user)
    BY <2>2, <2>3 DEF Promise!Refuse, Pending
  <2> QED  BY <2>1, <2>4
<1>2. CASE ~Refused(status)
  BY <1>2, CloseIs DEF QueuesStay, Still
<1> QED  BY <1>1, <1>2

LEMMA NextOutbox ==
  ASSUME IInv, [Next]_vars
  PROVE  [Promise!OutboxNext]_(Promise!outboxVars)
<1>1. ASSUME Still  PROVE UNCHANGED Promise!outboxVars
  BY <1>1 DEF Still, Promise!outboxVars
<1>2. ASSUME \E u \in Users : Promise!Refuse(u)  PROVE Promise!OutboxNext
  BY <1>2 DEF Promise!OutboxNext
<1>3. ASSUME TokenFails \/ ConnectionLost \/ StatusArrives \/ GarbledAnswer
      PROVE  (\E u \in Users : Promise!Refuse(u)) \/ Still
  BY <1>3, ClosingSteps, CloseRefuses
<1>4. CASE Write \/ WaitForPendingWrites
  <2>1. CASE Write
    BY <2>1, WriteSubmits DEF Promise!OutboxNext
  <2>2. CASE WaitForPendingWrites
    <3>1. Still
      BY <2>2 DEF WaitForPendingWrites, diskVars, serverVars, Still
    <3> QED  BY <1>1, <3>1
  <2> QED  BY <1>4, <2>1, <2>2
<1>5. CASE Progress
  <2>1. CASE MutationResult
    BY <2>1, ResultConfirms DEF Promise!OutboxNext
  <2>2. CASE StatusArrives
    BY <1>1, <1>2, <1>3, <2>2
  <2>3. CASE TokenArrives \/ BackoffElapsed \/ HandshakeComplete \/ AnswersHandshake
    <3>1. Still
      BY <2>3 DEF TokenArrives, BackoffElapsed, HandshakeComplete, AnswersHandshake, serverFrame,
                  appVars, diskVars, serverVars, Still
    <3> QED  BY <1>1, <3>1
  <2>4. CASE AppliesWrite
    <3>1. \E u \in Users : \E i \in DOMAIN [v \in Users |-> Numbers(queue[v])][u] :
            Promise!Apply(u, i)
      BY <2>4, AppliesInOrder DEF Pending
    <3> QED  BY <3>1 DEF Promise!OutboxNext
  <2> QED  BY <1>5, <2>1, <2>2, <2>3, <2>4 DEF Progress
<1>6. CASE TokenFails \/ ConnectionLost \/ GarbledAnswer
  BY <1>1, <1>2, <1>3, <1>6
<1>7. CASE ClosesStream \/ IdleTimeout \/ DisableNetwork \/ EnableNetwork \/ ConnectivityChanges
  <2>1. Still
    BY <1>7 DEF ClosesStream, IdleTimeout, DisableNetwork, EnableNetwork, ConnectivityChanges,
                serverFrame, appVars, diskVars, serverVars, Still
  <2> QED  BY <1>1, <2>1
<1>8. CASE \E u \in Users : CredentialChanges(u) \/ CrashAndRestart(u)
  <2>1. Still
    BY <1>8 DEF CredentialChanges, CrashAndRestart, serverVars, Still
  <2> QED  BY <1>1, <2>1
<1>9. CASE UNCHANGED vars
  <2>1. Still
    BY <1>9 DEF vars, diskVars, appVars, serverVars, Still
  <2> QED  BY <1>1, <2>1
<1> QED  BY <1>4, <1>5, <1>6, <1>7, <1>8, <1>9 DEF Next

(* The client keeps the promise of the Outbox: a write stays in its user's   *)
(* queue until it is applied or refused, and a queue is applied in its order,*)
(* through crashes, lost connections and changes of the user.                *)
THEOREM OutboxKept == Spec => KeepsPromise
<1>1. Init => Promise!OutboxInit
  BY InitOutbox
<1>2. IInv /\ [Next]_vars => [Promise!OutboxNext]_(Promise!outboxVars)
  BY NextOutbox
<1> QED  BY <1>1, <1>2, WritesInvariant, PTL DEF Spec, KeepsPromise, Promise!OutboxSpec
=============================================================================
