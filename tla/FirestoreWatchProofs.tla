------------------------ MODULE FirestoreWatchProofs ------------------------
(* Theorems about FirestoreWatch, for any targets and bounds: the answers    *)
(* due are counted right, the server is brought to watch what the client     *)
(* listens to, and the app is told the truth about the server.               *)
EXTENDS FirestoreWatch, TLAPS, SequenceTheorems, FiniteSetTheorems

-----------------------------------------------------------------------------
(* The inductive invariant.  Its parts speak of a stream by its requests u,  *)
(* its messages d and the counts f.                                          *)

Asks == {"listen", "unlisten"}
Asking == [kind : Asks, target : Targets]
Kinds == Answers \cup WithCause \cup {"changes", "filter", "snapshot"}
Message == [kind : Kinds, target : Targets \cup {NoTarget}]

(* The places in s of what is of a kind in K and about the target t.         *)
Places(s, K, t) == {i \in DOMAIN s : s[i].target = t /\ s[i].kind \in K}
Num(s, K, t) == Cardinality(Places(s, K, t))
Of(f, t) == IF t \in DOMAIN f THEN f[t] ELSE 0
Mentions(u, t) == Num(u, Asks, t) # 0
CauseIn(d, t) == Num(d, WithCause, t) # 0

(* The last request for t is a listen if and only if b.                      *)
LastSays(u, t, b) ==
  \A i \in DOMAIN u :
    u[i].target = t /\ (\A j \in DOMAIN u : j > i => u[j].target # t) =>
      (u[i].kind = "listen" <=> b)

Onlines == [state : {"Unknown", "Online", "Offline"}, timer : BOOLEAN, failures : Nat]
CountsOK(f) == DOMAIN f \subseteq Targets /\ Range(f) \subseteq Int
TargetsOK(T) == T \subseteq Targets /\ IsFiniteSet(T)
DownOK(d) ==
  d \in Seq(Message) /\ \A i \in DOMAIN d : d[i].kind # "snapshot" => d[i].target \in Targets

Typed == TypeOK /\ TargetsOK(targets) /\ DownOK(down)

Counting ==
  state = "Open" => \A t \in Targets \ miscounted :
                      Of(outstanding, t) = Num(up, Asks, t) + Num(down, Answers, t)

(* What the server will watch of t when it has the requests: what the client *)
(* listens to, unless a cause is on its way.                                 *)
Agrees(u, d, W, T, t) ==
  /\ LastSays(u, t, t \in T)
  /\ ~Mentions(u, t) => /\ t \in W => t \in T
                        /\ t \in T => t \in W \/ CauseIn(d, t)

Following ==
  state = "Open" => \A t \in Targets \ miscounted : Agrees(up, down, watched, targets, t)

(* The server watches a target again only after an answer it sent behind the *)
(* cause.                                                                    *)
Renews(d, W) ==
  \A t \in W : \A i \in DOMAIN d :
    d[i].target = t /\ d[i].kind \in WithCause =>
      \E j \in DOMAIN d : j > i /\ d[j].target = t /\ d[j].kind = "added"

Tracked ==
  /\ online.state = "Online" => state = "Open" /\ heard /\ online.failures = 0
  /\ online.timer => online.state = "Unknown" /\ Started(state)
  /\ network /\ Started(state) /\ online.state = "Unknown" => online.timer \/ untimed
  /\ ~Started(state) => online.failures = 0
  /\ idle => state = "Open" /\ targets = {}

Watching == Typed /\ Counting /\ Following /\ Renews(down, watched)

IInv == Watching /\ Tracked

-----------------------------------------------------------------------------
(* Sequences.                                                                *)

LEMMA SeqParts ==
  ASSUME NEW S, NEW q \in Seq(S)
  PROVE  /\ Len(q) \in Nat /\ DOMAIN q = 1 .. Len(q)
         /\ \A i \in 1 .. Len(q) : q[i] \in S
         /\ q # <<>> <=> Len(q) # 0
<1>1. Len(q) \in Nat /\ DOMAIN q = 1 .. Len(q)
  BY LenProperties
<1>2. \A i \in 1 .. Len(q) : q[i] \in S
  BY ElementOfSeq
<1>3. q # <<>> <=> Len(q) # 0
  BY EmptySeq
<1> QED  BY <1>1, <1>2, <1>3

LEMMA FunctionIsSeq ==
  ASSUME NEW S, NEW n \in Nat, NEW f \in [1 .. n -> S]
  PROVE  f \in Seq(S) /\ Len(f) = n
<1>1. f \in Seq(S)
  BY SeqDef
<1>2. Len(f) \in Nat /\ 1 .. Len(f) = 1 .. n
  BY <1>1, SeqParts
<1> DEFINE a == Len(f)
<1>3. a \in Nat /\ 1 .. a = 1 .. n
  BY <1>2
<1> HIDE DEF a
<1>4. ~(a < n)
  <2>1. ASSUME a < n  PROVE FALSE
    <3>1. n \in 1 .. n /\ n \notin 1 .. a
      BY <1>3, <2>1
    <3> QED  BY <1>3, <3>1
  <2> QED  BY <2>1
<1>5. ~(n < a)
  <2>1. ASSUME n < a  PROVE FALSE
    <3>1. a \in 1 .. a /\ a \notin 1 .. n
      BY <1>3, <2>1
    <3> QED  BY <1>3, <3>1
  <2> QED  BY <2>1
<1>6. a = n
  BY <1>3, <1>4, <1>5
<1> QED  BY <1>1, <1>6 DEF a

LEMMA Singles ==
  ASSUME NEW S, NEW e \in S
  PROVE  <<e>> \in Seq(S) /\ Len(<<e>>) = 1 /\ <<e>>[1] = e /\ DOMAIN <<e>> = 1 .. 1
OBVIOUS

LEMMA HeadAndTail ==
  ASSUME NEW S, NEW s \in Seq(S), s # <<>>
  PROVE  /\ Head(s) \in S /\ Tail(s) \in Seq(S)
         /\ s = <<Head(s)>> \o Tail(s)
<1> DEFINE h == Head(s)
           r == Tail(s)
           n == Len(s)
<1>1. h \in S /\ r \in Seq(S) /\ Len(r) = n - 1 /\ \A i \in 1 .. Len(r) : r[i] = s[i + 1]
  BY HeadTailProperties
<1>2. n \in Nat /\ n # 0 /\ h = s[1]
  BY SeqParts
<1> HIDE DEF h, r, n
<1>3. <<h>> \in Seq(S) /\ Len(<<h>>) = 1 /\ <<h>>[1] = h
  BY <1>1, Singles
<1>4. /\ <<h>> \o r \in Seq(S) /\ Len(<<h>> \o r) = 1 + Len(r)
      /\ \A i \in 1 .. 1 + Len(r) : (<<h>> \o r)[i] = IF i <= 1 THEN <<h>>[i] ELSE r[i - 1]
  BY <1>1, <1>3, ConcatProperties
<1>5. Len(<<h>> \o r) = n
  BY <1>1, <1>2, <1>4
<1>6. ASSUME NEW i \in 1 .. n  PROVE (<<h>> \o r)[i] = s[i]
  <2>1. (<<h>> \o r)[i] = IF i <= 1 THEN <<h>>[i] ELSE r[i - 1]
    BY <1>1, <1>2, <1>4
  <2>2. CASE i = 1
    BY <1>2, <1>3, <2>1, <2>2
  <2>3. CASE i # 1
    <3>1. i - 1 \in 1 .. Len(r) /\ ~(i <= 1) /\ (i - 1) + 1 = i
      BY <1>1, <1>2, <2>3
    <3> QED  BY <1>1, <2>1, <3>1
  <2> QED  BY <2>2, <2>3
<1>7. s = <<h>> \o r
  BY <1>4, <1>5, <1>6, SeqEqual DEF n
<1> QED  BY <1>1, <1>7 DEF h, r

(* The places in a sequence that is put together.                            *)
LEMMA ConcatPlaces ==
  ASSUME NEW S, NEW a \in Seq(S), NEW b \in Seq(S)
  PROVE  /\ a \o b \in Seq(S)
         /\ Len(a) \in Nat /\ Len(b) \in Nat
         /\ DOMAIN a = 1 .. Len(a) /\ DOMAIN b = 1 .. Len(b)
         /\ DOMAIN (a \o b) = 1 .. Len(a) + Len(b)
         /\ \A i \in DOMAIN a : i \in DOMAIN (a \o b) /\ (a \o b)[i] = a[i]
         /\ \A i \in DOMAIN b : /\ Len(a) + i \in DOMAIN (a \o b)
                                /\ (a \o b)[Len(a) + i] = b[i]
         /\ \A i \in DOMAIN (a \o b) : i \in DOMAIN a \/ i - Len(a) \in DOMAIN b
<1> DEFINE m == Len(a)
           n == Len(b)
           c == a \o b
<1>1. m \in Nat /\ n \in Nat /\ DOMAIN a = 1 .. m /\ DOMAIN b = 1 .. n
  BY SeqParts
<1>2. /\ c \in Seq(S) /\ Len(c) = m + n
      /\ \A i \in 1 .. m + n : c[i] = IF i <= m THEN a[i] ELSE b[i - m]
  BY ConcatProperties
<1>3. DOMAIN c = 1 .. m + n
  BY <1>2, SeqParts
<1> HIDE DEF m, n, c
<1>4. \A i \in DOMAIN a : i \in DOMAIN c /\ c[i] = a[i]
  <2>1. ASSUME NEW i \in 1 .. m  PROVE i \in 1 .. m + n /\ i <= m
    BY <1>1
  <2> QED  BY <1>1, <1>2, <1>3, <2>1
<1>5. \A i \in DOMAIN b : m + i \in DOMAIN c /\ c[m + i] = b[i]
  <2>1. ASSUME NEW i \in 1 .. n  PROVE m + i \in 1 .. m + n /\ ~(m + i <= m) /\ (m + i) - m = i
    BY <1>1
  <2>2. ASSUME NEW i \in 1 .. n  PROVE c[m + i] = b[i]
    <3>1. c[m + i] = IF m + i <= m THEN a[m + i] ELSE b[(m + i) - m]
      BY <1>2, <2>1
    <3> QED  BY <2>1, <3>1
  <2> QED  BY <1>1, <1>3, <2>1, <2>2
<1>6. \A i \in DOMAIN c : i \in DOMAIN a \/ i - m \in DOMAIN b
  <2>1. ASSUME NEW i \in 1 .. m + n  PROVE i \in 1 .. m \/ i - m \in 1 .. n
    BY <1>1
  <2> QED  BY <1>1, <1>3, <2>1
<1> QED  BY <1>1, <1>2, <1>3, <1>4, <1>5, <1>6 DEF m, n, c

-----------------------------------------------------------------------------
(* How many there are of a kind.                                             *)

LEMMA NumNat ==
  ASSUME NEW S, NEW s \in Seq(S), NEW K, NEW t
  PROVE  /\ IsFiniteSet(Places(s, K, t)) /\ Num(s, K, t) \in Nat
         /\ Num(s, K, t) = 0 <=> \A i \in DOMAIN s : ~(s[i].target = t /\ s[i].kind \in K)
<1>1. Places(s, K, t) \subseteq 1 .. Len(s) /\ Len(s) \in Nat
  BY SeqParts DEF Places
<1>2. IsFiniteSet(1 .. Len(s))
  BY <1>1, FS_Interval
<1>3. IsFiniteSet(Places(s, K, t))
  BY <1>1, <1>2, FS_Subset
<1>4. Num(s, K, t) \in Nat
  BY <1>3, FS_CardinalityType DEF Num
<1>5. Num(s, K, t) = 0 <=> Places(s, K, t) = {}
  BY <1>3, FS_EmptySet DEF Num
<1>6. Places(s, K, t) = {} <=> \A i \in DOMAIN s : ~(s[i].target = t /\ s[i].kind \in K)
  BY DEF Places
<1> QED  BY <1>3, <1>4, <1>5, <1>6

LEMMA ShiftCard ==
  ASSUME NEW P, IsFiniteSet(P), P \subseteq Nat, NEW n \in Nat
  PROVE  IsFiniteSet({n + i : i \in P}) /\ Cardinality({n + i : i \in P}) = Cardinality(P)
<1> DEFINE Q == {n + i : i \in P}
           f == [i \in P |-> n + i]
<1>1. f \in [P -> Q]
  OBVIOUS
<1>2. \A x, y \in P : f[x] = f[y] => x = y
  <2>1. ASSUME NEW x \in P, NEW y \in P, n + x = n + y  PROVE x = y
    BY <2>1
  <2> QED  BY <2>1
<1>3. \A y \in Q : \E x \in P : f[x] = y
  OBVIOUS
<1>4. DOMAIN f = P
  OBVIOUS
<1> HIDE DEF f, Q
<1>5. f \in Injection(P, Q) /\ f \in Surjection(P, Q)
  BY <1>1, <1>2, <1>3, <1>4 DEF Injection, IsInjective, Surjection
<1>6. IsFiniteSet(Q) /\ Cardinality(Q) = Cardinality(P)
  BY <1>5, FS_Surjection
<1> QED  BY <1>6 DEF Q

LEMMA NumConcat ==
  ASSUME NEW S, NEW a \in Seq(S), NEW b \in Seq(S), NEW K, NEW t
  PROVE  Num(a \o b, K, t) = Num(a, K, t) + Num(b, K, t)
<1> DEFINE A == Places(a, K, t)
           B == Places(b, K, t)
           C == Places(a \o b, K, t)
           m == Len(a)
           D == {m + i : i \in B}
<1>1. IsFiniteSet(A) /\ IsFiniteSet(B) /\ Cardinality(A) \in Nat /\ Cardinality(B) \in Nat
  BY NumNat DEF Num
<1>2. m \in Nat /\ A \subseteq 1 .. m /\ B \subseteq Nat /\ \A i \in B : 1 <= i
  <2>1. m \in Nat /\ Len(b) \in Nat /\ DOMAIN a = 1 .. m /\ DOMAIN b = 1 .. Len(b)
    BY SeqParts
  <2>2. A \subseteq DOMAIN a /\ B \subseteq DOMAIN b
    BY DEF Places
  <2> QED  BY <2>1, <2>2
<1>3. C \subseteq A \cup D
  <2>1. ASSUME NEW i \in C  PROVE i \in A \cup D
    <3>1. i \in DOMAIN (a \o b) /\ (a \o b)[i].target = t /\ (a \o b)[i].kind \in K
      BY <2>1 DEF Places
    <3>2. CASE i \in DOMAIN a
      <4>1. (a \o b)[i] = a[i]
        BY <3>2, ConcatPlaces
      <4> QED  BY <3>1, <3>2, <4>1 DEF Places
    <3>3. CASE i - m \in DOMAIN b
      <4>1. i \in Int
        <5>1. DOMAIN (a \o b) = 1 .. Len(a) + Len(b) /\ Len(a) \in Nat /\ Len(b) \in Nat
          BY ConcatPlaces
        <5> QED  BY <3>1, <5>1
      <4>2. (a \o b)[m + (i - m)] = b[i - m]
        BY <3>3, ConcatPlaces
      <4>3. m + (i - m) = i
        BY <1>2, <4>1
      <4>4. i - m \in B
        BY <3>1, <3>3, <4>2, <4>3 DEF Places
      <4> QED  BY <4>3, <4>4
    <3> QED  BY <3>1, <3>2, <3>3, ConcatPlaces
  <2> QED  BY <2>1
<1>4. A \subseteq C
  <2>1. ASSUME NEW i \in A  PROVE i \in C
    <3>1. i \in DOMAIN a /\ a[i].target = t /\ a[i].kind \in K
      BY <2>1 DEF Places
    <3>2. i \in DOMAIN (a \o b) /\ (a \o b)[i] = a[i]
      BY <3>1, ConcatPlaces
    <3> QED  BY <3>1, <3>2 DEF Places
  <2> QED  BY <2>1
<1>5. D \subseteq C
  <2>1. ASSUME NEW i \in B  PROVE m + i \in C
    <3>1. i \in DOMAIN b /\ b[i].target = t /\ b[i].kind \in K
      BY <2>1 DEF Places
    <3>2. m + i \in DOMAIN (a \o b) /\ (a \o b)[m + i] = b[i]
      BY <3>1, ConcatPlaces
    <3> QED  BY <3>1, <3>2 DEF Places
  <2> QED  BY <2>1
<1>6. IsFiniteSet(D) /\ Cardinality(D) = Cardinality(B)
  BY <1>1, <1>2, ShiftCard
<1>7. A \cap D = {}
  <2>1. ASSUME NEW i \in B  PROVE m + i \notin 1 .. m
    BY <1>2, <2>1
  <2> QED  BY <1>2, <2>1
<1>8. C = A \cup D
  BY <1>3, <1>4, <1>5
<1> HIDE DEF A, B, C, D, m
<1>9. Cardinality(C) = Cardinality(A) + Cardinality(D) - 0
  BY <1>1, <1>6, <1>7, <1>8, FS_Union, FS_EmptySet
<1>10. Cardinality(C) = Cardinality(A) + Cardinality(B)
  BY <1>1, <1>6, <1>9
<1> QED  BY <1>10 DEF Num, A, B, C

(* One of the kind K about t, or none.                                       *)
One(e, K, t) == IF e.target = t /\ e.kind \in K THEN 1 ELSE 0

LEMMA NumSingle ==
  ASSUME NEW S, NEW e \in S, NEW K, NEW t
  PROVE  Num(<<e>>, K, t) = One(e, K, t)
<1>1. DOMAIN <<e>> = {1} /\ <<e>>[1] = e
  OBVIOUS
<1>2. CASE e.target = t /\ e.kind \in K
  <2>1. Places(<<e>>, K, t) = {1}
    BY <1>1, <1>2 DEF Places
  <2> QED  BY <1>2, <2>1, FS_Singleton DEF Num, One
<1>3. CASE ~(e.target = t /\ e.kind \in K)
  <2>1. Places(<<e>>, K, t) = {}
    BY <1>1, <1>3 DEF Places
  <2> QED  BY <1>3, <2>1, FS_EmptySet DEF Num, One
<1> QED  BY <1>2, <1>3

LEMMA NumAppend ==
  ASSUME NEW S, NEW s \in Seq(S), NEW e \in S, NEW K, NEW t
  PROVE  Num(Append(s, e), K, t) = Num(s, K, t) + One(e, K, t)
<1> DEFINE d == <<e>>
<1>1. Append(s, e) = s \o d /\ d \in Seq(S)
  BY AppendIsConcat, Singles
<1>2. Num(d, K, t) = One(e, K, t)
  BY NumSingle
<1> HIDE DEF d
<1>3. Num(s \o d, K, t) = Num(s, K, t) + Num(d, K, t)
  BY <1>1, NumConcat
<1> QED  BY <1>1, <1>2, <1>3

LEMMA NumTail ==
  ASSUME NEW S, NEW s \in Seq(S), s # <<>>, NEW K, NEW t
  PROVE  Num(s, K, t) = Num(Tail(s), K, t) + One(Head(s), K, t)
<1> DEFINE h == Head(s)
           d == <<h>>
           r == Tail(s)
<1>1. h \in S /\ r \in Seq(S) /\ s = d \o r
  BY HeadAndTail
<1>2. d \in Seq(S)
  BY <1>1, Singles
<1>3. Num(d, K, t) = One(h, K, t)
  BY <1>1, NumSingle
<1> HIDE DEF d, r
<1>4. Num(d \o r, K, t) = Num(d, K, t) + Num(r, K, t)
  BY <1>1, <1>2, NumConcat
<1>5. Num(r, K, t) \in Nat /\ One(h, K, t) \in Nat
  BY <1>1, NumNat DEF One
<1>6. Num(s, K, t) = Num(r, K, t) + One(h, K, t)
  BY <1>1, <1>3, <1>4, <1>5
<1> QED  BY <1>6 DEF r

LEMMA NumEmpty ==
  ASSUME NEW K, NEW t
  PROVE  Num(<<>>, K, t) = 0
<1>1. Places(<<>>, K, t) = {}
  BY DEF Places
<1> QED  BY <1>1, FS_EmptySet DEF Num

-----------------------------------------------------------------------------
(* The last request for a target.                                            *)

LEMMA MentionsMeans ==
  ASSUME NEW u \in Seq(Asking), NEW t
  PROVE  Mentions(u, t) <=> \E i \in DOMAIN u : u[i].target = t
<1>1. \A i \in DOMAIN u : u[i].kind \in Asks
  <2>1. DOMAIN u = 1 .. Len(u) /\ \A i \in 1 .. Len(u) : u[i] \in Asking
    BY SeqParts
  <2> QED  BY <2>1 DEF Asking
<1>2. Num(u, Asks, t) = 0 <=> \A i \in DOMAIN u : ~(u[i].target = t /\ u[i].kind \in Asks)
  BY NumNat
<1> QED  BY <1>1, <1>2 DEF Mentions

LEMMA LastConcat ==
  ASSUME NEW a \in Seq(Asking), NEW b \in Seq(Asking), NEW t, NEW v,
         LastSays(b, t, v), Mentions(b, t) \/ LastSays(a, t, v)
  PROVE  LastSays(a \o b, t, v)
<1> DEFINE c == a \o b
           m == Len(a)
<1>1. /\ m \in Nat /\ Len(b) \in Nat
      /\ DOMAIN a = 1 .. m /\ DOMAIN b = 1 .. Len(b) /\ DOMAIN c = 1 .. m + Len(b)
      /\ \A i \in DOMAIN a : i \in DOMAIN c /\ c[i] = a[i]
      /\ \A i \in DOMAIN b : m + i \in DOMAIN c /\ c[m + i] = b[i]
      /\ \A i \in DOMAIN c : i \in DOMAIN a \/ i - m \in DOMAIN b
  BY ConcatPlaces
<1>2. Mentions(b, t) => \E i \in DOMAIN b : b[i].target = t
  BY MentionsMeans
<1> HIDE DEF c, m
<1>3. ASSUME NEW i \in DOMAIN c, c[i].target = t,
             \A j \in DOMAIN c : j > i => c[j].target # t
      PROVE  c[i].kind = "listen" <=> v
  <2>1. CASE i - m \in DOMAIN b
    <3>1. m + (i - m) = i /\ c[m + (i - m)] = b[i - m]
      BY <1>1, <2>1
    <3>2. ASSUME NEW j \in DOMAIN b, j > i - m  PROVE b[j].target # t
      <4>1. m + j \in DOMAIN c /\ m + j > i /\ c[m + j] = b[j]
        BY <1>1, <3>2
      <4> QED  BY <1>3, <4>1
    <3> QED  BY <1>3, <2>1, <3>1, <3>2 DEF LastSays
  <2>2. CASE i \in DOMAIN a
    <3>1. c[i] = a[i]
      BY <1>1, <2>2
    <3>2. ~Mentions(b, t)
      <4>1. ASSUME NEW j \in DOMAIN b, b[j].target = t  PROVE FALSE
        <5>1. m + j \in DOMAIN c /\ m + j > i /\ c[m + j] = b[j]
          BY <1>1, <2>2
        <5> QED  BY <1>3, <4>1, <5>1
      <4> QED  BY <1>2, <4>1
    <3>3. ASSUME NEW j \in DOMAIN a, j > i  PROVE a[j].target # t
      <4>1. j \in DOMAIN c /\ c[j] = a[j]
        BY <1>1
      <4> QED  BY <1>3, <3>3, <4>1
    <3> QED  BY <1>3, <2>2, <3>1, <3>2, <3>3 DEF LastSays
  <2> QED  BY <1>1, <2>1, <2>2
<1> QED  BY <1>3 DEF LastSays, c

LEMMA LastTail ==
  ASSUME NEW u \in Seq(Asking), u # <<>>, NEW t, NEW v, LastSays(u, t, v)
  PROVE  /\ LastSays(Tail(u), t, v)
         /\ Head(u).target = t /\ ~Mentions(Tail(u), t) => (Head(u).kind = "listen" <=> v)
<1> DEFINE h == Head(u)
           d == <<h>>
           r == Tail(u)
           c == d \o r
<1>1. h \in Asking /\ r \in Seq(Asking) /\ u = c
  BY HeadAndTail
<1>2. d \in Seq(Asking) /\ Len(d) = 1 /\ d[1] = h /\ DOMAIN d = 1 .. 1
  BY <1>1, Singles
<1>3. Mentions(r, t) <=> \E i \in DOMAIN r : r[i].target = t
  BY <1>1, MentionsMeans
<1> HIDE DEF h, d, r
<1>4. /\ Len(r) \in Nat /\ DOMAIN r = 1 .. Len(r) /\ DOMAIN c = 1 .. Len(d) + Len(r)
      /\ \A i \in DOMAIN d : i \in DOMAIN c /\ c[i] = d[i]
      /\ \A i \in DOMAIN r : Len(d) + i \in DOMAIN c /\ c[Len(d) + i] = r[i]
      /\ \A i \in DOMAIN c : i \in DOMAIN d \/ i - Len(d) \in DOMAIN r
  <2>1. d \in Seq(Asking) /\ r \in Seq(Asking)
    BY <1>1, <1>2
  <2> QED  BY <2>1, ConcatPlaces
<1> HIDE DEF c
<1>5. /\ Len(r) \in Nat /\ DOMAIN r = 1 .. Len(r) /\ DOMAIN c = 1 .. 1 + Len(r)
      /\ \A i \in DOMAIN d : i \in DOMAIN c /\ c[i] = d[i]
      /\ \A i \in DOMAIN r : 1 + i \in DOMAIN c /\ c[1 + i] = r[i]
      /\ \A i \in DOMAIN c : i \in DOMAIN d \/ i - 1 \in DOMAIN r
  <2>1. Len(d) = 1
    BY <1>2
  <2> QED  BY <1>4, <2>1
<1>6. LastSays(c, t, v)
  BY <1>1
<1>7. ASSUME NEW i \in DOMAIN r, r[i].target = t,
             \A j \in DOMAIN r : j > i => r[j].target # t
      PROVE  r[i].kind = "listen" <=> v
  <2>1. 1 + i \in DOMAIN c /\ c[1 + i] = r[i]
    BY <1>5
  <2>2. ASSUME NEW j \in DOMAIN c, j > 1 + i  PROVE c[j].target # t
    <3>1. j - 1 \in DOMAIN r /\ j - 1 > i /\ 1 + (j - 1) = j
      BY <1>2, <1>5, <2>2
    <3>2. c[1 + (j - 1)] = r[j - 1]
      BY <1>5, <3>1
    <3> QED  BY <1>7, <3>1, <3>2
  <2> QED  BY <1>6, <1>7, <2>1, <2>2 DEF LastSays
<1>8. ASSUME h.target = t, ~Mentions(r, t)  PROVE h.kind = "listen" <=> v
  <2>1. 1 \in DOMAIN c /\ c[1] = h
    BY <1>2, <1>5
  <2>2. ASSUME NEW j \in DOMAIN c, j > 1  PROVE c[j].target # t
    <3>1. j - 1 \in DOMAIN r /\ 1 + (j - 1) = j
      BY <1>2, <1>5, <2>2
    <3>2. c[1 + (j - 1)] = r[j - 1]
      BY <1>5, <3>1
    <3> QED  BY <1>3, <1>8, <3>1, <3>2
  <2> QED  BY <1>6, <1>8, <2>1, <2>2 DEF LastSays
<1>9. LastSays(r, t, v)
  BY <1>7 DEF LastSays
<1> QED  BY <1>8, <1>9 DEF h, r

-----------------------------------------------------------------------------
(* Watching again after a cause.                                             *)

LEMMA RenewsAppend ==
  ASSUME NEW d \in Seq(Message), NEW e \in Message, NEW W, NEW V, Renews(d, W),
         \A t \in V : t \in W \/ (e.kind = "added" /\ e.target = t),
         e.kind \in WithCause => e.target \notin V
  PROVE  Renews(Append(d, e), V)
<1> DEFINE c == Append(d, e)
           n == Len(d)
<1>1. /\ c \in Seq(Message) /\ Len(c) = n + 1
      /\ \A i \in 1 .. n : c[i] = d[i]
      /\ c[n + 1] = e
  BY AppendProperties
<1>2. n \in Nat /\ DOMAIN d = 1 .. n /\ DOMAIN c = 1 .. n + 1
  BY <1>1, SeqParts
<1> HIDE DEF c, n
<1>3. ASSUME NEW t \in V, NEW i \in DOMAIN c, c[i].target = t, c[i].kind \in WithCause
      PROVE  \E j \in DOMAIN c : j > i /\ c[j].target = t /\ c[j].kind = "added"
  <2>1. i # n + 1
    BY <1>1, <1>3
  <2>2. i \in DOMAIN d /\ c[i] = d[i]
    BY <1>1, <1>2, <2>1
  <2>3. CASE t \in W
    <3>1. PICK j \in DOMAIN d : j > i /\ d[j].target = t /\ d[j].kind = "added"
      BY <1>3, <2>2, <2>3 DEF Renews
    <3>2. j \in DOMAIN c /\ c[j] = d[j]
      BY <1>1, <1>2
    <3> QED  BY <3>1, <3>2
  <2>4. CASE t \notin W
    <3>1. n + 1 \in DOMAIN c /\ n + 1 > i /\ c[n + 1].target = t /\ c[n + 1].kind = "added"
      BY <1>1, <1>2, <2>2, <2>4
    <3> QED  BY <3>1
  <2> QED  BY <2>3, <2>4
<1> QED  BY <1>3 DEF Renews, c

LEMMA RenewsTail ==
  ASSUME NEW d \in Seq(Message), d # <<>>, NEW W, Renews(d, W)
  PROVE  /\ Renews(Tail(d), W)
         /\ Head(d).kind \in WithCause /\ Num(Tail(d), Answers, Head(d).target) = 0 =>
              Head(d).target \notin W
<1> DEFINE h == Head(d)
           r == Tail(d)
           n == Len(d)
<1>1. h \in Message /\ r \in Seq(Message) /\ Len(r) = n - 1 /\ \A i \in 1 .. Len(r) : r[i] = d[i + 1]
  BY HeadTailProperties
<1>2. n \in Nat /\ n # 0 /\ h = d[1] /\ DOMAIN d = 1 .. n
  BY SeqParts
<1>3. DOMAIN r = 1 .. n - 1
  BY <1>1, SeqParts
<1>4. Num(r, Answers, h.target) = 0 =>
        \A i \in DOMAIN r : ~(r[i].target = h.target /\ r[i].kind \in Answers)
  BY <1>1, NumNat
<1> HIDE DEF h, r, n
<1>5. ASSUME NEW t \in W, NEW i \in DOMAIN r, r[i].target = t, r[i].kind \in WithCause
      PROVE  \E j \in DOMAIN r : j > i /\ r[j].target = t /\ r[j].kind = "added"
  <2>1. i + 1 \in DOMAIN d /\ d[i + 1] = r[i]
    BY <1>1, <1>2, <1>3
  <2>2. PICK j \in DOMAIN d : j > i + 1 /\ d[j].target = t /\ d[j].kind = "added"
    BY <1>5, <2>1 DEF Renews
  <2>3. j - 1 \in DOMAIN r /\ j - 1 > i /\ (j - 1) + 1 = j
    BY <1>2, <1>3, <2>2
  <2>4. r[j - 1] = d[(j - 1) + 1]
    BY <1>1, <1>3, <2>3
  <2> QED  BY <2>2, <2>3, <2>4
<1>6. ASSUME h.kind \in WithCause, Num(r, Answers, h.target) = 0, h.target \in W
      PROVE  FALSE
  <2>1. 1 \in DOMAIN d /\ d[1] = h
    BY <1>2
  <2>2. PICK j \in DOMAIN d : j > 1 /\ d[j].target = h.target /\ d[j].kind = "added"
    BY <1>6, <2>1 DEF Renews
  <2>3. j - 1 \in DOMAIN r /\ (j - 1) + 1 = j
    BY <1>2, <1>3, <2>2
  <2>4. r[j - 1] = d[(j - 1) + 1]
    BY <1>1, <1>3, <2>3
  <2>5. "added" \in Answers
    BY DEF Answers
  <2> QED  BY <1>4, <1>6, <2>2, <2>3, <2>4, <2>5
<1> QED  BY <1>5, <1>6 DEF Renews, h, r

-----------------------------------------------------------------------------
(* The sequence of a set.                                                    *)

LEMMA SetToSeqIs ==
  ASSUME NEW S, IsFiniteSet(S)
  PROVE  /\ SetToSeq(S) \in Seq(S)
         /\ \A x \in S : \E i \in DOMAIN SetToSeq(S) : SetToSeq(S)[i] = x
         /\ \A i, j \in DOMAIN SetToSeq(S) : SetToSeq(S)[i] = SetToSeq(S)[j] => i = j
<1> DEFINE n == Cardinality(S)
           q == SetToSeq(S)
<1>1. n \in Nat /\ ExistsBijection(1 .. n, S)
  BY FS_CardinalityType
<1>2. \E f \in [1 .. n -> S] : IsInjective(f)
  BY <1>1 DEF ExistsBijection, Bijection, Injection
<1>3. q \in [1 .. n -> S] /\ IsInjective(q)
  BY <1>2 DEF SetToSeq
<1> HIDE DEF q
<1>4. q \in Injection(1 .. n, S) /\ DOMAIN q = 1 .. n
  BY <1>3 DEF Injection
<1>5. IsFiniteSet(1 .. n) /\ Cardinality(1 .. n) = n
  <2>1. IsFiniteSet(1 .. n) /\ Cardinality(1 .. n) = IF 1 > n THEN 0 ELSE n - 1 + 1
    BY <1>1, FS_Interval
  <2>2. (IF 1 > n THEN 0 ELSE n - 1 + 1) = n
    BY <1>1
  <2> QED  BY <2>1, <2>2
<1>6. q \in Surjection(1 .. n, S)
  BY <1>4, <1>5, FS_Injection
<1>7. q \in Seq(S)
  BY <1>1, <1>3, FunctionIsSeq
<1> QED  BY <1>3, <1>4, <1>6, <1>7 DEF q, IsInjective, Surjection

-----------------------------------------------------------------------------
(* The types.                                                                *)

States == {"Initial", "Starting", "Open", "Error", "Backoff"}

LEMMA TypedParts ==
  ASSUME Typed
  PROVE  /\ network \in BOOLEAN /\ idle \in BOOLEAN /\ untimed \in BOOLEAN
         /\ heard \in BOOLEAN
         /\ TargetsOK(targets) /\ targets \subseteq Targets /\ IsFiniteSet(targets)
         /\ state \in States /\ online \in Onlines
         /\ CountsOK(outstanding) /\ resets \subseteq Targets /\ watched \subseteq Targets
         /\ up \in Seq(Asking) /\ DownOK(down) /\ down \in Seq(Message)
         /\ \A t \in Targets : Of(outstanding, t) \in Int
<1>1. /\ network \in BOOLEAN /\ idle \in BOOLEAN /\ untimed \in BOOLEAN
      /\ heard \in BOOLEAN
      /\ targets \subseteq Targets /\ resets \subseteq Targets /\ watched \subseteq Targets
  BY DEF Typed, TypeOK
<1>2. state \in States /\ online \in Onlines
  BY DEF Typed, TypeOK, States, Onlines
<1>3. CountsOK(outstanding)
  BY DEF Typed, TypeOK, CountsOK
<1>4. up \in Seq(Asking)
  BY DEF Typed, TypeOK, Asking, Asks
<1>5. \A t \in Targets : Of(outstanding, t) \in Int
  BY <1>3 DEF CountsOK, Of, Range
<1> QED  BY <1>1, <1>2, <1>3, <1>4, <1>5 DEF Typed, TargetsOK, DownOK

LEMMA NotOpen ==
  ASSUME Typed, state # "Open"
  PROVE  /\ outstanding = <<>> /\ up = <<>> /\ down = <<>>
         /\ resets = {} /\ watched = {} /\ miscounted = {} /\ heard = FALSE
BY DEF Typed, TypeOK

LEMMA EmptyParts ==
  /\ CountsOK(<<>>) /\ DownOK(<<>>) /\ <<>> \in Seq(Asking)
  /\ \A t : Of(<<>>, t) = 0
<1>1. DOMAIN <<>> = {} /\ Range(<<>>) = {}
  BY DEF Range
<1>2. <<>> \in Seq(Asking) /\ <<>> \in Seq(Message)
  BY EmptySeq
<1> QED  BY <1>1, <1>2 DEF CountsOK, DownOK, Of

(* What is enough for the types after a step that leaves the stream open, or *)
(* opens it.                                                                 *)
LEMMA OpenTyped ==
  ASSUME state' = "Open", network' \in BOOLEAN, idle' \in BOOLEAN, untimed' \in BOOLEAN,
         TargetsOK(targets'), online' \in Onlines, CountsOK(outstanding'),
         resets' \subseteq Targets, watched' \subseteq Targets,
         up' \in Seq(Asking), DownOK(down'), heard' \in BOOLEAN
  PROVE  Typed'
<1>1. up' \in Seq([kind : {"listen", "unlisten"}, target : Targets])
  BY DEF Asking, Asks
<1>2. down' \in Seq([kind : Answers \cup WithCause \cup {"changes", "filter", "snapshot"},
                     target : Targets \cup {NoTarget}])
  BY DEF DownOK, Message, Kinds
<1>3. online' \in [state : {"Unknown", "Online", "Offline"}, timer : BOOLEAN, failures : Nat]
  BY DEF Onlines
<1>4. DOMAIN outstanding' \subseteq Targets /\ Range(outstanding') \subseteq Int
  BY DEF CountsOK
<1>5. TypeOK'
  BY <1>1, <1>2, <1>3, <1>4 DEF TypeOK, TargetsOK
<1> QED  BY <1>5 DEF Typed

(* A stream that is closed, or begins, has nothing on it.                    *)
Fresh ==
  /\ state' \in States /\ state' # "Open"
  /\ up' = <<>> /\ down' = <<>> /\ watched' = {} /\ heard' = FALSE
  /\ outstanding' = <<>> /\ resets' = {} /\ miscounted' = {}

LEMMA FreshStep ==
  ASSUME Fresh, network' \in BOOLEAN, idle' \in BOOLEAN, untimed' \in BOOLEAN,
         TargetsOK(targets'), online' \in Onlines
  PROVE  Watching'
<1>1. /\ state' \in States /\ state' # "Open"
      /\ up' = <<>> /\ down' = <<>> /\ watched' = {} /\ heard' = FALSE
      /\ outstanding' = <<>> /\ resets' = {} /\ miscounted' = {}
  BY DEF Fresh
<1>2. DOMAIN outstanding' \subseteq Targets /\ Range(outstanding') \subseteq Int
  BY <1>1, EmptyParts DEF CountsOK
<1>3. /\ up' \in Seq([kind : {"listen", "unlisten"}, target : Targets])
      /\ down' \in Seq([kind : Answers \cup WithCause \cup {"changes", "filter", "snapshot"},
                        target : Targets \cup {NoTarget}])
  BY <1>1, EmptySeq
<1>4. online' \in [state : {"Unknown", "Online", "Offline"}, timer : BOOLEAN, failures : Nat]
  BY DEF Onlines
<1>5. TypeOK'
  <2>1. state' \in {"Initial", "Starting", "Open", "Error", "Backoff"}
    BY <1>1 DEF States
  <2>2. targets' \subseteq Targets
    BY DEF TargetsOK
  <2>3. /\ <<outstanding', up', down'>> = <<<<>>, <<>>, <<>>>>
        /\ <<resets', watched', miscounted', heard'>> = <<{}, {}, {}, FALSE>>
        /\ heard' \in BOOLEAN
        /\ resets' \subseteq Targets /\ watched' \subseteq Targets
    BY <1>1
  <2> QED  BY <1>2, <1>3, <1>4, <2>1, <2>2, <2>3 DEF TypeOK
<1>6. Typed'
  BY <1>1, <1>5, EmptyParts DEF Typed
<1>7. Counting' /\ Following'
  BY <1>1 DEF Counting, Following
<1>8. Renews(down', watched')
  BY <1>1 DEF Renews
<1> QED  BY <1>6, <1>7, <1>8 DEF Watching

(* A step that changes nothing on the stream.                                *)
LEMMA SameStep ==
  ASSUME Watching, UNCHANGED <<aggregatorVars, wireVars>>,
         state' \in States, state' = "Open" <=> state = "Open",
         state = "Open" => targets' = targets,
         network' \in BOOLEAN, idle' \in BOOLEAN, untimed' \in BOOLEAN,
         TargetsOK(targets'), online' \in Onlines
  PROVE  Watching'
<1>1. /\ outstanding' = outstanding /\ resets' = resets /\ miscounted' = miscounted
      /\ up' = up /\ down' = down /\ watched' = watched /\ heard' = heard
  BY DEF aggregatorVars, wireVars
<1>2. CASE state # "Open"
  <2>1. Fresh
    BY <1>1, <1>2, NotOpen DEF Fresh, Watching
  <2> QED  BY <2>1, FreshStep
<1>3. CASE state = "Open"
  <2>1. Typed'
    BY <1>1, <1>3, TypedParts, OpenTyped DEF Watching
  <2>2. Counting' /\ Following'
    BY <1>1, <1>3 DEF Counting, Following, Watching
  <2> QED  BY <1>1, <2>1, <2>2 DEF Watching
<1> QED  BY <1>2, <1>3

-----------------------------------------------------------------------------
(* The tracker.                                                              *)

LEMMA UpdatedIs ==
  ASSUME NEW s \in {"Unknown", "Online", "Offline"}
  PROVE  /\ UpdatedTo(s) \in Onlines
         /\ UpdatedTo(s).state = s /\ UpdatedTo(s).timer = FALSE /\ UpdatedTo(s).failures = 0
BY DEF UpdatedTo, Onlines

LEMMA HandleStartIs ==
  ASSUME NEW o \in Onlines
  PROVE  /\ HandleStart(o) \in Onlines
         /\ o.failures # 0 => HandleStart(o) = o
         /\ o.failures = 0 => /\ HandleStart(o).state = "Unknown"
                              /\ HandleStart(o).timer = TRUE
                              /\ HandleStart(o).failures = 0
BY DEF HandleStart, Onlines

LEMMA HandleFailureIs ==
  ASSUME NEW o \in Onlines
  PROVE  /\ HandleFailure(o) \in Onlines
         /\ o.state = "Online" => /\ HandleFailure(o).state = "Unknown"
                                  /\ HandleFailure(o).timer = o.timer
                                  /\ HandleFailure(o).failures = o.failures
         /\ o.state # "Online" =>
              /\ HandleFailure(o).failures # 0
              /\ \/ HandleFailure(o).state = "Offline" /\ HandleFailure(o).timer = FALSE
                 \/ HandleFailure(o).state = o.state /\ HandleFailure(o).timer = o.timer
<1>1. CASE o.state = "Online"
  BY <1>1 DEF HandleFailure, Onlines
<1>2. CASE o.state # "Online" /\ o.failures + 1 >= MaxWatchStreamFailures
  BY <1>2 DEF HandleFailure, Onlines
<1>3. CASE o.state # "Online" /\ ~(o.failures + 1 >= MaxWatchStreamFailures)
  BY <1>3 DEF HandleFailure, Onlines
<1> QED  BY <1>1, <1>2, <1>3

-----------------------------------------------------------------------------
(* The counts.                                                               *)

LEMMA CountIs == \A t : Count(t) = Of(outstanding, t)
BY DEF Count, Of

LEMMA CountedIs ==
  ASSUME CountsOK(outstanding), NEW t \in Targets, NEW n \in Int, outstanding' = Counted(t, n)
  PROVE  /\ CountsOK(outstanding')
         /\ Of(outstanding', t) = Of(outstanding, t) + n
         /\ \A x : x # t => Of(outstanding', x) = Of(outstanding, x)
<1> DEFINE D == DOMAIN outstanding \cup {t}
<1>1. outstanding' = [x \in D |-> IF x = t THEN Of(outstanding, t) + n ELSE Of(outstanding, x)]
  BY CountIs DEF Counted
<1>2. \A x \in Targets : Of(outstanding, x) \in Int
  BY DEF CountsOK, Of, Range
<1>3. D \subseteq Targets
  BY DEF CountsOK
<1>4. DOMAIN outstanding' = D
  BY <1>1
<1>5. \A x \in D : outstanding'[x] = IF x = t THEN Of(outstanding, t) + n ELSE Of(outstanding, x)
  BY <1>1
<1>6. \A x \in D : outstanding'[x] \in Int
  BY <1>2, <1>3, <1>5
<1>7. CountsOK(outstanding')
  BY <1>3, <1>4, <1>6 DEF CountsOK, Range
<1>8. Of(outstanding', t) = Of(outstanding, t) + n
  BY <1>4, <1>5 DEF Of
<1>9. ASSUME NEW x, x # t  PROVE Of(outstanding', x) = Of(outstanding, x)
  BY <1>4, <1>5, <1>9 DEF Of
<1> QED  BY <1>7, <1>8, <1>9

LEMMA ForgottenIs ==
  ASSUME CountsOK(outstanding), NEW t,
         outstanding' = Restrict(outstanding, DOMAIN outstanding \ {t})
  PROVE  /\ CountsOK(outstanding')
         /\ Of(outstanding', t) = 0
         /\ \A x : x # t => Of(outstanding', x) = Of(outstanding, x)
<1>1. outstanding' = [x \in DOMAIN outstanding \ {t} |-> outstanding[x]]
  BY DEF Restrict
<1>2. DOMAIN outstanding' = DOMAIN outstanding \ {t}
  BY <1>1
<1>3. \A x \in DOMAIN outstanding \ {t} : outstanding'[x] = outstanding[x]
  BY <1>1
<1> QED  BY <1>2, <1>3 DEF CountsOK, Range, Of

Sent(reqs) ==
  /\ up' = up \o reqs /\ CountsOK(outstanding')
  /\ \A t \in Targets : Of(outstanding', t) = Of(outstanding, t) + Num(reqs, Asks, t)

LEMMA SentIs ==
  ASSUME Typed, NEW reqs \in Seq(Asking), Send(reqs)
  PROVE  Sent(reqs) /\ idle' = (idle /\ reqs = <<>>) /\ idle' \in BOOLEAN
<1> DEFINE A == {reqs[i].target : i \in DOMAIN reqs}
           D == DOMAIN outstanding \cup A
<1>1. /\ up' = up \o reqs /\ idle' = (idle /\ reqs = <<>>)
      /\ outstanding' = [x \in D |-> Count(x) + Cardinality({i \in DOMAIN reqs : reqs[i].target = x})]
  BY DEF Send
<1>2. \A i \in DOMAIN reqs : reqs[i].kind \in Asks /\ reqs[i].target \in Targets
  <2>1. DOMAIN reqs = 1 .. Len(reqs) /\ \A i \in 1 .. Len(reqs) : reqs[i] \in Asking
    BY SeqParts
  <2> QED  BY <2>1 DEF Asking
<1>3. \A x : Cardinality({i \in DOMAIN reqs : reqs[i].target = x}) = Num(reqs, Asks, x)
  <2>1. ASSUME NEW x
        PROVE  {i \in DOMAIN reqs : reqs[i].target = x} = Places(reqs, Asks, x)
    BY <1>2 DEF Places
  <2> QED  BY <2>1 DEF Num
<1>4. \A x : Num(reqs, Asks, x) \in Nat
  BY NumNat
<1>5. CountsOK(outstanding) /\ \A x \in Targets : Of(outstanding, x) \in Int
  BY TypedParts
<1>6. D \subseteq Targets
  BY <1>2, <1>5 DEF CountsOK
<1>7. DOMAIN outstanding' = D
      /\ \A x \in D : outstanding'[x] = Of(outstanding, x) + Num(reqs, Asks, x)
  BY <1>1, <1>3, CountIs
<1>8. CountsOK(outstanding')
  <2>1. \A x \in D : outstanding'[x] \in Int
    BY <1>4, <1>5, <1>6, <1>7
  <2> QED  BY <1>6, <1>7, <2>1 DEF CountsOK, Range
<1>9. ASSUME NEW t \in Targets
      PROVE  Of(outstanding', t) = Of(outstanding, t) + Num(reqs, Asks, t)
  <2>1. CASE t \in D
    BY <1>7, <2>1 DEF Of
  <2>2. CASE t \notin D
    <3>1. Of(outstanding', t) = 0 /\ Of(outstanding, t) = 0
      BY <1>7, <2>2 DEF Of
    <3>2. Num(reqs, Asks, t) = 0
      <4>1. \A i \in DOMAIN reqs : ~(reqs[i].target = t /\ reqs[i].kind \in Asks)
        BY <2>2
      <4> QED  BY <4>1, NumNat
    <3> QED  BY <3>1, <3>2
  <2> QED  BY <2>1, <2>2
<1> QED  BY <1>1, <1>8, <1>9 DEF Sent

-----------------------------------------------------------------------------
(* Requests that are sent on an open stream.                                 *)

LEMMA AgreesSent ==
  ASSUME NEW u \in Seq(Asking), NEW r \in Seq(Asking), NEW d, NEW W, NEW T, NEW V, NEW t,
         LastSays(r, t, t \in V),
         Mentions(r, t) \/ (Agrees(u, d, W, T, t) /\ (t \in V <=> t \in T))
  PROVE  Agrees(u \o r, d, W, V, t)
<1>1. Num(u \o r, Asks, t) = Num(u, Asks, t) + Num(r, Asks, t)
  BY NumConcat
<1>2. Num(u, Asks, t) \in Nat /\ Num(r, Asks, t) \in Nat
  BY NumNat
<1>3. Mentions(r, t) => Mentions(u \o r, t)
  BY <1>1, <1>2 DEF Mentions
<1>4. Mentions(u, t) => Mentions(u \o r, t)
  BY <1>1, <1>2 DEF Mentions
<1>5. Mentions(r, t) \/ LastSays(u, t, t \in V)
  <2>1. ASSUME Agrees(u, d, W, T, t), t \in V <=> t \in T  PROVE LastSays(u, t, t \in V)
    BY <2>1 DEF Agrees, LastSays
  <2> QED  BY <2>1
<1>6. LastSays(u \o r, t, t \in V)
  <2> DEFINE b == t \in V
  <2>1. LastSays(r, t, b) /\ (Mentions(r, t) \/ LastSays(u, t, b))
    BY <1>5
  <2> HIDE DEF b
  <2>2. LastSays(u \o r, t, b)
    BY <2>1, LastConcat
  <2> QED  BY <2>2 DEF b
<1>7. ASSUME ~Mentions(u \o r, t)
      PROVE  (t \in W => t \in V) /\ (t \in V => t \in W \/ CauseIn(d, t))
  <2>1. ~Mentions(u, t) /\ ~Mentions(r, t)
    BY <1>3, <1>4, <1>7
  <2> QED  BY <2>1 DEF Agrees
<1> QED  BY <1>6, <1>7 DEF Agrees

LEMMA SendStep ==
  ASSUME Typed, state' = "Open", NEW reqs \in Seq(Asking), Sent(reqs), DownOK(down'),
         \A t \in Targets \ miscounted' :
           /\ Of(outstanding, t) = Num(up, Asks, t) + Num(down', Answers, t)
           /\ LastSays(reqs, t, t \in targets')
           /\ \/ Mentions(reqs, t)
              \/ Agrees(up, down', watched, targets, t) /\ (t \in targets' <=> t \in targets),
         Renews(down', watched), watched' = watched, TargetsOK(targets'), resets' \subseteq Targets,
         idle' \in BOOLEAN, network' \in BOOLEAN, untimed' \in BOOLEAN, online' \in Onlines,
         heard' \in BOOLEAN
  PROVE  Watching'
<1>1. up' = up \o reqs /\ CountsOK(outstanding')
      /\ \A t \in Targets : Of(outstanding', t) = Of(outstanding, t) + Num(reqs, Asks, t)
  BY DEF Sent
<1>2. up \in Seq(Asking) /\ watched \subseteq Targets /\ down' \in Seq(Message)
  BY TypedParts DEF DownOK
<1>3. up' \in Seq(Asking)
  BY <1>1, <1>2, ConcatProperties
<1>4. Typed'
  BY <1>1, <1>2, <1>3, OpenTyped
<1>5. ASSUME NEW t \in Targets \ miscounted'
      PROVE  Of(outstanding', t) = Num(up', Asks, t) + Num(down', Answers, t)
  <2>1. Num(up', Asks, t) = Num(up, Asks, t) + Num(reqs, Asks, t)
    BY <1>1, <1>2, NumConcat
  <2>2. Num(up, Asks, t) \in Nat /\ Num(reqs, Asks, t) \in Nat /\ Num(down', Answers, t) \in Nat
    BY <1>2, NumNat
  <2>3. Of(outstanding', t) = Of(outstanding, t) + Num(reqs, Asks, t)
    BY <1>1, <1>5
  <2>4. Of(outstanding, t) = Num(up, Asks, t) + Num(down', Answers, t)
    BY <1>5
  <2> QED  BY <2>1, <2>2, <2>3, <2>4
<1>6. ASSUME NEW t \in Targets \ miscounted'
      PROVE  Agrees(up', down', watched', targets', t)
  <2> DEFINE V == targets'
             d == down'
  <2>1. /\ LastSays(reqs, t, t \in V)
        /\ Mentions(reqs, t) \/ (Agrees(up, d, watched, targets, t) /\ (t \in V <=> t \in targets))
    BY <1>6
  <2> HIDE DEF V, d
  <2>2. Agrees(up \o reqs, d, watched, V, t)
    BY <1>2, <2>1, AgreesSent
  <2> QED  BY <1>1, <2>2 DEF V, d
<1>7. Renews(down', watched')
  OBVIOUS
<1>8. Counting' /\ Following'
  BY <1>5, <1>6 DEF Counting, Following
<1> QED  BY <1>4, <1>7, <1>8 DEF Watching

LEMMA WatchingOpen ==
  ASSUME Watching, state = "Open"
  PROVE  /\ \A t \in Targets \ miscounted :
              /\ Of(outstanding, t) = Num(up, Asks, t) + Num(down, Answers, t)
              /\ Agrees(up, down, watched, targets, t)
         /\ Typed /\ Renews(down, watched)
BY DEF Watching, Counting, Following

LEMMA SingleRequest ==
  ASSUME NEW k \in Asks, NEW t \in Targets
  PROVE  /\ <<Request(k, t)>> \in Seq(Asking)
         /\ \A x : Mentions(<<Request(k, t)>>, x) <=> x = t
         /\ \A x : Num(<<Request(k, t)>>, Asks, x) = IF x = t THEN 1 ELSE 0
         /\ \A x, b : x = t /\ (k = "listen" <=> b) => LastSays(<<Request(k, t)>>, x, b)
         /\ \A x, b : x # t => LastSays(<<Request(k, t)>>, x, b)
<1> DEFINE e == Request(k, t)
<1>1. e \in Asking /\ e.kind = k /\ e.target = t
  BY DEF Request, Asking
<1> HIDE DEF e
<1> DEFINE s == <<e>>
<1>2. s \in Seq(Asking) /\ s[1] = e /\ DOMAIN s = 1 .. 1
  BY <1>1, Singles
<1>3. \A x : Num(s, Asks, x) = One(e, Asks, x)
  BY <1>1, NumSingle
<1> HIDE DEF s
<1>4. \A x : Num(s, Asks, x) = IF x = t THEN 1 ELSE 0
  BY <1>1, <1>3 DEF One
<1>5. \A x : Mentions(s, x) <=> x = t
  BY <1>4 DEF Mentions
<1>6. ASSUME NEW x, NEW b, x = t, k = "listen" <=> b  PROVE LastSays(s, x, b)
  BY <1>1, <1>2, <1>6 DEF LastSays
<1>7. ASSUME NEW x, NEW b, x # t  PROVE LastSays(s, x, b)
  BY <1>1, <1>2, <1>7 DEF LastSays
<1> QED  BY <1>2, <1>4, <1>5, <1>6, <1>7 DEF s, e

(* One request on an open stream.                                            *)
LEMMA RequestStep ==
  ASSUME Watching, state = "Open", state' = "Open", NEW k \in Asks, NEW t \in Targets,
         Sent(<<Request(k, t)>>),
         targets' = IF k = "listen" THEN targets \cup {t} ELSE targets \ {t},
         UNCHANGED <<down, watched, miscounted>>, resets' \subseteq Targets,
         idle' \in BOOLEAN, network' \in BOOLEAN, untimed' \in BOOLEAN, online' \in Onlines,
         heard' \in BOOLEAN
  PROVE  Watching'
<1> DEFINE r == <<Request(k, t)>>
<1>1. /\ r \in Seq(Asking)
      /\ \A x : Mentions(r, x) <=> x = t
      /\ \A x, b : x = t /\ (k = "listen" <=> b) => LastSays(r, x, b)
      /\ \A x, b : x # t => LastSays(r, x, b)
  BY SingleRequest
<1>2. Sent(r)
  OBVIOUS
<1> HIDE DEF r
<1>3. /\ \A x \in Targets \ miscounted :
           /\ Of(outstanding, x) = Num(up, Asks, x) + Num(down, Answers, x)
           /\ Agrees(up, down, watched, targets, x)
      /\ Typed /\ Renews(down, watched) /\ DownOK(down) /\ TargetsOK(targets)
  BY WatchingOpen, TypedParts
<1>4. TargetsOK(targets')
  <2>1. CASE k = "listen"
    BY <1>3, <2>1, FS_AddElement DEF TargetsOK
  <2>2. CASE k # "listen"
    BY <1>3, <2>2, FS_RemoveElement DEF TargetsOK
  <2> QED  BY <2>1, <2>2
<1>5. (t \in targets' <=> k = "listen") /\ \A x : x # t => (x \in targets' <=> x \in targets)
  OBVIOUS
<1>6. ASSUME NEW x \in Targets \ miscounted'
      PROVE  /\ Of(outstanding, x) = Num(up, Asks, x) + Num(down', Answers, x)
             /\ LastSays(r, x, x \in targets')
             /\ \/ Mentions(r, x)
                \/ Agrees(up, down', watched, targets, x) /\ (x \in targets' <=> x \in targets)
  <2>1. x \in Targets \ miscounted /\ down' = down
    BY <1>6
  <2>2. /\ Of(outstanding, x) = Num(up, Asks, x) + Num(down', Answers, x)
        /\ Agrees(up, down', watched, targets, x)
    BY <1>3, <2>1
  <2>3. LastSays(r, x, x \in targets')
    <3> DEFINE b == x \in targets'
    <3>1. x = t => (k = "listen" <=> b)
      BY <1>5
    <3> HIDE DEF b
    <3>2. LastSays(r, x, b)
      BY <1>1, <3>1
    <3> QED  BY <3>2 DEF b
  <2> QED  BY <1>1, <1>5, <2>2, <2>3
<1>7. DownOK(down') /\ Renews(down', watched') /\ Renews(down', watched)
  BY <1>3
<1> QED  BY <1>1, <1>2, <1>3, <1>4, <1>6, <1>7, SendStep

LEMMA StartTyped ==
  ASSUME Typed, NEW st \in States, NEW o \in Onlines, StartWatchStream(st, o)
  PROVE  /\ state' \in States /\ state' # "Open" /\ Started(state')
         /\ online' = HandleStart(o) /\ online' \in Onlines
         /\ untimed' = (untimed /\ o.failures # 0) /\ untimed' \in BOOLEAN
BY TypedParts, HandleStartIs DEF StartWatchStream, States, Started

LEMMA ListenStep ==
  ASSUME Watching, NEW t \in Targets, Listen(t)
  PROVE  Watching'
<1>1. /\ targets' = targets \cup {t}
      /\ network' = network /\ down' = down /\ watched' = watched /\ heard' = heard
  BY DEF Listen
<1>2. /\ Typed /\ TargetsOK(targets) /\ network \in BOOLEAN /\ idle \in BOOLEAN
      /\ untimed \in BOOLEAN /\ state \in States /\ online \in Onlines /\ resets \subseteq Targets
      /\ heard \in BOOLEAN
  BY TypedParts DEF Watching
<1>3. TargetsOK(targets')
  BY <1>1, <1>2, FS_AddElement DEF TargetsOK
<1>4. CASE ShouldStart(targets', state)
  <2>1. StartWatchStream(state, online) /\ NewAggregator /\ up' = up /\ idle' = idle
    BY <1>4 DEF Listen
  <2>2. state # "Open"
    BY <1>4 DEF ShouldStart, Started
  <2>3. up = <<>> /\ down = <<>> /\ watched = {} /\ heard = FALSE
    BY <1>2, <2>2, NotOpen
  <2>4. Fresh
    BY <1>1, <1>2, <2>1, <2>3, StartTyped DEF Fresh, NewAggregator
  <2> QED  BY <1>1, <1>2, <1>3, <2>1, <2>4, StartTyped, FreshStep
<1>5. CASE ~ShouldStart(targets', state)
  <2>1. /\ IF state = "Open" THEN Send(<<Request("listen", t)>>)
                             ELSE UNCHANGED <<up, idle, outstanding>>
        /\ UNCHANGED <<state, online, untimed, resets, miscounted>>
    BY <1>5 DEF Listen
  <2>2. CASE state = "Open"
    <3>1. Send(<<Request("listen", t)>>) /\ "listen" \in Asks
      BY <2>1, <2>2 DEF Asks
    <3>2. <<Request("listen", t)>> \in Seq(Asking)
      BY <3>1, SingleRequest
    <3>3. Sent(<<Request("listen", t)>>) /\ idle' \in BOOLEAN
      BY <1>2, <3>1, <3>2, SentIs
    <3> QED  BY <1>1, <1>2, <2>1, <2>2, <3>1, <3>3, RequestStep
  <2>3. CASE state # "Open"
    <3>1. UNCHANGED <<aggregatorVars, wireVars>> /\ idle' = idle
      BY <1>1, <2>1, <2>3 DEF aggregatorVars, wireVars
    <3> QED  BY <1>1, <1>2, <1>3, <2>1, <2>3, <3>1, SameStep
  <2> QED  BY <2>2, <2>3
<1> QED  BY <1>4, <1>5

LEMMA StopListeningStep ==
  ASSUME Watching, NEW t \in Targets, StopListening(t)
  PROVE  Watching'
<1>1. /\ targets' = targets \ {t} /\ state' = state /\ resets' = resets /\ miscounted' = miscounted
      /\ network' = network /\ down' = down /\ watched' = watched /\ heard' = heard
  BY DEF StopListening
<1>2. /\ Typed /\ TargetsOK(targets) /\ network \in BOOLEAN /\ idle \in BOOLEAN
      /\ untimed \in BOOLEAN /\ state \in States /\ online \in Onlines /\ resets \subseteq Targets
      /\ CountsOK(outstanding) /\ up \in Seq(Asking) /\ heard \in BOOLEAN
  BY TypedParts DEF Watching
<1>3. TargetsOK(targets')
  BY <1>1, <1>2, FS_RemoveElement DEF TargetsOK
<1>4. online' \in Onlines /\ untimed' \in BOOLEAN
  <2>1. \/ online' = UpdatedTo("Unknown") /\ untimed' = TRUE
        \/ online' = online /\ untimed' = untimed
    BY <1>2 DEF StopListening
  <2> QED  BY <1>2, <2>1, UpdatedIs
<1>5. CASE state = "Open"
  <2> DEFINE e == Request("unlisten", t)
  <2>1. /\ up' = Append(up, e) /\ outstanding' = Counted(t, 1) /\ idle' \in BOOLEAN
    BY <1>5 DEF StopListening
  <2>2. e \in Asking /\ "unlisten" \in Asks
    BY DEF Request, Asking, Asks
  <2>3. up' = up \o <<e>>
    BY <1>2, <2>1, <2>2, AppendIsConcat
  <2>4. /\ CountsOK(outstanding') /\ Of(outstanding', t) = Of(outstanding, t) + 1
        /\ \A x : x # t => Of(outstanding', x) = Of(outstanding, x)
    BY <1>2, <2>1, CountedIs
  <2>5. \A x : Num(<<e>>, Asks, x) = IF x = t THEN 1 ELSE 0
    BY <2>2, SingleRequest
  <2>6. \A x \in Targets : Of(outstanding, x) \in Int
    BY <1>2, TypedParts
  <2> HIDE DEF e
  <2>7. \A x \in Targets : Of(outstanding', x) = Of(outstanding, x) + Num(<<e>>, Asks, x)
    BY <2>4, <2>5, <2>6
  <2>8. Sent(<<e>>)
    BY <2>3, <2>4, <2>7 DEF Sent
  <2>9. Sent(<<Request("unlisten", t)>>)
    BY <2>8 DEF e
  <2> QED  BY <1>1, <1>2, <1>4, <1>5, <2>1, <2>2, <2>9, RequestStep
<1>6. CASE state # "Open"
  <2>1. UNCHANGED <<aggregatorVars, wireVars>> /\ idle' = idle
    BY <1>1, <1>6 DEF StopListening, aggregatorVars, wireVars
  <2> QED  BY <1>1, <1>2, <1>3, <1>4, <1>6, <2>1, SameStep
<1> QED  BY <1>5, <1>6

(* A listen for every target of T.                                           *)
LEMMA ListensToAll ==
  ASSUME NEW T, TargetsOK(T)
  PROVE  LET all  == SetToSeq(T)
             reqs == [i \in DOMAIN all |-> Request("listen", all[i])]
         IN  /\ reqs \in Seq(Asking)
             /\ \A x : Mentions(reqs, x) <=> x \in T
             /\ \A x : LastSays(reqs, x, x \in T)
<1> DEFINE all == SetToSeq(T)
           reqs == [i \in DOMAIN all |-> Request("listen", all[i])]
           n == Len(all)
<1>1. all \in Seq(T) /\ \A x \in T : \E i \in DOMAIN all : all[i] = x
  BY SetToSeqIs DEF TargetsOK
<1> HIDE DEF all
<1>2. n \in Nat /\ DOMAIN all = 1 .. n /\ \A i \in 1 .. n : all[i] \in T
  BY <1>1, SeqParts
<1> HIDE DEF n
<1>3. \A y \in T : /\ Request("listen", y) \in Asking
                   /\ Request("listen", y).kind = "listen" /\ Request("listen", y).target = y
  BY DEF Request, Asking, Asks, TargetsOK
<1>4. reqs \in [1 .. n -> Asking]
  BY <1>2, <1>3
<1>5. DOMAIN reqs = DOMAIN all
      /\ \A i \in DOMAIN reqs : reqs[i].kind = "listen" /\ reqs[i].target = all[i]
  BY <1>2, <1>3
<1> HIDE DEF reqs
<1>6. reqs \in Seq(Asking)
  BY <1>2, <1>4, FunctionIsSeq
<1>7. ASSUME NEW x  PROVE Mentions(reqs, x) <=> x \in T
  <2>1. Mentions(reqs, x) <=> \E i \in DOMAIN reqs : reqs[i].target = x
    BY <1>6, MentionsMeans
  <2> QED  BY <1>1, <1>2, <1>5, <2>1
<1>8. ASSUME NEW x  PROVE LastSays(reqs, x, x \in T)
  BY <1>2, <1>5 DEF LastSays
<1> QED  BY <1>6, <1>7, <1>8 DEF reqs, all

LEMMA TokenArrivesStep ==
  ASSUME Watching, TokenArrives
  PROVE  Watching'
<1> DEFINE all == SetToSeq(targets)
           reqs == [i \in DOMAIN all |-> Request("listen", all[i])]
<1>1. /\ state # "Open" /\ state' = "Open" /\ Send(reqs)
      /\ network' = network /\ targets' = targets /\ resets' = resets /\ miscounted' = miscounted
      /\ online' = online /\ untimed' = untimed /\ down' = down /\ watched' = watched
      /\ heard' = heard
  BY DEF TokenArrives
<1>2. /\ Typed /\ TargetsOK(targets) /\ network \in BOOLEAN
      /\ untimed \in BOOLEAN /\ online \in Onlines /\ resets \subseteq Targets
      /\ heard \in BOOLEAN
  BY TypedParts DEF Watching
<1>3. /\ outstanding = <<>> /\ up = <<>> /\ down = <<>> /\ watched = {}
  BY <1>1, <1>2, NotOpen
<1>4. /\ reqs \in Seq(Asking)
      /\ \A x : Mentions(reqs, x) <=> x \in targets
      /\ \A x : LastSays(reqs, x, x \in targets)
  BY <1>2, ListensToAll
<1> HIDE DEF reqs
<1>5. Sent(reqs) /\ idle' \in BOOLEAN
  BY <1>1, <1>2, <1>4, SentIs
<1>6. ASSUME NEW x \in Targets \ miscounted'
      PROVE  /\ Of(outstanding, x) = Num(up, Asks, x) + Num(down', Answers, x)
             /\ LastSays(reqs, x, x \in targets')
             /\ \/ Mentions(reqs, x)
                \/ Agrees(up, down', watched, targets, x) /\ (x \in targets' <=> x \in targets)
  <2>1. Of(outstanding, x) = 0 /\ Num(up, Asks, x) = 0 /\ Num(down', Answers, x) = 0
    BY <1>1, <1>3, EmptyParts, NumEmpty
  <2>2. ASSUME x \notin targets  PROVE Agrees(up, down', watched, targets, x)
    <3>1. LastSays(up, x, x \in targets)
      BY <1>3 DEF LastSays
    <3> QED  BY <1>3, <2>2, <3>1 DEF Agrees
  <2>3. LastSays(reqs, x, x \in targets')
    BY <1>1, <1>4
  <2> QED  BY <1>1, <1>4, <2>1, <2>2, <2>3
<1>7. DownOK(down') /\ Renews(down', watched)
  <2>1. DownOK(down')
    BY <1>1, <1>3, EmptyParts
  <2> QED  BY <1>3, <2>1 DEF Renews
<1>8. Renews(down', watched')
  BY <1>1, <1>7
<1> QED  BY <1>1, <1>2, <1>4, <1>5, <1>6, <1>7, <1>8, SendStep

(* The stream is dropped, with its counts.                                   *)
LEMMA DroppedStep ==
  ASSUME Typed, state' \in States, state' # "Open", NewAggregator, DropWire,
         network' \in BOOLEAN, untimed' \in BOOLEAN, TargetsOK(targets'), online' \in Onlines
  PROVE  Watching'
<1>1. Fresh /\ idle' \in BOOLEAN
  BY DEF NewAggregator, DropWire, Fresh
<1> QED  BY <1>1, FreshStep

LEMMA ClosingSteps ==
  ASSUME Watching, StreamFails \/ IdleTimeout \/ DisableNetwork \/ RestartNetwork
  PROVE  Watching'
<1>1. /\ Typed /\ TargetsOK(targets) /\ network \in BOOLEAN
      /\ untimed \in BOOLEAN /\ state \in States /\ online \in Onlines
  BY TypedParts DEF Watching
<1>2. UpdatedTo("Unknown") \in Onlines /\ UpdatedTo("Offline") \in Onlines
  BY UpdatedIs
<1>3. CASE StreamFails
  <2>1. NewAggregator /\ DropWire /\ network' = network /\ targets' = targets
    BY <1>3 DEF StreamFails
  <2>2. CASE ShouldStart(targets, "Error")
    <3>1. StartWatchStream("Error", HandleFailure(online)) /\ "Error" \in States
      BY <1>3, <2>2 DEF StreamFails, States
    <3>2. HandleFailure(online) \in Onlines
      BY <1>1, HandleFailureIs
    <3> QED  BY <1>1, <2>1, <3>1, <3>2, StartTyped, DroppedStep
  <2>3. CASE ~ShouldStart(targets, "Error")
    <3>1. state' = "Error" /\ online' = UpdatedTo("Unknown") /\ untimed' = FALSE
      BY <1>3, <2>3 DEF StreamFails
    <3>2. state' \in States /\ state' # "Open"
      BY <3>1 DEF States
    <3> QED  BY <1>1, <1>2, <2>1, <3>1, <3>2, DroppedStep
  <2> QED  BY <2>2, <2>3
<1>4. CASE IdleTimeout
  <2>1. /\ state' = "Initial" /\ NewAggregator /\ DropWire /\ network' = network
        /\ targets' = targets /\ online' = UpdatedTo("Unknown") /\ untimed' = FALSE
    BY <1>4 DEF IdleTimeout
  <2>2. state' \in States /\ state' # "Open"
    BY <2>1 DEF States
  <2> QED  BY <1>1, <1>2, <2>1, <2>2, DroppedStep
<1>5. CASE DisableNetwork
  <2>1. /\ NewAggregator /\ DropWire /\ network' = FALSE /\ targets' = targets
        /\ state' = IF Started(state) THEN "Initial" ELSE state
        /\ online' = UpdatedTo("Offline") /\ untimed' = FALSE
    BY <1>5 DEF DisableNetwork
  <2>2. state' \in States /\ state' # "Open"
    BY <1>1, <2>1 DEF States, Started
  <2> QED  BY <1>1, <1>2, <2>1, <2>2, DroppedStep
<1>6. CASE RestartNetwork
  <2>1. NewAggregator /\ DropWire /\ network' = network /\ targets' = targets
    BY <1>6 DEF RestartNetwork
  <2>2. CASE targets # {}
    <3>1. StartWatchStream("Initial", UpdatedTo("Unknown")) /\ "Initial" \in States
      BY <1>6, <2>2 DEF RestartNetwork, States
    <3> QED  BY <1>1, <1>2, <2>1, <3>1, StartTyped, DroppedStep
  <2>3. CASE targets = {}
    <3>1. state' = "Initial" /\ online' = UpdatedTo("Unknown") /\ untimed' = FALSE
      BY <1>6, <2>3 DEF RestartNetwork
    <3>2. state' \in States /\ state' # "Open"
      BY <3>1 DEF States
    <3> QED  BY <1>1, <1>2, <2>1, <3>1, <3>2, DroppedStep
  <2> QED  BY <2>2, <2>3
<1> QED  BY <1>3, <1>4, <1>5, <1>6

LEMMA OtherSteps ==
  ASSUME Watching, EnableNetwork \/ BackoffElapsed \/ OnlineTimeout \/ UNCHANGED vars
  PROVE  Watching'
<1>1. /\ Typed /\ TargetsOK(targets) /\ network \in BOOLEAN /\ idle \in BOOLEAN
      /\ untimed \in BOOLEAN /\ state \in States /\ online \in Onlines
  BY TypedParts DEF Watching
<1>2. CASE EnableNetwork
  <2>1. Enabled(state) /\ UNCHANGED <<targets, idle, wireVars>> /\ network' = TRUE
    BY <1>2 DEF EnableNetwork, Enabled
  <2>2. CASE ~Started(state) /\ targets # {}
    <3>1. StartWatchStream(state, online) /\ NewAggregator
      BY <2>1, <2>2 DEF Enabled
    <3>2. state # "Open"
      BY <2>2 DEF Started
    <3>3. up' = <<>> /\ down' = <<>> /\ watched' = {} /\ heard' = FALSE
      BY <1>1, <2>1, <3>2, NotOpen DEF wireVars
    <3>4. state' \in States /\ state' # "Open" /\ online' \in Onlines /\ untimed' \in BOOLEAN
      BY <1>1, <3>1, StartTyped
    <3>5. Fresh
      BY <3>1, <3>3, <3>4 DEF Fresh, NewAggregator
    <3> QED  BY <1>1, <2>1, <3>4, <3>5, FreshStep
  <2>3. CASE ~(~Started(state) /\ targets # {})
    <3>1. /\ state' = state /\ online' = UpdatedTo("Unknown") /\ untimed' = Started(state)
          /\ UNCHANGED aggregatorVars
      BY <2>1, <2>3 DEF Enabled
    <3>2. online' \in Onlines
      BY <3>1, UpdatedIs
    <3>3. untimed' \in BOOLEAN
      BY <3>1 DEF Started
    <3> QED  BY <1>1, <2>1, <3>1, <3>2, <3>3, SameStep
  <2> QED  BY <2>2, <2>3
<1>3. CASE BackoffElapsed
  <2>1. /\ state = "Backoff" /\ state' = "Starting"
        /\ UNCHANGED <<network, targets, idle, aggregatorVars, online, untimed, wireVars>>
    BY <1>3 DEF BackoffElapsed
  <2>2. state' \in States
    BY <2>1 DEF States
  <2> QED  BY <1>1, <2>1, <2>2, SameStep
<1>4. CASE OnlineTimeout
  <2>1. /\ online' = [online EXCEPT !.state = "Offline", !.timer = FALSE]
        /\ UNCHANGED <<network, targets, state, idle, aggregatorVars, untimed, wireVars>>
    BY <1>4 DEF OnlineTimeout
  <2>2. online' \in Onlines
    BY <1>1, <2>1 DEF Onlines
  <2> QED  BY <1>1, <2>1, <2>2, SameStep
<1>5. CASE UNCHANGED vars
  <2>1. UNCHANGED <<network, targets, state, idle, aggregatorVars, online, untimed, wireVars>>
    BY <1>5 DEF vars
  <2> QED  BY <1>1, <2>1, SameStep
<1> QED  BY <1>2, <1>3, <1>4, <1>5

-----------------------------------------------------------------------------
(* The messages of the server.                                               *)

LEMMA AgreesTail ==
  ASSUME NEW u, NEW d \in Seq(Message), d # <<>>, NEW W, NEW T, NEW t, Agrees(u, d, W, T, t),
         Head(d).target # t \/ Head(d).kind \notin WithCause
  PROVE  Agrees(u, Tail(d), W, T, t)
<1>1. Num(d, WithCause, t) = Num(Tail(d), WithCause, t) + One(Head(d), WithCause, t)
  BY NumTail
<1>2. One(Head(d), WithCause, t) = 0
  BY DEF One
<1>3. Num(Tail(d), WithCause, t) \in Nat
  BY HeadAndTail, NumNat
<1>4. CauseIn(d, t) <=> CauseIn(Tail(d), t)
  BY <1>1, <1>2, <1>3 DEF CauseIn
<1> QED  BY <1>4 DEF Agrees

LEMMA ReceiveIs ==
  ASSUME Watching, NEW K, Receive(K)
  PROVE  /\ state = "Open" /\ state' = "Open" /\ network' = network /\ watched' = watched
         /\ online' = UpdatedTo("Online") /\ untimed' = FALSE /\ heard' = TRUE
         /\ down \in Seq(Message) /\ down # <<>> /\ down' = Tail(down) /\ DownOK(down')
         /\ Head(down).kind \in K /\ Head(down) \in Message
         /\ Head(down).kind # "snapshot" => Head(down).target \in Targets
         /\ Renews(down', watched)
         /\ \A x \in Targets \ miscounted :
              /\ Of(outstanding, x) =
                   Num(up, Asks, x) + Num(down', Answers, x) + One(Head(down), Answers, x)
              /\ Head(down).target # x \/ Head(down).kind \notin WithCause =>
                   Agrees(up, down', watched, targets, x)
<1>1. /\ down # <<>> /\ Head(down).kind \in K /\ down' = Tail(down)
      /\ state' = state /\ network' = network /\ watched' = watched
      /\ online' = UpdatedTo("Online") /\ untimed' = FALSE /\ heard' = TRUE
  BY DEF Receive
<1>2. Typed /\ DownOK(down) /\ down \in Seq(Message) /\ up \in Seq(Asking)
  BY TypedParts DEF Watching
<1>3. state = "Open"
  BY <1>1, <1>2, NotOpen
<1>4. /\ \A x \in Targets \ miscounted :
           /\ Of(outstanding, x) = Num(up, Asks, x) + Num(down, Answers, x)
           /\ Agrees(up, down, watched, targets, x)
      /\ Renews(down, watched)
  BY <1>3, WatchingOpen
<1> DEFINE r == Tail(down)
           h == Head(down)
<1>5. /\ h \in Message /\ r \in Seq(Message) /\ Len(r) = Len(down) - 1
      /\ \A i \in 1 .. Len(r) : r[i] = down[i + 1]
  BY <1>1, <1>2, HeadTailProperties
<1>6. Len(down) \in Nat /\ Len(down) # 0 /\ DOMAIN down = 1 .. Len(down) /\ DOMAIN r = 1 .. Len(r)
      /\ h = down[1]
  BY <1>1, <1>2, <1>5, SeqParts
<1>7. Renews(r, watched)
  BY <1>1, <1>2, <1>4, RenewsTail
<1>8. ASSUME NEW x \in Targets \ miscounted
      PROVE  Of(outstanding, x) = Num(up, Asks, x) + Num(r, Answers, x) + One(h, Answers, x)
  <2>1. Num(down, Answers, x) = Num(r, Answers, x) + One(h, Answers, x)
    BY <1>1, <1>2, NumTail
  <2>2. Num(up, Asks, x) \in Nat /\ Num(r, Answers, x) \in Nat /\ One(h, Answers, x) \in Nat
    BY <1>2, <1>5, NumNat DEF One
  <2>3. Of(outstanding, x) = Num(up, Asks, x) + Num(down, Answers, x)
    BY <1>4
  <2> HIDE DEF r, h
  <2> QED  BY <2>1, <2>2, <2>3
<1>9. ASSUME NEW x \in Targets \ miscounted, h.target # x \/ h.kind \notin WithCause
      PROVE  Agrees(up, r, watched, targets, x)
  BY <1>1, <1>2, <1>4, <1>9, AgreesTail
<1> HIDE DEF h, r
<1>10. DownOK(r) /\ (h.kind # "snapshot" => h.target \in Targets)
  <2>1. \A i \in 1 .. Len(r) : i + 1 \in 1 .. Len(down)
    BY <1>5, <1>6
  <2>2. 1 \in 1 .. Len(down)
    BY <1>6
  <2> QED  BY <1>2, <1>5, <1>6, <2>1, <2>2 DEF DownOK
<1> QED  BY <1>1, <1>2, <1>3, <1>5, <1>7, <1>8, <1>9, <1>10 DEF h, r

(* A message that is not a cause, and what it counts for.                    *)
LEMMA QuietReceive ==
  ASSUME Watching, NEW K, Receive(K), K \cap WithCause = {}, CountsOK(outstanding'),
         \A x \in Targets : Of(outstanding', x) = Of(outstanding, x) - One(Head(down), Answers, x),
         UNCHANGED <<targets, miscounted, up>>, idle' = idle, resets' \subseteq Targets
  PROVE  Watching'
<1>1. /\ state = "Open" /\ state' = "Open" /\ network' = network /\ watched' = watched
      /\ online' = UpdatedTo("Online") /\ untimed' = FALSE /\ DownOK(down')
      /\ heard' \in BOOLEAN
      /\ Head(down).kind \notin WithCause
      /\ Renews(down', watched)
  BY ReceiveIs
<1>2. \A x \in Targets \ miscounted :
        /\ Of(outstanding, x) =
             Num(up, Asks, x) + Num(down', Answers, x) + One(Head(down), Answers, x)
        /\ Agrees(up, down', watched, targets, x)
  BY <1>1, ReceiveIs
<1>3. /\ Typed /\ TargetsOK(targets) /\ network \in BOOLEAN /\ idle \in BOOLEAN
      /\ up \in Seq(Asking) /\ watched \subseteq Targets /\ down' \in Seq(Message)
  BY <1>1, TypedParts DEF Watching, DownOK
<1>4. online' \in Onlines
  BY <1>1, UpdatedIs
<1>5. Typed'
  BY <1>1, <1>3, <1>4, OpenTyped
<1>6. ASSUME NEW x \in Targets \ miscounted'
      PROVE  Of(outstanding', x) = Num(up', Asks, x) + Num(down', Answers, x)
  <2>1. Num(up, Asks, x) \in Nat /\ Num(down', Answers, x) \in Nat
        /\ One(Head(down), Answers, x) \in Nat
    BY <1>3, NumNat DEF One
  <2>2. Of(outstanding, x) =
          Num(up, Asks, x) + Num(down', Answers, x) + One(Head(down), Answers, x)
    BY <1>2, <1>6
  <2>3. Of(outstanding', x) = Of(outstanding, x) - One(Head(down), Answers, x)
    BY <1>6
  <2>4. Num(up', Asks, x) = Num(up, Asks, x)
    OBVIOUS
  <2> QED  BY <2>1, <2>2, <2>3, <2>4
<1>7. Counting' /\ Following'
  BY <1>1, <1>2, <1>6 DEF Counting, Following
<1>8. Renews(down', watched')
  BY <1>1
<1> QED  BY <1>5, <1>7, <1>8 DEF Watching

LEMMA AnswersSteps ==
  ASSUME Watching, TargetAdded \/ TargetRemoved
  PROVE  Watching'
<1> DEFINE t == Head(down).target
<1>1. CountsOK(outstanding) /\ resets \subseteq Targets /\ \A x \in Targets : Of(outstanding, x) \in Int
  BY TypedParts DEF Watching
<1>2. UNCHANGED <<targets, miscounted, up>> /\ idle' = idle /\ resets' \subseteq Targets
  BY <1>1 DEF TargetAdded, TargetRemoved
<1>3. /\ \E k \in {"added", "removed"} : Receive({k})
      /\ t \in Targets /\ Head(down).kind \in Answers
  <2>1. \E k \in {"added", "removed"} : Receive({k})
    BY DEF TargetAdded, TargetRemoved
  <2>2. PICK k \in {"added", "removed"} : Receive({k})
    BY <2>1
  <2>3. Head(down).kind = k /\ (Head(down).kind # "snapshot" => t \in Targets)
    <3> DEFINE K == {k}
    <3>1. Receive(K)
      BY <2>2
    <3> HIDE DEF K
    <3>2. Head(down).kind \in K /\ (Head(down).kind # "snapshot" => t \in Targets)
      BY <3>1, ReceiveIs
    <3> QED  BY <3>2 DEF K
  <2> QED  BY <2>1, <2>2, <2>3 DEF Answers
<1>4. \A x : One(Head(down), Answers, x) = IF x = t THEN 1 ELSE 0
  BY <1>3 DEF One
<1>5. \/ outstanding' = Counted(t, -1)
      \/ Count(t) = 1 /\ outstanding' = Restrict(outstanding, DOMAIN outstanding \ {t})
  BY DEF TargetAdded, TargetRemoved
<1> HIDE DEF t
<1>6. CountsOK(outstanding') /\ Of(outstanding', t) = Of(outstanding, t) - 1
      /\ \A x : x # t => Of(outstanding', x) = Of(outstanding, x)
  <2>1. CASE outstanding' = Counted(t, -1)
    <3>1. CountsOK(outstanding') /\ Of(outstanding', t) = Of(outstanding, t) + (-1)
          /\ \A x : x # t => Of(outstanding', x) = Of(outstanding, x)
      BY <1>1, <1>3, <2>1, CountedIs
    <3> QED  BY <1>1, <1>3, <3>1
  <2>2. CASE Count(t) = 1 /\ outstanding' = Restrict(outstanding, DOMAIN outstanding \ {t})
    <3>1. CountsOK(outstanding') /\ Of(outstanding', t) = 0
          /\ \A x : x # t => Of(outstanding', x) = Of(outstanding, x)
      BY <1>1, <2>2, ForgottenIs
    <3>2. Of(outstanding, t) = 1
      BY <2>2, CountIs
    <3> QED  BY <3>1, <3>2
  <2> QED  BY <1>5, <2>1, <2>2
<1>7. \A x \in Targets : Of(outstanding', x) = Of(outstanding, x) - One(Head(down), Answers, x)
  BY <1>1, <1>4, <1>6
<1>8. PICK k \in {"added", "removed"} : Receive({k})
  BY <1>3
<1>9. {k} \cap WithCause = {}
  BY <1>8 DEF WithCause
<1> QED  BY <1>2, <1>6, <1>7, <1>8, <1>9, QuietReceive

LEMMA ContentSteps ==
  ASSUME Watching, TargetChanges \/ HandleExistenceFilter
  PROVE  Watching'
<1> DEFINE t == Head(down).target
<1>1. CountsOK(outstanding) /\ resets \subseteq Targets /\ \A x \in Targets : Of(outstanding, x) \in Int
  BY TypedParts DEF Watching
<1>2. UNCHANGED <<targets, miscounted, up>> /\ idle' = idle
  BY DEF TargetChanges, HandleExistenceFilter
<1>3. /\ \E k \in {"changes", "filter"} : Receive({k})
      /\ t \in Targets /\ Head(down).kind \notin Answers
  <2>1. \E k \in {"changes", "filter"} : Receive({k})
    BY DEF TargetChanges, HandleExistenceFilter
  <2>2. PICK k \in {"changes", "filter"} : Receive({k})
    BY <2>1
  <2>3. Head(down).kind = k /\ (Head(down).kind # "snapshot" => t \in Targets)
    <3> DEFINE K == {k}
    <3>1. Receive(K)
      BY <2>2
    <3> HIDE DEF K
    <3>2. Head(down).kind \in K /\ (Head(down).kind # "snapshot" => t \in Targets)
      BY <3>1, ReceiveIs
    <3> QED  BY <3>2 DEF K
  <2> QED  BY <2>1, <2>2, <2>3 DEF Answers
<1>4. \A x : One(Head(down), Answers, x) = 0
  BY <1>3 DEF One
<1>5. \/ outstanding' = Counted(t, 0)
      \/ outstanding' = outstanding
  BY DEF TargetChanges, HandleExistenceFilter
<1>6. resets' \subseteq Targets
  BY <1>1, <1>3 DEF TargetChanges, HandleExistenceFilter
<1> HIDE DEF t
<1>7. CountsOK(outstanding') /\ \A x \in Targets : Of(outstanding', x) = Of(outstanding, x)
  <2>1. CASE outstanding' = Counted(t, 0)
    <3>1. CountsOK(outstanding') /\ Of(outstanding', t) = Of(outstanding, t) + 0
          /\ \A x : x # t => Of(outstanding', x) = Of(outstanding, x)
      BY <1>1, <1>3, <2>1, CountedIs
    <3> QED  BY <1>1, <1>3, <3>1
  <2> QED  BY <1>1, <1>5, <2>1
<1>8. \A x \in Targets : Of(outstanding', x) = Of(outstanding, x) - One(Head(down), Answers, x)
  BY <1>1, <1>4, <1>7
<1>9. PICK k \in {"changes", "filter"} : Receive({k})
  BY <1>3
<1>10. {k} \cap WithCause = {}
  BY <1>9 DEF WithCause
<1> QED  BY <1>2, <1>6, <1>7, <1>8, <1>9, <1>10, QuietReceive

LEMMA AgreesWithout ==
  ASSUME NEW u \in Seq(Asking), NEW d, NEW W, NEW T, NEW t, t \notin T, t \notin W,
         Num(u, Asks, t) = 0
  PROVE  Agrees(u, d, W, T, t)
<1>1. ~ \E i \in DOMAIN u : u[i].target = t
  BY MentionsMeans DEF Mentions
<1>2. LastSays(u, t, t \in T)
  BY <1>1 DEF LastSays
<1> QED  BY <1>2 DEF Agrees

(* Only for a target that is not counted right any more may the server and   *)
(* the client part.                                                          *)
LEMMA ProcessTargetErrorStep ==
  ASSUME Watching, ProcessTargetError
  PROVE  Watching'
<1> DEFINE h == Head(down)
           t == h.target
           due == One(h, Answers, t)
<1>1. Receive(WithCause) /\ UNCHANGED <<idle, resets, up>>
  BY DEF ProcessTargetError
<1>2. /\ state = "Open" /\ state' = "Open" /\ network' = network /\ watched' = watched
      /\ online' = UpdatedTo("Online") /\ untimed' = FALSE /\ heard' = TRUE
      /\ down \in Seq(Message) /\ down # <<>> /\ down' = Tail(down) /\ DownOK(down')
      /\ h.kind \in WithCause /\ (h.kind # "snapshot" => t \in Targets)
      /\ Renews(down', watched)
  BY <1>1, ReceiveIs
<1>3. \A x \in Targets \ miscounted :
        /\ Of(outstanding, x) = Num(up, Asks, x) + Num(down', Answers, x) + One(h, Answers, x)
        /\ t # x => Agrees(up, down', watched, targets, x)
  BY <1>1, ReceiveIs
<1>4. t \in Targets /\ due = IF h.kind = "refused" THEN 1 ELSE 0
  BY <1>2 DEF WithCause, One, Answers
<1>5. /\ Typed /\ TargetsOK(targets) /\ network \in BOOLEAN /\ idle \in BOOLEAN
      /\ CountsOK(outstanding) /\ resets \subseteq Targets
      /\ up \in Seq(Asking) /\ watched \subseteq Targets /\ down' \in Seq(Message)
  BY <1>2, TypedParts DEF Watching, DownOK
<1>6. \/ /\ t \in targets /\ targets' = targets \ {t}
         /\ outstanding' = Restrict(outstanding, DOMAIN outstanding \ {t})
         /\ miscounted' = IF Of(outstanding, t) = due THEN miscounted ELSE miscounted \cup {t}
      \/ /\ t \notin targets /\ targets' = targets /\ outstanding' = outstanding
         /\ miscounted' = IF due = 0 THEN miscounted ELSE miscounted \cup {t}
  BY <1>4, CountIs DEF ProcessTargetError
<1>7. /\ \A x \in Targets \ miscounted :
           /\ Agrees(up, down, watched, targets, x)
      /\ Renews(down, watched)
  BY <1>2, WatchingOpen
<1>8. Num(Tail(down), Answers, t) = 0 => t \notin watched
  BY <1>2, <1>7, RenewsTail
<1>9. \A x : x # t => One(h, Answers, x) = 0
  BY DEF One
<1>10. \A x : Num(up, Asks, x) \in Nat /\ Num(down', Answers, x) \in Nat
  BY <1>5, NumNat
<1>11. due \in Nat
  BY <1>4
<1> HIDE DEF due, t
<1>12. CountsOK(outstanding') /\ \A x : x # t => Of(outstanding', x) = Of(outstanding, x)
  BY <1>5, <1>6, ForgottenIs
<1>13. /\ TargetsOK(targets') /\ miscounted \subseteq miscounted'
       /\ t \notin targets' /\ \A x : x # t => (x \in targets' <=> x \in targets)
  BY <1>5, <1>6, FS_RemoveElement DEF TargetsOK
<1>14. Typed'
  <2>1. online' \in Onlines
    BY <1>2, UpdatedIs
  <2> QED  BY <1>1, <1>2, <1>5, <1>12, <1>13, <2>1, OpenTyped
<1>15. ASSUME t \notin miscounted'
       PROVE  /\ Of(outstanding', t) = Num(up, Asks, t) + Num(down', Answers, t)
              /\ Agrees(up, down', watched, targets', t)
  <2>1. t \in Targets \ miscounted
    BY <1>4, <1>13, <1>15
  <2>2. Of(outstanding, t) = Num(up, Asks, t) + Num(down', Answers, t) + due
    BY <1>3, <2>1 DEF due
  <2>3. CASE t \in targets
    <3>1. Of(outstanding, t) = due
      BY <1>6, <1>15, <2>3
    <3>2. Num(up, Asks, t) = 0 /\ Num(down', Answers, t) = 0
      BY <1>10, <1>11, <2>2, <3>1
    <3>3. Of(outstanding', t) = 0
      BY <1>5, <1>6, <2>3, ForgottenIs
    <3>4. t \notin watched
      BY <1>2, <1>8, <3>2
    <3>5. Agrees(up, down', watched, targets', t)
      BY <1>5, <1>13, <3>2, <3>4, AgreesWithout
    <3> QED  BY <3>2, <3>3, <3>5
  <2>4. CASE t \notin targets
    <3>1. due = 0 /\ outstanding' = outstanding
      BY <1>6, <1>15, <2>4
    <3>2. Of(outstanding', t) = Num(up, Asks, t) + Num(down', Answers, t)
      BY <1>10, <2>2, <3>1
    <3>3. Agrees(up, down, watched, targets, t)
      BY <1>7, <2>1
    <3>4. LastSays(up, t, t \in targets')
      BY <1>13, <2>4, <3>3 DEF Agrees, LastSays
    <3>5. Agrees(up, down', watched, targets', t)
      BY <1>13, <2>4, <3>3, <3>4 DEF Agrees
    <3> QED  BY <3>2, <3>5
  <2> QED  BY <2>3, <2>4
<1>16. ASSUME NEW x \in Targets \ miscounted', x # t
       PROVE  /\ Of(outstanding', x) = Num(up, Asks, x) + Num(down', Answers, x)
              /\ Agrees(up, down', watched, targets', x)
  <2>1. x \in Targets \ miscounted
    BY <1>13, <1>16
  <2>2. Of(outstanding, x) = Num(up, Asks, x) + Num(down', Answers, x) + One(h, Answers, x)
        /\ Agrees(up, down', watched, targets, x)
    BY <1>3, <1>16, <2>1 DEF t
  <2>3. Of(outstanding', x) = Num(up, Asks, x) + Num(down', Answers, x)
    BY <1>9, <1>10, <1>12, <1>16, <2>2
  <2>4. LastSays(up, x, x \in targets')
    BY <1>13, <1>16, <2>2 DEF Agrees, LastSays
  <2>5. Agrees(up, down', watched, targets', x)
    BY <1>13, <1>16, <2>2, <2>4 DEF Agrees
  <2> QED  BY <2>3, <2>5
<1>17. Counting' /\ Following'
  <2>1. \A x \in Targets \ miscounted' :
          /\ Of(outstanding', x) = Num(up, Asks, x) + Num(down', Answers, x)
          /\ Agrees(up, down', watched, targets', x)
    BY <1>15, <1>16
  <2>2. up' = up /\ watched' = watched
    BY <1>1, <1>2
  <2> QED  BY <2>1, <2>2 DEF Counting, Following
<1>18. Renews(down', watched')
  BY <1>2
<1> QED  BY <1>14, <1>17, <1>18 DEF Watching

(* An unlisten and a listen for every target of T.                           *)
LEMMA ListensAgain ==
  ASSUME NEW T, TargetsOK(T), NEW V, T \subseteq V
  PROVE  LET again == SetToSeq(T)
             reqs  == [i \in 1 .. 2 * Len(again) |->
                        Request(IF i % 2 = 1 THEN "unlisten" ELSE "listen", again[(i + 1) \div 2])]
         IN  /\ reqs \in Seq(Asking)
             /\ \A x : Mentions(reqs, x) <=> x \in T
             /\ \A x : LastSays(reqs, x, x \in V)
<1> DEFINE again == SetToSeq(T)
           n == Len(again)
           kind(i) == IF i % 2 = 1 THEN "unlisten" ELSE "listen"
           place(i) == (i + 1) \div 2
           reqs == [i \in 1 .. 2 * n |-> Request(kind(i), again[place(i)])]
<1>1. again \in Seq(T) /\ \A x \in T : \E i \in DOMAIN again : again[i] = x
  BY SetToSeqIs DEF TargetsOK
<1> HIDE DEF again
<1>2. n \in Nat /\ DOMAIN again = 1 .. n /\ \A i \in 1 .. n : again[i] \in T
  BY <1>1, SeqParts
<1> HIDE DEF n
<1>3. \A i \in 1 .. 2 * n : place(i) \in 1 .. n /\ kind(i) \in Asks
  BY <1>2 DEF Asks
<1>4. \A i \in 1 .. 2 * n : i % 2 = 1 => i + 1 \in 1 .. 2 * n /\ place(i + 1) = place(i)
  BY <1>2
<1>5. \A k \in 1 .. n : 2 * k \in 1 .. 2 * n /\ place(2 * k) = k
  BY <1>2
<1>6. \A i \in 1 .. 2 * n : i % 2 # 1 => kind(i) = "listen"
  OBVIOUS
<1> HIDE DEF place
<1>7. \A i \in 1 .. 2 * n :
        /\ Request(kind(i), again[place(i)]) \in Asking
        /\ Request(kind(i), again[place(i)]).kind = kind(i)
        /\ Request(kind(i), again[place(i)]).target = again[place(i)]
  <2>1. \A i \in 1 .. 2 * n : again[place(i)] \in Targets
    BY <1>2, <1>3 DEF TargetsOK
  <2> HIDE DEF kind
  <2> QED  BY <1>3, <2>1 DEF Request, Asking
<1> HIDE DEF kind
<1>8. DOMAIN reqs = 1 .. 2 * n
      /\ \A i \in 1 .. 2 * n : reqs[i].kind = kind(i) /\ reqs[i].target = again[place(i)]
  BY <1>7
<1>9. reqs \in [1 .. 2 * n -> Asking] /\ 2 * n \in Nat
  BY <1>2, <1>7
<1> HIDE DEF reqs
<1>10. reqs \in Seq(Asking)
  BY <1>9, FunctionIsSeq
<1>11. ASSUME NEW x  PROVE Mentions(reqs, x) <=> x \in T
  <2>1. Mentions(reqs, x) <=> \E i \in DOMAIN reqs : reqs[i].target = x
    BY <1>10, MentionsMeans
  <2>2. ASSUME NEW i \in DOMAIN reqs, reqs[i].target = x  PROVE x \in T
    BY <1>2, <1>3, <1>8, <2>2
  <2>3. ASSUME x \in T  PROVE \E i \in DOMAIN reqs : reqs[i].target = x
    <3>1. PICK k \in 1 .. n : again[k] = x
      BY <1>1, <1>2, <2>3
    <3>2. 2 * k \in 1 .. 2 * n /\ place(2 * k) = k
      BY <1>5
    <3> QED  BY <1>8, <3>1, <3>2
  <2> QED  BY <2>1, <2>2, <2>3
<1>12. ASSUME NEW x  PROVE LastSays(reqs, x, x \in V)
  <2>1. ASSUME NEW i \in DOMAIN reqs, reqs[i].target = x,
               \A j \in DOMAIN reqs : j > i => reqs[j].target # x
        PROVE  reqs[i].kind = "listen" /\ x \in V
    <3>1. x \in V
      BY <1>2, <1>3, <1>8, <2>1
    <3>2. i % 2 # 1
      <4>1. ASSUME i % 2 = 1  PROVE FALSE
        <5>1. i \in 1 .. 2 * n /\ i + 1 \in 1 .. 2 * n /\ place(i + 1) = place(i)
          BY <1>4, <1>8, <2>1, <4>1
        <5>2. i + 1 > i
          BY <5>1
        <5> QED  BY <1>8, <2>1, <5>1, <5>2
      <4> QED  BY <4>1
    <3> QED  BY <1>6, <1>8, <2>1, <3>1, <3>2
  <2> QED  BY <2>1 DEF LastSays
<1> QED  BY <1>10, <1>11, <1>12 DEF reqs, kind, place, n, again

LEMMA RaiseWatchSnapshotStep ==
  ASSUME Watching, RaiseWatchSnapshot
  PROVE  Watching'
<1> DEFINE T == resets \cap targets
           again == SetToSeq(T)
           reqs == [i \in 1 .. 2 * Len(again) |->
                     Request(IF i % 2 = 1 THEN "unlisten" ELSE "listen", again[(i + 1) \div 2])]
<1>1. /\ Receive({"snapshot"}) /\ resets' = {} /\ Send(reqs)
      /\ targets' = targets /\ miscounted' = miscounted
  BY DEF RaiseWatchSnapshot
<1>2. /\ Typed /\ TargetsOK(targets) /\ network \in BOOLEAN
  BY TypedParts DEF Watching
<1>3. TargetsOK(T) /\ T \subseteq targets
  BY <1>2, FS_Subset DEF TargetsOK
<1> HIDE DEF T
<1>4. /\ reqs \in Seq(Asking)
      /\ \A x : Mentions(reqs, x) <=> x \in T
      /\ \A x : LastSays(reqs, x, x \in targets)
  BY <1>3, ListensAgain
<1> HIDE DEF reqs
<1>5. Sent(reqs) /\ idle' \in BOOLEAN
  BY <1>1, <1>2, <1>4, SentIs
<1> DEFINE K == {"snapshot"}
<1>6. Receive(K)
  BY <1>1
<1>7. \A k \in K : k \notin Answers /\ k \notin WithCause
  BY DEF Answers, WithCause
<1> HIDE DEF K
<1>8. /\ state' = "Open" /\ network' = network /\ watched' = watched
      /\ online' = UpdatedTo("Online") /\ untimed' = FALSE /\ heard' = TRUE
      /\ Head(down).kind \in K /\ DownOK(down') /\ Renews(down', watched)
      /\ \A x \in Targets \ miscounted :
           /\ Of(outstanding, x) =
                Num(up, Asks, x) + Num(down', Answers, x) + One(Head(down), Answers, x)
           /\ Head(down).target # x \/ Head(down).kind \notin WithCause =>
                Agrees(up, down', watched, targets, x)
  BY <1>6, ReceiveIs
<1>9. \A x : Num(up, Asks, x) \in Nat /\ Num(down', Answers, x) \in Nat
  <2>1. up \in Seq(Asking) /\ down' \in Seq(Message)
    BY <1>2, <1>8, TypedParts DEF DownOK
  <2> QED  BY <2>1, NumNat
<1>10. ASSUME NEW x \in Targets \ miscounted'
       PROVE  /\ Of(outstanding, x) = Num(up, Asks, x) + Num(down', Answers, x)
              /\ LastSays(reqs, x, x \in targets')
              /\ \/ Mentions(reqs, x)
                 \/ Agrees(up, down', watched, targets, x) /\ (x \in targets' <=> x \in targets)
  <2>1. x \in Targets \ miscounted /\ targets' = targets
    BY <1>1, <1>10
  <2>2. One(Head(down), Answers, x) = 0 /\ Head(down).kind \notin WithCause
    BY <1>7, <1>8 DEF One
  <2>3. Of(outstanding, x) = Num(up, Asks, x) + Num(down', Answers, x)
    BY <1>8, <1>9, <2>1, <2>2
  <2>4. Agrees(up, down', watched, targets, x)
    BY <1>8, <2>1, <2>2
  <2>5. LastSays(reqs, x, x \in targets')
    BY <1>4, <2>1
  <2> QED  BY <2>1, <2>3, <2>4, <2>5
<1>11. online' \in Onlines /\ untimed' \in BOOLEAN /\ resets' \subseteq Targets
       /\ TargetsOK(targets') /\ network' \in BOOLEAN
  BY <1>1, <1>2, <1>8, UpdatedIs
<1> QED  BY <1>2, <1>4, <1>5, <1>8, <1>10, <1>11, SendStep

-----------------------------------------------------------------------------
(* What the server does.                                                     *)

Item(kind, t) == [kind |-> kind, target |-> t]

LEMMA ItemIs ==
  ASSUME NEW k \in Kinds, NEW t \in Targets \cup {NoTarget}
  PROVE  Item(k, t) \in Message /\ Item(k, t).kind = k /\ Item(k, t).target = t
BY DEF Item, Message

LEMMA CauseAppended ==
  ASSUME NEW d \in Seq(Message), NEW e \in Message, NEW t
  PROVE  /\ CauseIn(d, t) => CauseIn(Append(d, e), t)
         /\ e.target = t /\ e.kind \in WithCause => CauseIn(Append(d, e), t)
<1>1. Num(Append(d, e), WithCause, t) = Num(d, WithCause, t) + One(e, WithCause, t)
  BY NumAppend
<1>2. Num(d, WithCause, t) \in Nat /\ One(e, WithCause, t) \in Nat
  BY NumNat DEF One
<1>3. e.target = t /\ e.kind \in WithCause => One(e, WithCause, t) = 1
  BY DEF One
<1> QED  BY <1>1, <1>2, <1>3 DEF CauseIn

(* One message more, and what it answers.                                    *)
LEMMA SayStep ==
  ASSUME Watching, state = "Open", NEW k \in Kinds, NEW t \in Targets \cup {NoTarget},
         k # "snapshot" => t \in Targets,
         down' = Append(down, Item(k, t)),
         UNCHANGED <<network, targets, state, idle, aggregatorVars, online, untimed, heard>>,
         watched' \subseteq Targets, up' \in Seq(Asking),
         \A x \in watched' : x \in watched \/ (k = "added" /\ t = x),
         k \in WithCause => t \notin watched',
         \A x \in Targets \ miscounted :
           /\ Num(up, Asks, x) = Num(up', Asks, x) + One(Item(k, t), Answers, x)
           /\ Agrees(up', down', watched', targets, x)
  PROVE  Watching'
<1> DEFINE e == Item(k, t)
<1>1. /\ e \in Message /\ e.kind = k /\ e.target = t
  BY ItemIs
<1>2. /\ Typed /\ DownOK(down) /\ down \in Seq(Message) /\ TargetsOK(targets)
      /\ network \in BOOLEAN /\ idle \in BOOLEAN /\ untimed \in BOOLEAN /\ online \in Onlines
      /\ CountsOK(outstanding) /\ resets \subseteq Targets /\ heard \in BOOLEAN
  BY TypedParts DEF Watching
<1>3. /\ outstanding' = outstanding /\ resets' = resets /\ miscounted' = miscounted
      /\ network' = network /\ targets' = targets /\ state' = state /\ idle' = idle
      /\ online' = online /\ untimed' = untimed /\ heard' = heard
  BY DEF aggregatorVars
<1>4. /\ \A x \in Targets \ miscounted :
           Of(outstanding, x) = Num(up, Asks, x) + Num(down, Answers, x)
      /\ Renews(down, watched)
  BY WatchingOpen
<1>5. down' = Append(down, e)
  OBVIOUS
<1>6. \A x \in Targets \ miscounted :
        Num(up, Asks, x) = Num(up', Asks, x) + One(e, Answers, x)
  OBVIOUS
<1> HIDE DEF e
<1>7. DownOK(down') /\ down' \in Seq(Message)
  <2> DEFINE n == Len(down)
             c == Append(down, e)
  <2>1. /\ c \in Seq(Message) /\ Len(c) = n + 1
        /\ \A i \in 1 .. n : c[i] = down[i]
        /\ c[n + 1] = e
    BY <1>1, <1>2, AppendProperties
  <2>2. n \in Nat /\ DOMAIN down = 1 .. n /\ DOMAIN c = 1 .. n + 1
    BY <1>2, <2>1, SeqParts
  <2> HIDE DEF n, c
  <2>3. ASSUME NEW i \in DOMAIN c, c[i].kind # "snapshot"  PROVE c[i].target \in Targets
    <3>1. CASE i = n + 1
      BY <1>1, <2>1, <2>3, <3>1
    <3>2. CASE i # n + 1
      <4>1. i \in 1 .. n
        BY <2>2, <3>2
      <4> QED  BY <1>2, <2>1, <2>2, <2>3, <4>1 DEF DownOK
    <3> QED  BY <3>1, <3>2
  <2>4. DownOK(c)
    BY <2>1, <2>3 DEF DownOK
  <2> QED  BY <1>5, <2>1, <2>4 DEF c
<1>8. Typed'
  BY <1>2, <1>3, <1>7, OpenTyped
<1>9. Renews(down', watched')
  <2> DEFINE V == watched'
  <2>1. /\ \A x \in V : x \in watched \/ (e.kind = "added" /\ e.target = x)
        /\ e.kind \in WithCause => e.target \notin V
    BY <1>1
  <2> HIDE DEF V
  <2>2. Renews(Append(down, e), V)
    BY <1>1, <1>2, <1>4, <2>1, RenewsAppend
  <2> QED  BY <1>5, <2>2 DEF V
<1>10. ASSUME NEW x \in Targets \ miscounted
       PROVE  Of(outstanding, x) = Num(up', Asks, x) + Num(down', Answers, x)
  <2>1. Num(Append(down, e), Answers, x) = Num(down, Answers, x) + One(e, Answers, x)
    BY <1>1, <1>2, NumAppend
  <2>2. Num(down', Answers, x) = Num(down, Answers, x) + One(e, Answers, x)
    BY <1>5, <2>1
  <2>3. Num(up', Asks, x) \in Nat /\ Num(down, Answers, x) \in Nat /\ One(e, Answers, x) \in Nat
    BY <1>2, NumNat DEF One
  <2>4. Of(outstanding, x) = Num(up, Asks, x) + Num(down, Answers, x)
    BY <1>4
  <2>5. Num(up, Asks, x) = Num(up', Asks, x) + One(e, Answers, x)
    BY <1>6
  <2> QED  BY <2>2, <2>3, <2>4, <2>5
<1>11. Counting' /\ Following'
  <2>1. \A x \in Targets \ miscounted : Agrees(up', down', watched', targets, x)
    OBVIOUS
  <2> QED  BY <1>3, <1>10, <2>1 DEF Counting, Following
<1> QED  BY <1>8, <1>9, <1>11 DEF Watching

LEMMA ServerAnswersSteps ==
  ASSUME Watching, ServerAnswers \/ ServerRefuses
  PROVE  Watching'
<1> DEFINE h == Head(up)
           t == h.target
<1>1. /\ up # <<>> /\ up' = Tail(up)
      /\ UNCHANGED <<network, targets, state, idle, aggregatorVars, online, untimed, heard>>
  BY DEF ServerAnswers, ServerRefuses, Say
<1>2. /\ Typed /\ up \in Seq(Asking) /\ down \in Seq(Message) /\ watched \subseteq Targets
  BY TypedParts DEF Watching
<1>3. state = "Open"
  BY <1>1, <1>2, NotOpen
<1>4. h \in Asking /\ up' \in Seq(Asking)
  BY <1>1, <1>2, HeadAndTail
<1>5. t \in Targets /\ h.kind \in Asks
  BY <1>4 DEF Asking
<1>6. PICK k \in Answers :
        /\ down' = Append(down, Item(k, t))
        /\ \/ h.kind = "listen" /\ k = "added" /\ watched' = watched \cup {t}
           \/ h.kind = "unlisten" /\ k = "removed" /\ watched' = watched \ {t}
           \/ h.kind = "listen" /\ k = "refused" /\ watched' = watched \ {t}
  BY DEF ServerAnswers, ServerRefuses, Say, Item, Answers
<1>7. k \in Kinds /\ k # "snapshot" /\ (k \in WithCause => k = "refused")
  BY <1>6 DEF Kinds, Answers, WithCause
<1> DEFINE e == Item(k, t)
<1>8. e \in Message /\ e.kind = k /\ e.target = t
  BY <1>5, <1>7, ItemIs
<1>9. \A x \in Targets \ miscounted : Agrees(up, down, watched, targets, x)
  BY <1>3, WatchingOpen
<1>10. \A x : Num(up, Asks, x) = Num(up', Asks, x) + One(h, Asks, x)
  BY <1>1, <1>2, NumTail
<1>11. \A x, b : LastSays(up, x, b) =>
         /\ LastSays(up', x, b)
         /\ t = x /\ ~Mentions(up', x) => (h.kind = "listen" <=> b)
  BY <1>1, <1>2, LastTail
<1>12. \A x : CauseIn(down, x) => CauseIn(down', x)
  BY <1>2, <1>6, <1>8, CauseAppended
<1>13. k = "refused" => CauseIn(down', t)
  <2>1. "refused" \in WithCause
    BY DEF WithCause
  <2> QED  BY <1>2, <1>6, <1>8, <2>1, CauseAppended
<1>14. \A x : One(h, Asks, x) = One(e, Answers, x) /\ One(h, Asks, x) = IF x = t THEN 1 ELSE 0
  BY <1>5, <1>6, <1>8 DEF One
<1>15. \A x : Num(up', Asks, x) \in Nat
  BY <1>4, NumNat
<1>16. \A x : Num(up, Asks, x) = Num(up', Asks, x) + One(e, Answers, x)
  BY <1>10, <1>14
<1>17. \A x : x # t /\ ~Mentions(up', x) => ~Mentions(up, x)
  BY <1>10, <1>14, <1>15 DEF Mentions
<1> HIDE DEF h, t, e
<1>18. ASSUME NEW x \in Targets \ miscounted
       PROVE  Agrees(up', down', watched', targets, x)
  <2>1. LastSays(up', x, x \in targets)
        /\ (t = x /\ ~Mentions(up', x) => (h.kind = "listen" <=> x \in targets))
    <3> DEFINE b == x \in targets
    <3>1. LastSays(up, x, b)
      BY <1>9 DEF Agrees
    <3> HIDE DEF b
    <3>2. LastSays(up', x, b) /\ (t = x /\ ~Mentions(up', x) => (h.kind = "listen" <=> b))
      BY <1>11, <3>1
    <3> QED  BY <3>2 DEF b
  <2>2. ASSUME ~Mentions(up', x)
        PROVE  /\ x \in watched' => x \in targets
               /\ x \in targets => x \in watched' \/ CauseIn(down', x)
    <3>1. CASE x # t
      <4>1. ~Mentions(up, x) /\ (x \in watched' <=> x \in watched)
        BY <1>6, <1>17, <2>2, <3>1
      <4> QED  BY <1>9, <1>12, <4>1 DEF Agrees
    <3>2. CASE x = t
      <4>1. h.kind = "listen" <=> x \in targets
        BY <2>1, <2>2, <3>2
      <4>2. \/ x \in watched' /\ h.kind = "listen"
            \/ x \notin watched' /\ h.kind # "listen"
            \/ x \notin watched' /\ h.kind = "listen" /\ k = "refused"
        BY <1>6, <3>2
      <4> QED  BY <1>13, <3>2, <4>1, <4>2
    <3> QED  BY <3>1, <3>2
  <2> QED  BY <2>1, <2>2 DEF Agrees
<1>19. /\ \A x \in watched' : x \in watched \/ (k = "added" /\ t = x)
       /\ k \in WithCause => t \notin watched'
       /\ watched' \subseteq Targets
  BY <1>2, <1>5, <1>6, <1>7
<1>20. \A x \in Targets \ miscounted :
         /\ Num(up, Asks, x) = Num(up', Asks, x) + One(Item(k, t), Answers, x)
         /\ Agrees(up', down', watched', targets, x)
  BY <1>16, <1>18 DEF e
<1> QED  BY <1>1, <1>3, <1>4, <1>5, <1>6, <1>7, <1>19, <1>20, SayStep

(* What the server says without having been asked.                           *)
LEMMA UnaskedSteps ==
  ASSUME Watching, ServerSnapshot \/ \E t \in Targets : ServerRevokes(t) \/ ServerSends(t)
  PROVE  Watching'
<1>1. /\ up' = up /\ UNCHANGED <<network, targets, state, idle, aggregatorVars, online, untimed, heard>>
  BY DEF ServerSnapshot, ServerRevokes, ServerSends, Say
<1>2. /\ Typed /\ up \in Seq(Asking) /\ down \in Seq(Message) /\ watched \subseteq Targets
  BY TypedParts DEF Watching
<1>3. PICK k \in {"snapshot", "revoked", "changes", "filter"}, t \in Targets \cup {NoTarget} :
        /\ down' = Append(down, Item(k, t)) /\ state = "Open"
        /\ \/ k # "revoked" /\ watched' = watched /\ (k = "snapshot" \/ t \in Targets)
           \/ k = "revoked" /\ t \in Targets /\ watched' = watched \ {t}
  <2>1. CASE ServerSnapshot
    BY <2>1 DEF ServerSnapshot, Say, Item
  <2>2. ASSUME NEW t \in Targets, ServerRevokes(t) \/ ServerSends(t)
        PROVE  /\ state = "Open"
               /\ \E k \in {"revoked", "changes", "filter"} :
                    /\ down' = Append(down, Item(k, t))
                    /\ \/ k # "revoked" /\ watched' = watched
                       \/ k = "revoked" /\ watched' = watched \ {t}
    <3>1. t \in watched
      BY <2>2 DEF ServerRevokes, ServerSends
    <3>2. state = "Open"
      BY <1>2, <3>1, NotOpen
    <3> QED  BY <2>2, <3>2 DEF ServerRevokes, ServerSends, Say, Item
  <2> QED  BY <2>1, <2>2
<1>4. k \in Kinds /\ k \notin Answers /\ (k \in WithCause <=> k = "revoked")
      /\ k # "added" /\ (k # "snapshot" => t \in Targets)
  BY <1>3 DEF Kinds, Answers, WithCause
<1> DEFINE e == Item(k, t)
<1>5. e \in Message /\ e.kind = k /\ e.target = t
  BY <1>3, <1>4, ItemIs
<1>6. \A x : One(e, Answers, x) = 0
  BY <1>4, <1>5 DEF One
<1>7. \A x \in Targets \ miscounted : Agrees(up, down, watched, targets, x)
  BY <1>3, WatchingOpen
<1>8. \A x : (CauseIn(down, x) => CauseIn(down', x)) /\ (k = "revoked" /\ x = t => CauseIn(down', x))
  <2>1. \A x : /\ CauseIn(down, x) => CauseIn(Append(down, e), x)
               /\ e.target = x /\ e.kind \in WithCause => CauseIn(Append(down, e), x)
    BY <1>2, <1>5, CauseAppended
  <2> QED  BY <1>3, <1>4, <1>5, <2>1
<1>9. \A x : Num(up, Asks, x) \in Nat
  BY <1>2, NumNat
<1> HIDE DEF e
<1>10. ASSUME NEW x \in Targets \ miscounted
       PROVE  Agrees(up', down', watched', targets, x)
  <2>1. LastSays(up', x, x \in targets) /\ (Mentions(up', x) <=> Mentions(up, x))
    BY <1>1, <1>7 DEF Agrees
  <2>2. ASSUME ~Mentions(up, x)
        PROVE  /\ x \in watched' => x \in targets
               /\ x \in targets => x \in watched' \/ CauseIn(down', x)
    BY <1>3, <1>7, <1>8, <2>2 DEF Agrees
  <2> QED  BY <2>1, <2>2 DEF Agrees
<1>11. /\ \A x \in watched' : x \in watched
       /\ k \in WithCause => t \notin watched'
       /\ watched' \subseteq Targets /\ up' \in Seq(Asking)
  BY <1>1, <1>2, <1>3, <1>4
<1>12. \A x \in Targets \ miscounted :
         /\ Num(up, Asks, x) = Num(up', Asks, x) + One(e, Answers, x)
         /\ Agrees(up', down', watched', targets, x)
  <2>1. \A x : Num(up', Asks, x) = Num(up, Asks, x)
    BY <1>1
  <2> QED  BY <1>6, <1>9, <1>10, <2>1
<1>13. down' = Append(down, Item(k, t)) /\ state = "Open"
  BY <1>3
<1> QED  BY <1>1, <1>3, <1>4, <1>11, <1>12, <1>13, SayStep DEF e

-----------------------------------------------------------------------------
(* The tracker and the idle timer.                                           *)

LEMMA TrackedSame ==
  ASSUME Tracked, UNCHANGED <<network, online, untimed, heard, idle, targets>>,
         state' = "Open" <=> state = "Open", Started(state') <=> Started(state)
  PROVE  Tracked'
BY DEF Tracked

LEMMA StartTracked ==
  ASSUME Typed, NEW st \in States, NEW o \in Onlines, StartWatchStream(st, o),
         o.failures # 0 => /\ o.state # "Online" /\ (o.timer => o.state = "Unknown")
                           /\ o.state = "Unknown" => o.timer \/ untimed,
         idle' = FALSE
  PROVE  Tracked'
<1>1. /\ state' # "Open" /\ Started(state') /\ online' = HandleStart(o)
      /\ untimed' = (untimed /\ o.failures # 0)
  BY StartTyped
<1>2. CASE o.failures = 0
  <2>1. online'.state = "Unknown" /\ online'.timer = TRUE
    BY <1>1, <1>2, HandleStartIs
  <2> QED  BY <1>1, <2>1 DEF Tracked
<1>3. CASE o.failures # 0
  <2>1. online' = o /\ untimed' = untimed
    BY <1>1, <1>3, HandleStartIs, TypedParts
  <2> QED  BY <1>1, <1>3, <2>1 DEF Tracked
<1> QED  BY <1>2, <1>3

LEMMA StartsAndStopsTracked ==
  ASSUME Watching, Tracked, NEW t \in Targets, Listen(t) \/ StopListening(t)
  PROVE  Tracked'
<1>1. Typed /\ state \in States /\ online \in Onlines /\ idle \in BOOLEAN /\ network \in BOOLEAN
      /\ untimed \in BOOLEAN
  BY TypedParts DEF Watching
<1>2. ASSUME Listen(t), ShouldStart(targets', state)  PROVE Tracked'
  <2>1. StartWatchStream(state, online) /\ idle' = idle /\ ~Started(state)
    BY <1>2 DEF Listen, ShouldStart
  <2>2. online.failures = 0 /\ idle = FALSE
    BY <1>1, <2>1 DEF Tracked, Started
  <2> QED  BY <1>1, <2>1, <2>2, StartTracked
<1>3. ASSUME Listen(t), ~ShouldStart(targets', state)  PROVE Tracked'
  <2>1. /\ UNCHANGED <<network, state, online, untimed, heard>> /\ targets' # {}
        /\ IF state = "Open" THEN Send(<<Request("listen", t)>>) ELSE idle' = idle
    BY <1>3 DEF Listen
  <2>2. idle' = FALSE
    <3>1. CASE state = "Open"
      <4>1. <<Request("listen", t)>> # <<>>
        OBVIOUS
      <4> QED  BY <2>1, <3>1, <4>1 DEF Send
    <3>2. CASE state # "Open"
      BY <1>1, <2>1, <3>2 DEF Tracked
    <3> QED  BY <3>1, <3>2
  <2> QED  BY <2>1, <2>2 DEF Tracked
<1>4. ASSUME StopListening(t)  PROVE Tracked'
  <2>1. /\ UNCHANGED <<network, state, heard>>
        /\ IF state = "Open" THEN idle' = (targets' = {}) ELSE idle' = idle
        /\ \/ /\ state # "Open" /\ network
              /\ online' = UpdatedTo("Unknown") /\ untimed' = TRUE
           \/ online' = online /\ untimed' = untimed
    BY <1>1, <1>4 DEF StopListening
  <2>2. idle' => state' = "Open" /\ targets' = {}
    BY <2>1 DEF Tracked
  <2>3. CASE online' = online /\ untimed' = untimed
    BY <2>1, <2>2, <2>3 DEF Tracked
  <2>4. CASE online' = UpdatedTo("Unknown") /\ untimed' = TRUE
    <3>1. online'.state = "Unknown" /\ online'.timer = FALSE /\ online'.failures = 0
      BY <2>4, UpdatedIs
    <3> QED  BY <2>1, <2>2, <2>4, <3>1 DEF Tracked
  <2> QED  BY <2>1, <2>3, <2>4
<1> QED  BY <1>2, <1>3, <1>4

(* The stream ends and none begins, or the network comes back to a stream    *)
(* that has begun.                                                           *)
LEMMA UpdatedTracked ==
  ASSUME NEW s \in {"Unknown", "Offline"}, online' = UpdatedTo(s),
         s = "Unknown" => untimed' = TRUE \/ ~Started(state'),
         idle' => state' = "Open" /\ targets' = {}
  PROVE  Tracked'
<1>1. online'.state = s /\ online'.timer = FALSE /\ online'.failures = 0
  BY UpdatedIs
<1> QED  BY <1>1 DEF Tracked

LEMMA ClosingTracked ==
  ASSUME Watching, Tracked, StreamFails \/ IdleTimeout \/ DisableNetwork \/ RestartNetwork
  PROVE  Tracked'
<1>1. Typed /\ state \in States /\ online \in Onlines
  BY TypedParts DEF Watching
<1>2. idle' = FALSE
  BY DEF StreamFails, IdleTimeout, DisableNetwork, RestartNetwork, DropWire
<1>3. ASSUME StreamFails, ShouldStart(targets, "Error")  PROVE Tracked'
  <2> DEFINE o == HandleFailure(online)
  <2>1. /\ StartWatchStream("Error", o) /\ "Error" \in States
        /\ Started(state) /\ network
    BY <1>3 DEF StreamFails, ShouldStart, States, Started
  <2>2. /\ o \in Onlines
        /\ online.state = "Online" => o.failures = online.failures
        /\ online.state # "Online" =>
             \/ o.state = "Offline" /\ o.timer = FALSE
             \/ o.state = online.state /\ o.timer = online.timer
    BY <1>1, HandleFailureIs
  <2> HIDE DEF o
  <2>3. online.state = "Online" => o.failures = 0
    BY <2>2 DEF Tracked
  <2>4. online.state # "Online" =>
          /\ o.state # "Online" /\ (o.timer => o.state = "Unknown")
          /\ o.state = "Unknown" => o.timer \/ untimed
    BY <2>1, <2>2 DEF Tracked
  <2> QED  BY <1>1, <1>2, <2>1, <2>2, <2>3, <2>4, StartTracked
<1>4. ASSUME \/ StreamFails /\ ~ShouldStart(targets, "Error")
             \/ IdleTimeout
             \/ RestartNetwork /\ targets = {}
      PROVE  Tracked'
  <2>1. online' = UpdatedTo("Unknown") /\ state' \in {"Error", "Initial"}
    BY <1>4 DEF StreamFails, IdleTimeout, RestartNetwork
  <2>2. ~Started(state')
    BY <2>1 DEF Started
  <2> QED  BY <1>2, <2>1, <2>2, UpdatedTracked
<1>5. ASSUME DisableNetwork  PROVE Tracked'
  <2>1. online' = UpdatedTo("Offline")
    BY <1>5 DEF DisableNetwork
  <2> QED  BY <1>2, <2>1, UpdatedTracked
<1>6. ASSUME RestartNetwork, targets # {}  PROVE Tracked'
  <2>1. StartWatchStream("Initial", UpdatedTo("Unknown")) /\ "Initial" \in States
    BY <1>6 DEF RestartNetwork, States
  <2>2. UpdatedTo("Unknown") \in Onlines /\ UpdatedTo("Unknown").failures = 0
    BY UpdatedIs
  <2> QED  BY <1>1, <1>2, <2>1, <2>2, StartTracked
<1> QED  BY <1>3, <1>4, <1>5, <1>6

LEMMA OtherTracked ==
  ASSUME Watching, Tracked,
         TokenArrives \/ EnableNetwork \/ BackoffElapsed \/ OnlineTimeout \/ UNCHANGED vars
  PROVE  Tracked'
<1>1. Typed /\ state \in States /\ online \in Onlines /\ idle \in BOOLEAN
  BY TypedParts DEF Watching
<1>2. CASE TokenArrives
  <2>1. /\ state = "Starting" /\ state' = "Open" /\ idle = FALSE
        /\ UNCHANGED <<network, targets, online, untimed, heard>>
    BY <1>1, <1>2 DEF TokenArrives, Tracked
  <2>2. idle' = FALSE
    BY <1>2, <2>1 DEF TokenArrives, Send
  <2>3. Started(state) /\ Started(state')
    BY <2>1 DEF Started
  <2> QED  BY <2>1, <2>2, <2>3 DEF Tracked
<1>3. CASE EnableNetwork
  <2>1. Enabled(state) /\ targets' = targets /\ idle' = idle
    BY <1>3 DEF EnableNetwork
  <2>2. CASE ~Started(state) /\ targets # {}
    <3>1. StartWatchStream(state, online) /\ online.failures = 0
      BY <2>1, <2>2 DEF Enabled, Tracked
    <3>2. idle' = FALSE
      BY <1>1, <2>1, <2>2 DEF Tracked
    <3> QED  BY <1>1, <3>1, <3>2, StartTracked
  <2>3. CASE ~(~Started(state) /\ targets # {})
    <3>1. state' = state /\ online' = UpdatedTo("Unknown") /\ untimed' = Started(state)
      BY <2>1, <2>3 DEF Enabled
    <3>2. idle' => state' = "Open" /\ targets' = {}
      BY <2>1, <3>1 DEF Tracked
    <3>3. untimed' = TRUE \/ ~Started(state')
      BY <3>1 DEF Started
    <3> QED  BY <3>1, <3>2, <3>3, UpdatedTracked
  <2> QED  BY <2>2, <2>3
<1>4. CASE BackoffElapsed
  <2>1. /\ state = "Backoff" /\ state' = "Starting"
        /\ UNCHANGED <<network, targets, idle, online, untimed, heard>>
    BY <1>4 DEF BackoffElapsed, wireVars
  <2>2. Started(state) /\ Started(state')
    BY <2>1 DEF Started
  <2> QED  BY <2>1, <2>2, TrackedSame
<1>5. CASE OnlineTimeout
  <2>1. /\ online.timer /\ online' = [online EXCEPT !.state = "Offline", !.timer = FALSE]
        /\ UNCHANGED <<network, targets, state, idle, untimed>>
    BY <1>5 DEF OnlineTimeout
  <2>2. online'.state = "Offline" /\ online'.timer = FALSE /\ online'.failures = online.failures
    BY <1>1, <2>1 DEF Onlines
  <2> QED  BY <2>1, <2>2 DEF Tracked
<1>6. CASE UNCHANGED vars
  <2>1. UNCHANGED <<network, targets, state, idle, online, untimed, heard>>
    BY <1>6 DEF vars, wireVars
  <2> QED  BY <2>1, TrackedSame
<1> QED  BY <1>2, <1>3, <1>4, <1>5, <1>6

LEMMA ReceiveTracked ==
  ASSUME Watching, Tracked, OnWatchStreamChange
  PROVE  Tracked'
<1>1. idle \in BOOLEAN
  BY TypedParts DEF Watching
<1>2. \E K : Receive(K)
  BY DEF OnWatchStreamChange, TargetAdded, TargetRemoved, ProcessTargetError, TargetChanges,
         HandleExistenceFilter, RaiseWatchSnapshot
<1>3. state' = "Open" /\ online' = UpdatedTo("Online") /\ heard' = TRUE
  BY <1>2, ReceiveIs
<1>4. online'.state = "Online" /\ online'.timer = FALSE /\ online'.failures = 0
  BY <1>3, UpdatedIs
<1>5. Started(state')
  BY <1>3 DEF Started
<1>6. idle' => idle
  BY <1>1 DEF OnWatchStreamChange, TargetAdded, TargetRemoved, ProcessTargetError, TargetChanges,
              HandleExistenceFilter, RaiseWatchSnapshot, Send
<1>7. targets' \subseteq targets
  BY DEF OnWatchStreamChange, TargetAdded, TargetRemoved, ProcessTargetError, TargetChanges,
         HandleExistenceFilter, RaiseWatchSnapshot
<1>8. idle' => targets' = {}
  BY <1>6, <1>7 DEF Tracked
<1> QED  BY <1>3, <1>4, <1>5, <1>8 DEF Tracked

LEMMA ServerTracked ==
  ASSUME Tracked, \/ ServerAnswers \/ ServerRefuses \/ ServerSnapshot
                  \/ \E t \in Targets : ServerRevokes(t) \/ ServerSends(t)
  PROVE  Tracked'
<1>1. UNCHANGED <<network, targets, state, idle, online, untimed, heard>>
  BY DEF ServerAnswers, ServerRefuses, ServerSnapshot, ServerRevokes, ServerSends, Say
<1> QED  BY <1>1, TrackedSame

-----------------------------------------------------------------------------
(* The inductive invariant and what it shows.                                *)

LEMMA InitIInv == Init => IInv
<1> SUFFICES ASSUME Init PROVE IInv
  OBVIOUS
<1>1. /\ network = TRUE /\ targets = {} /\ state = "Initial" /\ idle = FALSE
      /\ outstanding = <<>> /\ resets = {} /\ miscounted = {}
      /\ online = UpdatedTo("Unknown") /\ untimed = FALSE
      /\ up = <<>> /\ down = <<>> /\ watched = {} /\ heard = FALSE
  BY DEF Init
<1>2. online.state = "Unknown" /\ online.timer = FALSE /\ online.failures = 0
      /\ online \in Onlines
  BY <1>1, UpdatedIs
<1>3. TypeOK
  <2>1. DOMAIN outstanding \subseteq Targets /\ Range(outstanding) \subseteq Int
    BY <1>1, EmptyParts DEF CountsOK
  <2>2. /\ up \in Seq([kind : {"listen", "unlisten"}, target : Targets])
        /\ down \in Seq([kind : Answers \cup WithCause \cup {"changes", "filter", "snapshot"},
                         target : Targets \cup {NoTarget}])
    BY <1>1, EmptySeq
  <2> QED  BY <1>1, <1>2, <2>1, <2>2 DEF TypeOK, Onlines
<1>4. TargetsOK(targets) /\ DownOK(down)
  BY <1>1, EmptyParts, FS_EmptySet DEF TargetsOK
<1>5. Watching
  BY <1>1, <1>3, <1>4 DEF Watching, Typed, Counting, Following, Renews
<1>6. Tracked
  BY <1>1, <1>2 DEF Tracked, Started
<1> QED  BY <1>5, <1>6 DEF IInv

LEMMA NextIInv ==
  ASSUME IInv, [Next]_vars
  PROVE  IInv'
<1>1. Watching /\ Tracked
  BY DEF IInv
<1>2. CASE \E t \in Targets : Listen(t) \/ StopListening(t)
  BY <1>1, <1>2, ListenStep, StopListeningStep, StartsAndStopsTracked DEF IInv
<1>3. CASE TokenArrives
  BY <1>1, <1>3, TokenArrivesStep, OtherTracked DEF IInv
<1>4. CASE EnableNetwork \/ BackoffElapsed \/ OnlineTimeout \/ UNCHANGED vars
  BY <1>1, <1>4, OtherSteps, OtherTracked DEF IInv
<1>5. CASE StreamFails \/ IdleTimeout \/ DisableNetwork \/ RestartNetwork
  BY <1>1, <1>5, ClosingSteps, ClosingTracked DEF IInv
<1>6. CASE OnWatchStreamChange
  <2>1. Watching'
    BY <1>1, <1>6, AnswersSteps, ContentSteps, ProcessTargetErrorStep, RaiseWatchSnapshotStep
       DEF OnWatchStreamChange
  <2> QED  BY <1>1, <1>6, <2>1, ReceiveTracked DEF IInv
<1>7. CASE ServerAnswers \/ ServerRefuses
  BY <1>1, <1>7, ServerAnswersSteps, ServerTracked DEF IInv
<1>8. CASE ServerSnapshot \/ \E t \in Targets : ServerRevokes(t) \/ ServerSends(t)
  BY <1>1, <1>8, UnaskedSteps, ServerTracked DEF IInv
<1> QED  BY <1>2, <1>3, <1>4, <1>5, <1>6, <1>7, <1>8 DEF Next

(* Counts, requests, answers and the server's watches fit together, and the  *)
(* tracker with the stream, through every failure and removal.               *)
THEOREM WatchInvariant == Spec => []IInv
<1>1. Init => IInv
  BY InitIInv
<1>2. IInv /\ [Next]_vars => IInv'
  BY NextIInv
<1> QED  BY <1>1, <1>2, PTL DEF Spec

(* What the client waits for is what is to come, but for a target removed    *)
(* with a cause amid other requests.                                         *)
THEOREM AnswersCounted == Spec => []CountsMatch
<1>1. ASSUME IInv  PROVE CountsMatch
  <2>1. TypeOK /\ up \in Seq(Asking) /\ Counting
    BY <1>1, TypedParts DEF IInv, Watching, Typed
  <2>2. \A i \in DOMAIN up : up[i].kind \in Asks
    <3>1. DOMAIN up = 1 .. Len(up) /\ \A i \in 1 .. Len(up) : up[i] \in Asking
      BY <2>1, SeqParts
    <3> QED  BY <3>1 DEF Asking
  <2>3. ASSUME NEW t
        PROVE  Count(t) = Of(outstanding, t)
               /\ UnderWay(t) = Num(up, Asks, t) + Num(down, Answers, t)
    <3>1. {i \in DOMAIN up : up[i].target = t} = Places(up, Asks, t)
      BY <2>2 DEF Places
    <3>2. {i \in DOMAIN down : down[i].target = t /\ down[i].kind \in Answers} =
            Places(down, Answers, t)
      BY DEF Places
    <3>3. Count(t) = Of(outstanding, t)
      BY CountIs
    <3> QED  BY <3>1, <3>2, <3>3 DEF UnderWay, Num
  <2> QED  BY <2>1, <2>3 DEF CountsMatch, Counting
<1>2. IInv => CountsMatch
  BY <1>1
<1> QED  BY <1>2, WatchInvariant, PTL

(* Once the server has all requests, and the client the causes, the server   *)
(* watches what the client listens to.                                       *)
THEOREM ServerIsBrought == Spec => []ServerFollows
<1>1. ASSUME IInv  PROVE ServerFollows
  <2> SUFFICES ASSUME state = "Open", up = <<>>, miscounted = {},
                      \A i \in DOMAIN down : down[i].kind \notin WithCause
               PROVE  watched = targets
    BY DEF ServerFollows
  <2>1. /\ \A t \in Targets : Agrees(up, down, watched, targets, t)
        /\ watched \subseteq Targets /\ targets \subseteq Targets /\ down \in Seq(Message)
    BY <1>1, WatchingOpen, TypedParts DEF IInv, Watching
  <2>2. ASSUME NEW t  PROVE ~Mentions(up, t) /\ ~CauseIn(down, t)
    <3>1. Num(up, Asks, t) = 0
      BY NumEmpty
    <3>2. Num(down, WithCause, t) = 0
      BY <2>1, NumNat
    <3> QED  BY <3>1, <3>2 DEF Mentions, CauseIn
  <2>3. \A t \in Targets : t \in watched <=> t \in targets
    BY <2>1, <2>2 DEF Agrees
  <2> QED  BY <2>1, <2>3
<1>2. IInv => ServerFollows
  BY <1>1
<1> QED  BY <1>2, WatchInvariant, PTL

(* The app is told that it is online only while a message has come on the    *)
(* stream that is open, and its waits are timed; the assertions of the       *)
(* tracker hold.                                                             *)
THEOREM OnlineIsTrue == Spec => []OnlineTruth
<1>1. IInv => OnlineTruth
  BY DEF IInv, Tracked, OnlineTruth
<1> QED  BY <1>1, WatchInvariant, PTL
=============================================================================
