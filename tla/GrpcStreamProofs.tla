-------------------------- MODULE GrpcStreamProofs --------------------------
(* Theorems about GrpcStream, for any number of messages: gRPC's rules are   *)
(* kept, nothing points to a destroyed stream, and the stream implements     *)
(* Wire.                                                                     *)
EXTENDS GrpcStream, TLAPS, SequenceTheorems, FiniteSetTheorems

-----------------------------------------------------------------------------
(* The inductive invariant.                                                  *)

(* The ids of the operations of one kind that are with gRPC, or are back and *)
(* will run their callback.                                                  *)
Live(kind) ==
  {op.id : op \in Pending(kind)} \cup
  {Back[i].op.id : i \in {j \in DOMAIN Back : Back[j].op.kind = kind
                                              /\ Back[j].op.id \notin cancelled}}

Types ==
  /\ open \in BOOLEAN /\ notify \in BOOLEAN /\ active \in BOOLEAN
  /\ finished \in BOOLEAN /\ restricted \in BOOLEAN /\ dead \in BOOLEAN /\ told \in BOOLEAN
  /\ worker \in Blocked \cup {Idle}
  /\ issued \in Nat /\ completions \subseteq 1 .. issued /\ cancelled \subseteq 1 .. issued
  /\ grpc \subseteq [id : 1 .. issued, kind : Kinds, msg : Nat]
  /\ inbox \in Seq(Reply) /\ passing \in Seq(Reply)
  /\ written \in 0 .. MaxWrites /\ received \in 0 .. MaxReads

(* An id stands for one operation, in one place.                             *)
Unique ==
  /\ \A p, q \in grpc : p.id = q.id => p = q
  /\ \A i \in DOMAIN Back : Back[i].op.id \in 1 .. issued /\ \A p \in grpc : p.id # Back[i].op.id
  /\ \A i, j \in DOMAIN Back : Back[i].op.id = Back[j].op.id => i = j

(* Whatever will come back to the stream is one of its completions, and the  *)
(* stream is there.                                                          *)
Registered ==
  /\ \A op \in grpc : op.id \in completions
  /\ \A kind \in Kinds : Live(kind) \subseteq completions
  /\ completions # {} => open
  /\ worker # Idle => open

(* One read, one write, and no read beside the question for the status.      *)
Single ==
  /\ \A x, y \in Live("Read") : x = y
  /\ \A x, y \in Live("Write") : x = y
  /\ Live("Write") # {} => active
  /\ Live("Finish") # {} => Live("Read") = {}

(* Where the worker blocks the callbacks of its completions were taken away. *)
Draining ==
  /\ worker \in {"failing", "stopping", "ending"} => completions \subseteq cancelled
  /\ worker \in {"failing", "stopping"} => finished
  /\ finishes = IF finished THEN 1 ELSE 0

(* A message waits only behind a write that will send it on.                 *)
Flowing ==
  /\ buffer # <<>> => active
  /\ active /\ ~finished /\ ~restricted => \E x \in Live("Write") : x \notin cancelled

(* The messages are numbered in their order: the user's, handed over or      *)
(* waiting, and the server's, of which the one that is to be seen is the     *)
(* last.                                                                     *)
Numbered(h, q) ==
  /\ h \in Seq(Nat) /\ q \in Seq(Nat)
  /\ \A i \in DOMAIN h : h[i] = i
  /\ \A i \in DOMAIN q : q[i] = Len(h) + i

HandedInOrder ==
  /\ Numbered(handed, buffer)
  /\ Len(handed) + Len(buffer) <= written
  /\ open /\ worker # "ending" => Len(handed) + Len(buffer) = written

SeenInOrder ==
  /\ Numbered(seen, <<>>)
  /\ Len(seen) <= received
  /\ Pending("Read") # {} => received = Len(seen)
  /\ \A i \in DOMAIN Back :
       Back[i].op.kind = "Read" /\ Back[i].ok /\ Back[i].op.id \notin cancelled =>
         Back[i].op.msg = received /\ received = Len(seen) + 1

IInv ==
  /\ Types /\ Unique /\ Registered /\ Single /\ Draining /\ Flowing
  /\ HandedInOrder /\ SeenInOrder

-----------------------------------------------------------------------------
(* What a step does to the operations that are back.                         *)

(* None joins them, the operation x is not among them any more, and unless   *)
(* the queue is restricted no other is missing.                              *)
Kept(x) ==
  /\ \A i \in DOMAIN Back' : \E j \in DOMAIN Back : Back'[i] = Back[j] /\ Back[j].op.id # x
  /\ \A j \in DOMAIN Back : Back[j].op.id # x /\ ~restricted =>
       \E i \in DOMAIN Back' : Back'[i] = Back[j]
  /\ \A i, j \in DOMAIN Back' : Back'[i].op.id = Back'[j].op.id => i = j

LEMMA BackIs ==
  ASSUME Types
  PROVE  /\ Back \in Seq(Reply)
         /\ DOMAIN Back = 1 .. Len(inbox) + Len(passing)
         /\ Len(inbox) \in Nat /\ Len(passing) \in Nat
         /\ \A i \in DOMAIN Back :
              /\ Back[i] = IF i <= Len(inbox) THEN inbox[i] ELSE passing[i - Len(inbox)]
              /\ Back[i] \in Reply /\ Back[i].op \in Op
<1>1. inbox \in Seq(Reply) /\ passing \in Seq(Reply)
  BY DEF Types
<1>2. /\ inbox \o passing \in Seq(Reply)
      /\ Len(inbox \o passing) = Len(inbox) + Len(passing)
      /\ \A i \in 1 .. Len(inbox) + Len(passing) :
           (inbox \o passing)[i] = IF i <= Len(inbox) THEN inbox[i] ELSE passing[i - Len(inbox)]
      /\ Len(inbox) \in Nat /\ Len(passing) \in Nat
  BY <1>1, ConcatProperties, LenProperties
<1>3. DOMAIN (inbox \o passing) = 1 .. Len(inbox) + Len(passing)
  BY <1>2, LenProperties
<1>4. \A i \in DOMAIN (inbox \o passing) : (inbox \o passing)[i] \in Reply
  BY <1>2, <1>3, ElementOfSeq
<1> QED  BY <1>2, <1>3, <1>4 DEF Back, Reply

LEMMA BackUnchanged ==
  ASSUME Types, Unique, UNCHANGED <<inbox, passing>>
  PROVE  Kept(0)
<1>1. Back' = Back
  BY DEF Back
<1>2. \A i \in DOMAIN Back : Back[i].op.id # 0
  BY DEF Types, Unique
<1> QED  BY <1>1, <1>2 DEF Kept, Unique

(* The first one is taken from the worker queue.                             *)
LEMMA BackTaken ==
  ASSUME Types, Unique, inbox # <<>>, inbox' = Tail(inbox), passing' = passing
  PROVE  /\ Kept(Reply1.op.id)
         /\ Reply1 \in Reply /\ Reply1.op \in Op
         /\ \E i \in DOMAIN Back : Back[i] = Reply1
         /\ \A op \in grpc : op.id # Reply1.op.id
<1> DEFINE m == Len(inbox)
           n == Len(passing)
<1>1. /\ inbox \in Seq(Reply) /\ passing \in Seq(Reply) /\ m \in Nat \ {0} /\ n \in Nat
      /\ inbox' \in Seq(Reply) /\ Len(inbox') = m - 1
      /\ \A i \in 1 .. m - 1 : inbox'[i] = inbox[i + 1]
      /\ Reply1 = inbox[1]
  BY HeadTailProperties, LenProperties, EmptySeq DEF Types, Reply1
<1>2. /\ DOMAIN Back = 1 .. m + n
      /\ \A i \in 1 .. m + n : Back[i] = IF i <= m THEN inbox[i] ELSE passing[i - m]
      /\ \A i \in 1 .. m + n : Back[i] \in Reply /\ Back[i].op \in Op
  BY BackIs
<1>3. /\ inbox' \o passing \in Seq(Reply)
      /\ Len(inbox' \o passing) = (m - 1) + n
      /\ \A i \in 1 .. (m - 1) + n :
           (inbox' \o passing)[i] = IF i <= m - 1 THEN inbox'[i] ELSE passing[i - (m - 1)]
  BY <1>1, ConcatProperties
<1>4. Back' = inbox' \o passing
  BY DEF Back
<1> HIDE DEF m, n
<1>5. DOMAIN Back' = 1 .. (m + n) - 1
  <2>1. (m - 1) + n = (m + n) - 1
    BY <1>1
  <2> QED  BY <1>3, <1>4, <2>1, LenProperties
<1>6. ASSUME NEW i \in 1 .. (m + n) - 1
      PROVE  i + 1 \in 1 .. m + n /\ Back'[i] = Back[i + 1]
  <2>1. i + 1 \in 1 .. m + n /\ i \in 1 .. (m - 1) + n
    BY <1>1
  <2>2. CASE i <= m - 1
    <3>1. i \in 1 .. m - 1 /\ i + 1 <= m
      BY <1>1, <2>2
    <3> QED  BY <1>1, <1>2, <1>3, <1>4, <2>1, <2>2, <3>1
  <2>3. CASE ~(i <= m - 1)
    <3>1. ~(i + 1 <= m) /\ i - (m - 1) = (i + 1) - m
      BY <1>1, <2>3
    <3> QED  BY <1>2, <1>3, <1>4, <2>1, <2>3, <3>1
  <2> QED  BY <2>2, <2>3
<1>7. 1 \in 1 .. m + n /\ Back[1] = Reply1
  <2>1. 1 \in 1 .. m + n /\ 1 <= m
    BY <1>1
  <2> QED  BY <1>1, <1>2, <2>1
<1>8. \A j \in 1 .. m + n : j # 1 =>
        j - 1 \in 1 .. (m + n) - 1 /\ Back'[j - 1] = Back[j]
  <2>1. ASSUME NEW j \in 1 .. m + n, j # 1
        PROVE  j - 1 \in 1 .. (m + n) - 1 /\ (j - 1) + 1 = j
    BY <1>1, <2>1
  <2> QED  BY <1>6, <2>1
<1>9. \A i, j \in 1 .. m + n : Back[i].op.id = Back[j].op.id => i = j
  BY <1>2 DEF Unique
<1>10. Kept(Reply1.op.id)
  <2>1. ASSUME NEW i \in DOMAIN Back'
        PROVE  \E j \in DOMAIN Back : Back'[i] = Back[j] /\ Back[j].op.id # Reply1.op.id
    <3>1. i + 1 \in 1 .. m + n /\ Back'[i] = Back[i + 1] /\ i + 1 # 1
      BY <1>1, <1>5, <1>6
    <3> QED  BY <1>2, <1>7, <1>9, <3>1
  <2>2. ASSUME NEW j \in DOMAIN Back, Back[j].op.id # Reply1.op.id
        PROVE  \E i \in DOMAIN Back' : Back'[i] = Back[j]
    BY <1>2, <1>5, <1>7, <1>8, <2>2
  <2>3. ASSUME NEW i \in DOMAIN Back', NEW j \in DOMAIN Back', Back'[i].op.id = Back'[j].op.id
        PROVE  i = j
    <3>1. i + 1 \in 1 .. m + n /\ j + 1 \in 1 .. m + n /\ i + 1 = j + 1
      BY <1>5, <1>6, <1>9, <2>3
    <3> QED  BY <1>1, <1>5, <3>1
  <2> QED  BY <2>1, <2>2, <2>3 DEF Kept
<1> QED  BY <1>2, <1>7, <1>10 DEF Unique

(* Enqueueing moves what is back from one thread to the other or loses it.   *)
LEMMA BackEnqueued ==
  ASSUME Types, Unique, passing' = <<>>,
         inbox' = IF restricted THEN inbox ELSE inbox \o passing
  PROVE  Kept(0)
<1> DEFINE m == Len(inbox)
           n == Len(passing)
<1>1. /\ DOMAIN Back = 1 .. m + n /\ m \in Nat /\ n \in Nat
      /\ \A i \in 1 .. m + n : Back[i] = IF i <= m THEN inbox[i] ELSE passing[i - m]
      /\ Back \in Seq(Reply)
  BY BackIs
<1>2. inbox \in Seq(Reply)
  BY DEF Types
<1>3. CASE restricted
  <2>1. Back' = inbox
    BY <1>2, <1>3, ConcatEmptySeq DEF Back
  <2>2. DOMAIN inbox = 1 .. m
    BY <1>2, LenProperties
  <2> HIDE DEF m, n
  <2>3. \A i \in 1 .. m : i \in 1 .. m + n /\ i <= m /\ inbox[i] = Back[i]
    BY <1>1
  <2> QED  BY <1>1, <1>3, <2>1, <2>2, <2>3 DEF Kept, Unique
<1>4. CASE ~restricted
  <2>1. Back' = Back
    BY <1>1, <1>4, ConcatEmptySeq DEF Back
  <2> QED  BY <2>1 DEF Kept, Unique
<1> QED  BY <1>3, <1>4

(* An operation that comes off gRPC's queue is the last of those back.       *)
LEMMA BackJoined ==
  ASSUME Types, NEW op \in grpc, NEW r \in Reply, r.op.id = op.id,
         passing = <<>>, passing' = <<r>>, inbox' = inbox
  PROVE  \E n \in Nat :
           /\ DOMAIN Back = 1 .. n
           /\ DOMAIN Back' = 1 .. n + 1
           /\ \A i \in 1 .. n : Back'[i] = Back[i]
           /\ Back'[n + 1] = r
<1> DEFINE n == Len(inbox)
<1>1. /\ inbox \in Seq(Reply) /\ n \in Nat
      /\ DOMAIN inbox = 1 .. n
  BY LenProperties DEF Types
<1>2. Back = inbox
  BY <1>1, ConcatEmptySeq DEF Back
<1>3. Back' = inbox \o <<r>>
  BY DEF Back
<1>4. /\ <<r>> \in Seq(Reply) /\ Len(<<r>>) = 1 /\ <<r>>[1] = r
  OBVIOUS
<1>5. /\ inbox \o <<r>> \in Seq(Reply)
      /\ Len(inbox \o <<r>>) = n + 1
      /\ \A i \in 1 .. n + 1 : (inbox \o <<r>>)[i] = IF i <= n THEN inbox[i] ELSE <<r>>[i - n]
  <2>1. /\ inbox \o <<r>> \in Seq(Reply)
        /\ Len(inbox \o <<r>>) = Len(inbox) + Len(<<r>>)
        /\ \A i \in 1 .. Len(inbox) + Len(<<r>>) :
             (inbox \o <<r>>)[i] = IF i <= Len(inbox) THEN inbox[i] ELSE <<r>>[i - Len(inbox)]
    BY <1>1, <1>4, ConcatProperties
  <2> QED  BY <1>4, <2>1
<1>6. DOMAIN Back' = 1 .. n + 1
  BY <1>3, <1>5, LenProperties
<1> HIDE DEF n
<1>7. \A i \in 1 .. n : Back'[i] = Back[i]
  <2>1. \A i \in 1 .. n : i \in 1 .. n + 1 /\ i <= n
    BY <1>1
  <2> QED  BY <1>2, <1>3, <1>5, <2>1
<1>8. Back'[n + 1] = r
  <2>1. n + 1 \in 1 .. n + 1 /\ ~(n + 1 <= n) /\ (n + 1) - n = 1
    BY <1>1
  <2> QED  BY <1>3, <1>4, <1>5, <2>1
<1> QED  BY <1>1, <1>2, <1>6, <1>7, <1>8

-----------------------------------------------------------------------------
(* What a step does to the operations that are live.                         *)

LEMMA LiveMembers ==
  ASSUME NEW kind, NEW x
  PROVE  /\ x \in Live(kind) <=>
              \/ \E op \in grpc : op.kind = kind /\ op.id = x
              \/ \E i \in DOMAIN Back : /\ Back[i].op.kind = kind /\ Back[i].op.id = x
                                        /\ x \notin cancelled
         /\ x \in Live(kind)' <=>
              \/ \E op \in grpc' : op.kind = kind /\ op.id = x
              \/ \E i \in DOMAIN Back' : /\ Back'[i].op.kind = kind /\ Back'[i].op.id = x
                                         /\ x \notin cancelled'
<1>1. x \in Live(kind) <=>
              \/ \E op \in grpc : op.kind = kind /\ op.id = x
              \/ \E i \in DOMAIN Back : /\ Back[i].op.kind = kind /\ Back[i].op.id = x
                                        /\ x \notin cancelled
  BY DEF Live, Pending
<1>2. x \in Live(kind)' <=>
              \/ \E op \in grpc' : op.kind = kind /\ op.id = x
              \/ \E i \in DOMAIN Back' : /\ Back'[i].op.kind = kind /\ Back'[i].op.id = x
                                         /\ x \notin cancelled'
  BY DEF Live, Pending
<1> QED  BY <1>1, <1>2

(* What the worker does: it takes x off those that are back, or none for 0,  *)
(* issues the operations of N, and takes callbacks away.                     *)
Works(x, N) ==
  /\ Kept(x)
  /\ \A op \in grpc : op.id # x
  /\ grpc' = grpc \cup N
  /\ \/ N = {} /\ issued' = issued
     \/ /\ issued' = NewId
        /\ \E kind \in Kinds, msg \in Nat : N = {[id |-> NewId, kind |-> kind, msg |-> msg]}
  /\ cancelled \subseteq cancelled'
  /\ restricted' = restricted

LEMMA LiveAfter ==
  ASSUME NEW x, NEW N, Works(x, N), NEW kind
  PROVE  /\ \A y \in Live(kind)' :
              \/ y \in Live(kind) /\ y # x
              \/ \E op \in N : op.kind = kind /\ op.id = y
         /\ \A op \in N : op.kind = kind => op.id \in Live(kind)'
         /\ \A y \in Live(kind) :
              y # x /\ y \notin cancelled' /\ ~restricted => y \in Live(kind)'
<1>1. ASSUME NEW y \in Live(kind)'
      PROVE  \/ y \in Live(kind) /\ y # x
             \/ \E op \in N : op.kind = kind /\ op.id = y
  <2>1. CASE \E op \in grpc' : op.kind = kind /\ op.id = y
    BY <2>1, LiveMembers DEF Works
  <2>2. CASE \E i \in DOMAIN Back' : /\ Back'[i].op.kind = kind /\ Back'[i].op.id = y
                                     /\ y \notin cancelled'
    BY <2>2, LiveMembers DEF Works, Kept
  <2> QED  BY <1>1, <2>1, <2>2, LiveMembers
<1>2. \A op \in N : op.kind = kind => op.id \in Live(kind)'
  BY LiveMembers DEF Works
<1>3. ASSUME NEW y \in Live(kind), y # x, y \notin cancelled', ~restricted
      PROVE  y \in Live(kind)'
  BY <1>3, LiveMembers DEF Works, Kept
<1> QED  BY <1>1, <1>2, <1>3

(* Every live id was issued.                                                 *)
LEMMA LiveIssued ==
  ASSUME Types, Unique, NEW kind, NEW x \in Live(kind)
  PROVE  x \in 1 .. issued
BY LiveMembers DEF Types, Unique

LEMMA UniqueStep ==
  ASSUME Types, Unique, NEW x, NEW N, Works(x, N)
  PROVE  Unique'
<1>1. \A op \in grpc : op.id \in 1 .. issued
  BY DEF Types
<1>2. /\ issued \in Nat /\ issued' \in Nat /\ issued <= issued'
      /\ \A op \in N : op.id = issued + 1 /\ issued' = issued + 1 /\ N = {op}
  BY DEF Works, Types, NewId
<1>3. \A p, q \in grpc' : p.id = q.id => p = q
  BY <1>1, <1>2 DEF Unique, Works
<1>4. ASSUME NEW i \in DOMAIN Back'
      PROVE  Back'[i].op.id \in 1 .. issued' /\ \A p \in grpc' : p.id # Back'[i].op.id
  <2>1. PICK j \in DOMAIN Back : Back'[i] = Back[j]
    BY <1>4 DEF Works, Kept
  <2>2. Back[j].op.id \in 1 .. issued /\ \A p \in grpc : p.id # Back[j].op.id
    BY DEF Unique
  <2> QED  BY <1>2, <2>1, <2>2 DEF Works
<1> QED  BY <1>3, <1>4 DEF Unique, Works, Kept

-----------------------------------------------------------------------------
(* The messages of the user.                                                 *)

LEMMA NumberedAppend ==
  ASSUME NEW h, NEW q, Numbered(h, q)
  PROVE  /\ Numbered(h, Append(q, Len(h) + Len(q) + 1))
         /\ Append(q, Len(h) + Len(q) + 1) # <<>>
         /\ Len(Append(q, Len(h) + Len(q) + 1)) = Len(q) + 1
<1> DEFINE e == Len(h) + Len(q) + 1
           r == Append(q, e)
           n == Len(q)
<1>1. /\ Len(h) \in Nat /\ n \in Nat /\ e \in Nat /\ DOMAIN q = 1 .. n
      /\ q \in Seq(Nat) /\ h \in Seq(Nat)
  BY LenProperties DEF Numbered
<1>2. /\ r \in Seq(Nat) /\ Len(r) = n + 1
      /\ \A i \in 1 .. n : r[i] = q[i]
      /\ r[n + 1] = e
  BY <1>1, AppendProperties
<1>3. DOMAIN r = 1 .. n + 1
  BY <1>2, LenProperties
<1>4. r # <<>>
  BY <1>1, <1>2, EmptySeq
<1>5. e = Len(h) + (n + 1)
  BY <1>1
<1> HIDE DEF e, r, n
<1>6. \A i \in DOMAIN r : r[i] = Len(h) + i
  <2>1. ASSUME NEW i \in 1 .. n + 1  PROVE i \in 1 .. n \/ i = n + 1
    BY <1>1
  <2> QED  BY <1>1, <1>2, <1>3, <1>5, <2>1 DEF Numbered
<1> QED  BY <1>1, <1>2, <1>4, <1>6 DEF Numbered, r, e, n

LEMMA NumberedHand ==
  ASSUME NEW h, NEW q, Numbered(h, q), q # <<>>
  PROVE  /\ Numbered(Append(h, Head(q)), Tail(q))
         /\ Head(q) = Len(h) + 1
         /\ Len(Append(h, Head(q))) + Len(Tail(q)) = Len(h) + Len(q)
<1> DEFINE e == Head(q)
           r == Append(h, e)
           t == Tail(q)
           m == Len(h)
           n == Len(q)
<1>1. /\ m \in Nat /\ DOMAIN h = 1 .. m /\ DOMAIN q = 1 .. n
      /\ q \in Seq(Nat) /\ h \in Seq(Nat)
      /\ n \in Nat \ {0} /\ e = q[1] /\ e \in Nat
      /\ t \in Seq(Nat) /\ Len(t) = n - 1
      /\ \A i \in 1 .. n - 1 : t[i] = q[i + 1]
  BY LenProperties, HeadTailProperties, EmptySeq DEF Numbered
<1>2. DOMAIN t = 1 .. n - 1
  BY <1>1, LenProperties
<1>3. /\ r \in Seq(Nat) /\ Len(r) = m + 1
      /\ \A i \in 1 .. m : r[i] = h[i]
      /\ r[m + 1] = e
  BY <1>1, AppendProperties
<1>4. DOMAIN r = 1 .. m + 1
  BY <1>3, LenProperties
<1> HIDE DEF e, r, t, m, n
<1>5. e = m + 1
  <2>1. 1 \in DOMAIN q
    BY <1>1
  <2> QED  BY <1>1, <2>1 DEF Numbered, m
<1>6. \A i \in 1 .. m + 1 : r[i] = i
  <2>1. ASSUME NEW i \in 1 .. m + 1  PROVE i \in 1 .. m \/ i = m + 1
    BY <1>1
  <2> QED  BY <1>1, <1>3, <1>5, <2>1 DEF Numbered
<1>7. \A i \in 1 .. n - 1 : t[i] = (m + 1) + i
  <2>1. ASSUME NEW i \in 1 .. n - 1  PROVE i + 1 \in 1 .. n /\ m + (i + 1) = (m + 1) + i
    BY <1>1
  <2>2. \A i \in 1 .. n : q[i] = m + i
    BY <1>1 DEF Numbered, m
  <2> QED  BY <1>1, <2>1, <2>2
<1>8. Len(r) + Len(t) = m + n
  BY <1>1, <1>3
<1>9. Numbered(r, t)
  BY <1>1, <1>2, <1>3, <1>4, <1>6, <1>7 DEF Numbered
<1> QED  BY <1>5, <1>8, <1>9 DEF e, r, t, m, n

(* TryStartWrite issues a write or nothing; what waits then waits behind one.*)
Writing(N) == N = {} \/ \E msg \in Nat : N = {[id |-> NewId, kind |-> "Write", msg |-> msg]}

LEMMA TryStartWriteStep ==
  ASSUME NEW queue, NEW busy \in BOOLEAN, NEW c, Numbered(handed, queue),
         TryStartWrite(queue, busy, c)
  PROVE  \E N :
           /\ Writing(N) /\ grpc' = grpc \cup N
           /\ IF N = {} THEN /\ issued' = issued /\ completions' = c /\ active' = busy
                             /\ handed' = handed
                        ELSE /\ issued' = NewId /\ completions' = c \cup {NewId}
                             /\ active' = TRUE /\ ~busy
                             /\ handed' = Append(handed, Len(handed) + 1)
                             /\ queue # <<>>
           /\ buffer' # <<>> => active'
           /\ Numbered(handed', buffer')
           /\ Len(handed') + Len(buffer') = Len(handed) + Len(queue)
<1>1. CASE MayStart(queue, busy)
  <2>1. queue # <<>> /\ ~busy /\ Head(queue) \in Nat
    BY <1>1, HeadTailProperties DEF MayStart, Numbered
  <2> DEFINE N == {[id |-> NewId, kind |-> "Write", msg |-> Head(queue)]}
  <2>2. /\ grpc' = grpc \cup N /\ issued' = NewId /\ completions' = c \cup {NewId}
        /\ active' = TRUE
        /\ handed' = Append(handed, Head(queue)) /\ buffer' = Tail(queue)
    BY <1>1 DEF TryStartWrite, Issue, First, Rest
  <2>3. /\ Numbered(handed', buffer') /\ Head(queue) = Len(handed) + 1
        /\ Len(handed') + Len(buffer') = Len(handed) + Len(queue)
    BY <2>1, <2>2, NumberedHand
  <2>4. Writing(N) /\ N # {}
    BY <2>1 DEF Writing
  <2> QED  BY <2>1, <2>2, <2>3, <2>4
<1>2. CASE ~MayStart(queue, busy)
  <2>1. /\ grpc' = grpc /\ issued' = issued /\ completions' = c /\ buffer' = queue
        /\ active' = busy /\ handed' = handed
    BY <1>2 DEF TryStartWrite, NoIssue
  <2>2. buffer' # <<>> => active'
    BY <1>2, <2>1 DEF MayStart
  <2> DEFINE N == {}
  <2>3. Writing(N) /\ grpc' = grpc \cup N /\ N = {}
    BY <2>1 DEF Writing
  <2>4. Numbered(handed', buffer') /\ Len(handed') + Len(buffer') = Len(handed) + Len(queue)
    BY <2>1
  <2> HIDE DEF N
  <2> QED  BY <2>1, <2>2, <2>3, <2>4, Zenon
<1> QED  BY <1>1, <1>2

-----------------------------------------------------------------------------
(* How a step of the worker keeps the parts of the invariant.                *)

LEMMA WorksTypes ==
  ASSUME Types, NEW x, NEW N, Works(x, N)
  PROVE  /\ issued \in Nat /\ issued' \in Nat /\ NewId \in Nat
         /\ \A i \in 1 .. issued : i \in 1 .. issued'
         /\ NewId \notin 1 .. issued
         /\ issued' = NewId => NewId \in 1 .. issued'
         /\ grpc' \subseteq [id : 1 .. issued', kind : Kinds, msg : Nat]
<1>1. issued \in Nat /\ issued' \in Nat /\ NewId = issued + 1 /\ issued' \in {issued, issued + 1}
  BY DEF Types, Works, NewId
<1>2. \A i \in 1 .. issued : i \in 1 .. issued'
  BY <1>1
<1>3. grpc \subseteq [id : 1 .. issued', kind : Kinds, msg : Nat]
  BY <1>2 DEF Types
<1>4. N \subseteq [id : 1 .. issued', kind : Kinds, msg : Nat]
  BY <1>1 DEF Works
<1> QED  BY <1>1, <1>2, <1>3, <1>4 DEF Works

LEMMA RegisteredStep ==
  ASSUME Types, Unique, Registered, NEW x, NEW N, Works(x, N),
         \A y \in completions : y # x => y \in completions',
         \A op \in N : op.id \in completions',
         completions' # {} => open',
         worker' # Idle => open'
  PROVE  Registered'
<1>1. \A op \in grpc' : op.id \in completions'
  BY DEF Works, Registered
<1>2. ASSUME NEW kind \in Kinds, NEW y \in Live(kind)'  PROVE y \in completions'
  <2>1. \/ y \in Live(kind) /\ y # x
        \/ \E op \in N : op.kind = kind /\ op.id = y
    BY LiveAfter
  <2> QED  BY <2>1 DEF Registered
<1> QED  BY <1>1, <1>2 DEF Registered

Of(N, kind) == \E op \in N : op.kind = kind

LEMMA SingleStep ==
  ASSUME Types, Unique, Single, NEW x, NEW N, Works(x, N),
         Of(N, "Read") => x \in Live("Read"),
         Of(N, "Write") => active' /\ (~active \/ x \in Live("Write")),
         Of(N, "Finish") => Live("Read") = {},
         active => active' \/ x \in Live("Write")
  PROVE  Single'
<1>1. \A p, q \in N : p = q
  BY DEF Works
<1>2. ASSUME NEW kind
      PROVE  \A y \in Live(kind)' : \/ y \in Live(kind) /\ y # x
                                    \/ \E op \in N : op.kind = kind /\ op.id = y
  BY LiveAfter
<1>3. ASSUME NEW y \in Live("Read")', NEW z \in Live("Read")'  PROVE y = z
  BY <1>1, <1>2 DEF Single, Of
<1>4. ASSUME NEW y \in Live("Write")', NEW z \in Live("Write")'  PROVE y = z
  BY <1>1, <1>2 DEF Single, Of
<1>5. ASSUME NEW y \in Live("Write")'  PROVE active'
  BY <1>2 DEF Single, Of
<1>6. ASSUME NEW y \in Live("Finish")', NEW z \in Live("Read")'  PROVE FALSE
  <2>1. CASE z \in Live("Read") /\ z # x
    <3>1. Live("Finish") = {} /\ ~Of(N, "Finish")
      BY <2>1 DEF Single
    <3> QED  BY <1>2, <3>1 DEF Of
  <2>2. CASE Of(N, "Read")
    <3>1. Live("Finish") = {}
      BY <2>2 DEF Single
    <3>2. ~Of(N, "Finish")
      BY <1>1, <2>2 DEF Of
    <3> QED  BY <1>2, <3>1, <3>2 DEF Of
  <2> QED  BY <1>2, <2>1, <2>2 DEF Of
<1> QED  BY <1>3, <1>4, <1>5, <1>6 DEF Single

LEMMA FlowingStep ==
  ASSUME Types, Unique, Flowing, NEW x, NEW N, Works(x, N),
         buffer' # <<>> => active',
         finished \/ finished' \/ cancelled' = cancelled,
         finished => finished',
         active' => Of(N, "Write") \/ (active /\ x \notin Live("Write"))
  PROVE  Flowing'
<1>1. ASSUME active', ~finished', ~restricted'
      PROVE  \E y \in Live("Write")' : y \notin cancelled'
  <2>1. ~finished /\ ~restricted /\ cancelled' = cancelled
    BY <1>1 DEF Works
  <2>2. CASE Of(N, "Write")
    <3>1. PICK op \in N : op.kind = "Write"
      BY <2>2 DEF Of
    <3>2. op.id \in Live("Write")'
      BY <3>1, LiveAfter
    <3>3. op.id = NewId
      BY DEF Works
    <3>4. NewId \notin cancelled'
      BY <2>1, WorksTypes DEF Types
    <3> QED  BY <3>2, <3>3, <3>4
  <2>3. CASE active /\ x \notin Live("Write")
    <3>1. PICK y \in Live("Write") : y \notin cancelled
      BY <2>1, <2>3 DEF Flowing
    <3>2. y \in Live("Write")'
      BY <2>1, <2>3, <3>1, LiveAfter
    <3> QED  BY <2>1, <3>1, <3>2
  <2> QED  BY <1>1, <2>2, <2>3
<1> QED  BY <1>1 DEF Flowing

LEMMA SeenStep ==
  ASSUME Types, Unique, SeenInOrder, NEW x, NEW N, Works(x, N),
         UNCHANGED <<seen, received>>, ~Of(N, "Read")
  PROVE  SeenInOrder'
<1>1. Pending("Read")' # {} => Pending("Read") # {}
  BY DEF Pending, Works, Of
<1>2. ASSUME NEW i \in DOMAIN Back', Back'[i].op.kind = "Read", Back'[i].ok,
             Back'[i].op.id \notin cancelled'
      PROVE  Back'[i].op.msg = received' /\ received' = Len(seen') + 1
  <2>1. PICK j \in DOMAIN Back : Back'[i] = Back[j]
    BY DEF Works, Kept
  <2> QED  BY <1>2, <2>1 DEF SeenInOrder, Works
<1> QED  BY <1>1, <1>2 DEF SeenInOrder

(* The reply about to run is live and of a completion of the open stream.    *)
LEMMA HeadRuns ==
  ASSUME IInv, NEW kind \in Kinds, NEW ok, MayRun(kind, ok), inbox' = Tail(inbox), passing' = passing
  PROVE  /\ Kept(Reply1.op.id)
         /\ \A op \in grpc : op.id # Reply1.op.id
         /\ Reply1.op.id \in Live(kind) /\ Reply1.op.id \in completions
         /\ \A k : Reply1.op.id \in Live(k) => k = kind
         /\ open /\ worker = Idle
<1>1. /\ Kept(Reply1.op.id) /\ \E i \in DOMAIN Back : Back[i] = Reply1
      /\ \A op \in grpc : op.id # Reply1.op.id
  BY BackTaken DEF IInv, MayRun
<1>2. Reply1.op.id \in Live(kind)
  BY <1>1, LiveMembers DEF MayRun
<1>3. Reply1.op.id \in completions /\ open
  BY <1>2 DEF IInv, Registered
<1>4. ASSUME NEW k, Reply1.op.id \in Live(k)  PROVE k = kind
  BY <1>1, <1>4, LiveMembers DEF MayRun, IInv, Unique
<1> QED  BY <1>1, <1>2, <1>3, <1>4 DEF MayRun

(* Once the worker goes on, nothing is with gRPC and nothing will run.       *)
LEMMA Drained ==
  ASSUME IInv, worker \in {"failing", "stopping", "ending"}, OffQueue
  PROVE  grpc = {} /\ \A kind \in Kinds : Live(kind) = {}
<1>1. grpc = {}
  BY DEF IInv, Registered, OffQueue
<1>2. completions \subseteq cancelled
  BY DEF IInv, Draining
<1>3. ASSUME NEW kind \in Kinds, NEW y \in Live(kind)  PROVE FALSE
  <2>1. y \in completions
    BY DEF IInv, Registered
  <2>2. y \notin cancelled
    BY <1>1, LiveMembers
  <2> QED  BY <1>2, <2>1, <2>2
<1> QED  BY <1>1, <1>3

LEMMA WorksOnNothing ==
  ASSUME Types, Unique, UNCHANGED <<inbox, passing, grpc, issued, restricted>>,
         cancelled \subseteq cancelled'
  PROVE  Works(0, {})
<1>1. Kept(0)
  BY BackUnchanged
<1>2. \A op \in grpc : op.id # 0
  BY DEF Types
<1> QED  BY <1>1, <1>2 DEF Works

LEMMA ZeroNotLive ==
  ASSUME Types, Unique
  PROVE  0 \notin completions /\ \A kind : 0 \notin Live(kind)
<1>1. 0 \notin completions
  BY DEF Types
<1>2. ASSUME NEW kind, 0 \in Live(kind)  PROVE FALSE
  <2>1. 0 \in 1 .. issued
    BY <1>2, LiveIssued
  <2> QED  BY <2>1 DEF Types
<1> QED  BY <1>1, <1>2

(* Shutdown takes every callback away and leaves a call that was finished    *)
(* once, unless there was nothing to finish.                                 *)
LEMMA ShutdownStep ==
  ASSUME Types, Draining, NEW c, NEW t \in BOOLEAN, Shutdown(c, t)
  PROVE  /\ notify' = t /\ dead' \in BOOLEAN /\ finished' \in BOOLEAN
         /\ worker' \in {"stopping", "ending"}
         /\ worker' = "stopping" => finished'
         /\ cancelled' = cancelled \cup c
         /\ finished => finished' /\ worker' = "ending"
         /\ finished' \/ c = {}
         /\ finishes' = IF finished' THEN 1 ELSE 0
<1>1. /\ finished \in BOOLEAN /\ dead \in BOOLEAN /\ finishes = IF finished THEN 1 ELSE 0
      /\ notify' = t
  BY DEF Types, Draining, Shutdown
<1>2. CASE c # {} /\ ~finished
  <2>1. /\ dead' = TRUE /\ finished' = TRUE /\ finishes' = finishes + 1
        /\ cancelled' = cancelled \cup c /\ worker' = "stopping"
    BY <1>2 DEF Shutdown, CancelAndWait, TryCancel
  <2> QED  BY <1>1, <1>2, <2>1
<1>3. CASE ~(c # {} /\ ~finished)
  <2>1. /\ dead' = dead /\ finished' = finished /\ finishes' = finishes
        /\ cancelled' = cancelled \cup c /\ worker' = "ending"
    BY <1>3 DEF Shutdown, CancelAndWait
  <2> QED  BY <1>1, <1>3, <2>1
<1> QED  BY <1>2, <1>3

(* The worker shuts the stream down between two operations.                  *)
Stops ==
  /\ worker \in {Idle, "last write"} /\ open
  /\ \E t \in BOOLEAN : Shutdown(completions, t)
  /\ UNCHANGED <<open, completions, issued, writerVars, grpc, passing, inbox, restricted, countVars>>

LEMMA StopStep ==
  ASSUME IInv, Stops
  PROVE  IInv'
<1>0. /\ worker \in {Idle, "last write"} /\ open
      /\ open' = open /\ completions' = completions /\ issued' = issued /\ buffer' = buffer
      /\ active' = active /\ grpc' = grpc /\ passing' = passing /\ inbox' = inbox
      /\ restricted' = restricted /\ written' = written /\ handed' = handed
      /\ received' = received /\ seen' = seen /\ told' = told
  BY DEF Stops, writerVars, countVars
<1> PICK t \in BOOLEAN : Shutdown(completions, t)
  BY DEF Stops
<1>1. /\ Types /\ Unique /\ Registered /\ Single /\ Draining /\ Flowing
      /\ HandedInOrder /\ SeenInOrder
  BY DEF IInv
<1>2. /\ notify' = t /\ dead' \in BOOLEAN /\ finished' \in BOOLEAN
      /\ worker' \in {"stopping", "ending"}
      /\ worker' = "stopping" => finished'
      /\ cancelled' = cancelled \cup completions
      /\ finished => finished'
      /\ finished' \/ completions = {}
      /\ finishes' = IF finished' THEN 1 ELSE 0
  BY <1>1, ShutdownStep
<1>3. Works(0, {})
  BY <1>0, <1>1, <1>2, WorksOnNothing
<1>4. ~Of({}, "Read") /\ ~Of({}, "Write") /\ ~Of({}, "Finish")
  BY DEF Of
<1>5. Types'
  BY <1>0, <1>1, <1>2 DEF Types, Blocked
<1>6. Unique'
  BY <1>1, <1>3, UniqueStep
<1>7. Registered'
  <2>1. /\ \A y \in completions : y # 0 => y \in completions'
        /\ \A op \in {} : op.id \in completions'
        /\ open'
    BY <1>0
  <2> QED  BY <1>1, <1>3, <2>1, RegisteredStep
<1>8. Single'
  BY <1>0, <1>1, <1>3, <1>4, SingleStep
<1>9. Draining'
  BY <1>0, <1>2 DEF Draining
<1>10. Flowing'
  <2>1. finished \/ finished' \/ cancelled' = cancelled
    BY <1>2
  <2>2. active' => active /\ 0 \notin Live("Write")
    BY <1>0, <1>1, ZeroNotLive
  <2>3. buffer' # <<>> => active'
    BY <1>0, <1>1 DEF Flowing
  <2> QED  BY <1>1, <1>2, <1>3, <2>1, <2>2, <2>3, FlowingStep
<1>11. HandedInOrder'
  BY <1>0, <1>1 DEF HandedInOrder, Idle
<1>12. SeenInOrder'
  BY <1>0, <1>1, <1>3, <1>4, SeenStep
<1> QED  BY <1>5, <1>6, <1>7, <1>8, <1>9, <1>10, <1>11, <1>12 DEF IInv

(* A write of the user joins the buffer, and goes on if no other is active.  *)
Writes ==
  /\ worker = Idle /\ open
  /\ written < MaxWrites
  /\ written' = written + 1
  /\ TryStartWrite(Append(buffer, written + 1), active, completions)
  /\ worker' \in {Idle, "last write"}
  /\ UNCHANGED <<open, notify, cancelled, finished, passing, inbox, restricted, dead,
                 received, seen, told, finishes>>

LEMMA WriteStep ==
  ASSUME IInv, Writes
  PROVE  /\ IInv'
         /\ \/ handed' = handed
            \/ Len(handed) = written /\ handed' = Append(handed, Len(handed) + 1)
<1>0. /\ worker = Idle /\ open /\ written < MaxWrites /\ written' = written + 1
      /\ worker' \in {Idle, "last write"}
      /\ open' = open /\ notify' = notify /\ cancelled' = cancelled /\ finished' = finished
      /\ passing' = passing /\ inbox' = inbox /\ restricted' = restricted /\ dead' = dead
      /\ received' = received /\ seen' = seen /\ told' = told /\ finishes' = finishes
  BY DEF Writes
<1>1. /\ Types /\ Unique /\ Registered /\ Single /\ Draining /\ Flowing
      /\ HandedInOrder /\ SeenInOrder
  BY DEF IInv
<1>2. Len(handed) + Len(buffer) = written /\ Numbered(handed, buffer)
  BY <1>0, <1>1 DEF HandedInOrder, Idle
<1> DEFINE queue == Append(buffer, written + 1)
<1>3. /\ Numbered(handed, queue) /\ Len(queue) = Len(buffer) + 1
  BY <1>2, NumberedAppend
<1>4. active \in BOOLEAN
  BY <1>1 DEF Types
<1> HIDE DEF queue
<1>5. TryStartWrite(queue, active, completions)
  BY DEF queue, Writes
<1>6. PICK N :
           /\ Writing(N) /\ grpc' = grpc \cup N
           /\ IF N = {} THEN /\ issued' = issued /\ completions' = completions /\ active' = active
                             /\ handed' = handed
                        ELSE /\ issued' = NewId /\ completions' = completions \cup {NewId}
                             /\ active' = TRUE /\ ~active
                             /\ handed' = Append(handed, Len(handed) + 1)
                             /\ queue # <<>>
           /\ buffer' # <<>> => active'
           /\ Numbered(handed', buffer')
           /\ Len(handed') + Len(buffer') = Len(handed) + Len(queue)
  BY <1>3, <1>4, <1>5, TryStartWriteStep
<1>7. Works(0, N)
  <2>1. Kept(0)
    BY <1>0, <1>1, BackUnchanged
  <2>2. \A op \in grpc : op.id # 0
    BY <1>1 DEF Types
  <2>3. \/ N = {} /\ issued' = issued
        \/ /\ issued' = NewId
           /\ \E kind \in Kinds, msg \in Nat : N = {[id |-> NewId, kind |-> kind, msg |-> msg]}
    <3>1. "Write" \in Kinds
      BY DEF Kinds
    <3> QED  BY <1>6, <3>1 DEF Writing
  <2> QED  BY <1>0, <1>6, <2>1, <2>2, <2>3 DEF Works
<1>8. ~Of(N, "Read") /\ ~Of(N, "Finish") /\ (Of(N, "Write") <=> N # {})
  <2>1. CASE N = {}
    BY <2>1 DEF Of
  <2>2. CASE N # {}
    <3>1. PICK msg \in Nat : N = {[id |-> NewId, kind |-> "Write", msg |-> msg]}
      BY <1>6, <2>2 DEF Writing
    <3> QED  BY <3>1 DEF Of
  <2> QED  BY <2>1, <2>2
<1>9. 0 \notin completions /\ \A kind : 0 \notin Live(kind)
  BY <1>1, ZeroNotLive
<1>10. Types'
  <2>1. completions' \subseteq 1 .. issued' /\ cancelled' \subseteq 1 .. issued'
    <3>1. /\ \A i \in 1 .. issued : i \in 1 .. issued'
          /\ issued' = NewId => NewId \in 1 .. issued'
      BY <1>1, <1>7, WorksTypes
    <3>2. completions \subseteq 1 .. issued /\ cancelled \subseteq 1 .. issued
      BY <1>1 DEF Types
    <3>3. completions' = completions \/ (issued' = NewId /\ completions' = completions \cup {NewId})
      BY <1>6
    <3> QED  BY <1>0, <3>1, <3>2, <3>3
  <2>2. written' \in 0 .. MaxWrites
    <3>1. written \in 0 .. MaxWrites
      BY <1>1 DEF Types
    <3>2. written < MaxWrites /\ written' = written + 1
      BY <1>0
    <3>3. MaxWrites \in Nat
      BY GrpcAssumption
    <3> QED  BY <3>1, <3>2, <3>3
  <2>3. issued' \in Nat /\ grpc' \subseteq [id : 1 .. issued', kind : Kinds, msg : Nat]
    BY <1>1, <1>7, WorksTypes
  <2>4. active' \in BOOLEAN
    BY <1>4, <1>6
  <2> QED  BY <1>0, <1>1, <2>1, <2>2, <2>3, <2>4 DEF Types, Blocked
<1>11. Unique'
  BY <1>1, <1>7, UniqueStep
<1>12. Registered'
  <2>1. \A y \in completions : y # 0 => y \in completions'
    BY <1>6
  <2>2. \A op \in N : op.id \in completions'
    <3>1. CASE N = {}
      BY <3>1
    <3>2. CASE N # {}
      <4>1. \A op \in N : op.id = NewId
        BY <1>6, <3>2 DEF Writing
      <4> QED  BY <1>6, <3>2, <4>1
    <3> QED  BY <3>1, <3>2
  <2>3. open'
    BY <1>0
  <2> QED  BY <1>1, <1>7, <2>1, <2>2, <2>3, RegisteredStep
<1>13. Single'
  <2>1. active => active'
    BY <1>6
  <2>2. Of(N, "Write") => active' /\ ~active
    BY <1>6, <1>8
  <2> QED  BY <1>1, <1>7, <1>8, <2>1, <2>2, SingleStep
<1>14. Draining'
  BY <1>0, <1>1 DEF Draining, Idle
<1>15. Flowing'
  <2>1. active' => Of(N, "Write") \/ (active /\ 0 \notin Live("Write"))
    BY <1>6, <1>8, <1>9
  <2> QED  BY <1>0, <1>1, <1>6, <1>7, <2>1, FlowingStep
<1>16. HandedInOrder'
  <2>1. Len(handed) \in Nat /\ Len(buffer) \in Nat
    BY <1>2, LenProperties DEF Numbered
  <2>2. Len(handed') + Len(buffer') = written'
    <3>1. Len(handed) + (Len(buffer) + 1) = (Len(handed) + Len(buffer)) + 1
      BY <2>1
    <3> QED  BY <1>0, <1>2, <1>3, <1>6, <3>1
  <2>3. written' \in Nat /\ written' <= written'
    BY <1>10 DEF Types
  <2> QED  BY <1>6, <2>2, <2>3 DEF HandedInOrder
<1>17. SeenInOrder'
  BY <1>0, <1>1, <1>7, <1>8, SeenStep
<1>18. \/ handed' = handed
       \/ Len(handed) = written /\ handed' = Append(handed, Len(handed) + 1)
  <2>1. CASE N # {}
    <3>1. buffer = <<>>
      BY <1>1, <1>6, <2>1 DEF Flowing
    <3>2. Len(handed) = written
      <4>1. Len(handed) \in Nat /\ Len(handed) + 0 = written
        BY <1>2, <3>1, LenProperties DEF Numbered
      <4> QED  BY <4>1
    <3> QED  BY <1>6, <2>1, <3>2
  <2> QED  BY <1>6, <2>1
<1> QED  BY <1>10, <1>11, <1>12, <1>13, <1>14, <1>15, <1>16, <1>17, <1>18 DEF IInv

(* WriteAndFinish while a write is active or the call is finished.           *)
LastMessageLeft ==
  /\ worker = Idle /\ open
  /\ written < MaxWrites
  /\ written' = written + 1
  /\ finished \/ active
  /\ Shutdown(completions, FALSE)
  /\ buffer' = IF finished THEN buffer ELSE Append(buffer, written + 1)
  /\ UNCHANGED <<open, completions, issued, active, grpc, passing, inbox, restricted,
                 handed, received, seen, told>>

LEMMA LastMessageStep ==
  ASSUME IInv, LastMessageLeft
  PROVE  IInv'
<1>0. /\ worker = Idle /\ open /\ (finished \/ active)
      /\ buffer' = IF finished THEN buffer ELSE Append(buffer, written + 1)
      /\ open' = open /\ completions' = completions /\ issued' = issued
      /\ active' = active /\ grpc' = grpc /\ passing' = passing /\ inbox' = inbox
      /\ restricted' = restricted /\ handed' = handed
      /\ received' = received /\ seen' = seen /\ told' = told
      /\ Shutdown(completions, FALSE)
  BY DEF LastMessageLeft
<1>1. /\ Types /\ Unique /\ Registered /\ Single /\ Draining /\ Flowing
      /\ HandedInOrder /\ SeenInOrder
  BY DEF IInv
<1>2. /\ notify' = FALSE /\ dead' \in BOOLEAN /\ finished' \in BOOLEAN
      /\ worker' \in {"stopping", "ending"}
      /\ worker' = "stopping" => finished'
      /\ cancelled' = cancelled \cup completions
      /\ finished => finished' /\ worker' = "ending"
      /\ finished' \/ completions = {}
      /\ finishes' = IF finished' THEN 1 ELSE 0
  BY <1>0, <1>1, ShutdownStep
<1>3. Works(0, {})
  BY <1>0, <1>1, <1>2, WorksOnNothing
<1>4. ~Of({}, "Read") /\ ~Of({}, "Write") /\ ~Of({}, "Finish")
  BY DEF Of
<1>5. written' \in 0 .. MaxWrites /\ written' = written + 1 /\ written \in Nat
  <2>1. written \in 0 .. MaxWrites /\ written < MaxWrites /\ written' = written + 1
    BY <1>1 DEF LastMessageLeft, Types
  <2>2. MaxWrites \in Nat
    BY GrpcAssumption
  <2> QED  BY <2>1, <2>2
<1>6. Types'
  BY <1>0, <1>1, <1>2, <1>5 DEF Types, Blocked
<1>7. Unique'
  BY <1>1, <1>3, UniqueStep
<1>8. Registered'
  <2>1. /\ \A y \in completions : y # 0 => y \in completions'
        /\ \A op \in {} : op.id \in completions'
        /\ open'
    BY <1>0
  <2> QED  BY <1>1, <1>3, <2>1, RegisteredStep
<1>9. Single'
  BY <1>0, <1>1, <1>3, <1>4, SingleStep
<1>10. Draining'
  BY <1>0, <1>2 DEF Draining
<1>11. Flowing'
  <2>1. finished \/ finished' \/ cancelled' = cancelled
    BY <1>2
  <2>2. active' => active /\ 0 \notin Live("Write")
    BY <1>0, <1>1, ZeroNotLive
  <2>3. buffer' # <<>> => active'
    BY <1>0, <1>1 DEF Flowing
  <2> QED  BY <1>1, <1>2, <1>3, <2>1, <2>2, <2>3, FlowingStep
<1>12. HandedInOrder'
  <2>1. Numbered(handed, buffer) /\ Len(handed) + Len(buffer) = written
    BY <1>0, <1>1 DEF HandedInOrder, Idle
  <2>2. Len(handed) \in Nat /\ Len(buffer) \in Nat
    BY <2>1, LenProperties DEF Numbered
  <2>3. CASE finished
    <3>1. worker' = "ending" /\ buffer' = buffer /\ Len(handed') + Len(buffer') <= written'
      BY <1>0, <1>2, <1>5, <2>1, <2>3
    <3> QED  BY <1>0, <2>1, <3>1 DEF HandedInOrder
  <2>4. CASE ~finished
    <3>1. buffer' = Append(buffer, written + 1) /\ handed' = handed
      BY <1>0, <2>4
    <3>2. Numbered(handed', buffer') /\ Len(buffer') = Len(buffer) + 1
      BY <2>1, <3>1, NumberedAppend
    <3>3. Len(handed) + (Len(buffer) + 1) = (Len(handed) + Len(buffer)) + 1
      BY <2>2
    <3>4. Len(handed') + Len(buffer') = written' /\ written' <= written'
      BY <1>5, <2>1, <3>1, <3>2, <3>3
    <3> QED  BY <3>2, <3>4 DEF HandedInOrder
  <2> QED  BY <2>3, <2>4
<1>13. SeenInOrder'
  BY <1>0, <1>1, <1>3, <1>4, SeenStep
<1> QED  BY <1>6, <1>7, <1>8, <1>9, <1>10, <1>11, <1>12, <1>13 DEF IInv

-----------------------------------------------------------------------------
(* The callbacks.                                                            *)

(* A reply whose callback was taken away is live no more, and changes        *)
(* nothing.                                                                  *)
LEMMA CancelledStep ==
  ASSUME IInv, RunCancelled
  PROVE  IInv'
<1> DEFINE x == Reply1.op.id
<1>0. /\ worker = Idle /\ inbox # <<>> /\ x \in cancelled
      /\ inbox' = Tail(inbox)
      /\ open' = open /\ worker' = worker /\ notify' = notify /\ completions' = completions
      /\ cancelled' = cancelled /\ issued' = issued /\ buffer' = buffer /\ active' = active
      /\ finished' = finished /\ grpc' = grpc /\ passing' = passing /\ restricted' = restricted
      /\ dead' = dead /\ written' = written /\ handed' = handed /\ received' = received
      /\ seen' = seen /\ told' = told /\ finishes' = finishes
  BY DEF RunCancelled, writerVars, countVars
<1>1. /\ Types /\ Unique /\ Registered /\ Single /\ Draining /\ Flowing
      /\ HandedInOrder /\ SeenInOrder
  BY DEF IInv
<1> HIDE DEF x
<1>2. Kept(x) /\ \A op \in grpc : op.id # x
  BY <1>0, <1>1, BackTaken DEF x
<1>3. Works(x, {})
  BY <1>0, <1>2 DEF Works
<1>4. ~Of({}, "Read") /\ ~Of({}, "Write") /\ ~Of({}, "Finish")
  BY DEF Of
<1>5. x \notin Live("Write")
  BY <1>0, <1>2, LiveMembers
<1>6. Types'
  <2>1. inbox' \in Seq(Reply)
    BY <1>0, <1>1, HeadTailProperties DEF Types
  <2> QED  BY <1>0, <1>1, <2>1 DEF Types
<1>7. Unique'
  BY <1>1, <1>3, UniqueStep
<1>8. Registered'
  <2>1. /\ \A y \in completions : y # x => y \in completions'
        /\ \A op \in {} : op.id \in completions'
        /\ completions' # {} => open'
        /\ worker' # Idle => open'
    BY <1>0, <1>1 DEF Registered
  <2> QED  BY <1>1, <1>3, <2>1, RegisteredStep
<1>9. Single'
  BY <1>0, <1>1, <1>3, <1>4, SingleStep
<1>10. Draining'
  BY <1>0, <1>1 DEF Draining
<1>11. Flowing'
  <2>1. buffer' # <<>> => active'
    BY <1>0, <1>1 DEF Flowing
  <2> QED  BY <1>0, <1>1, <1>3, <1>5, <2>1, FlowingStep
<1>12. HandedInOrder'
  BY <1>0, <1>1 DEF HandedInOrder
<1>13. SeenInOrder'
  BY <1>0, <1>1, <1>3, <1>4, SeenStep
<1> QED  BY <1>6, <1>7, <1>8, <1>9, <1>10, <1>11, <1>12, <1>13 DEF IInv

(* OnRead: the message is the next one to be seen, and the new read the only *)
(* one.                                                                      *)
LEMMA OnReadStep ==
  ASSUME IInv, OnRead
  PROVE  /\ IInv'
         /\ open /\ Len(seen) < received /\ seen' = Append(seen, Len(seen) + 1)
<1> DEFINE x == Reply1.op.id
           N == {[id |-> NewId, kind |-> "Read", msg |-> 0]}
<1>0. /\ MayRun("Read", TRUE) /\ inbox' = Tail(inbox)
      /\ grpc' = grpc \cup N /\ issued' = NewId
      /\ completions' = (completions \ {x}) \cup {NewId}
      /\ seen' = Append(seen, Reply1.op.msg)
      /\ open' = open /\ buffer' = buffer /\ active' = active /\ passing' = passing
      /\ restricted' = restricted /\ written' = written /\ handed' = handed
      /\ received' = received /\ told' = told
      /\ \/ /\ worker' = worker /\ notify' = notify /\ cancelled' = cancelled
            /\ dead' = dead /\ finished' = finished /\ finishes' = finishes
         \/ Shutdown(completions', FALSE)
  BY DEF OnRead, writerVars, Issue, RemoveCompletion
<1>1. /\ Types /\ Unique /\ Registered /\ Single /\ Draining /\ Flowing
      /\ HandedInOrder /\ SeenInOrder
  BY DEF IInv
<1>2. /\ Kept(x) /\ \A op \in grpc : op.id # x
      /\ x \in Live("Read") /\ x \in completions
      /\ \A k : x \in Live(k) => k = "Read"
      /\ open /\ worker = Idle
  <2>1. "Read" \in Kinds
    BY DEF Kinds
  <2> QED  BY <1>0, <2>1, HeadRuns
<1>3. Reply1.op.msg = received /\ received = Len(seen) + 1 /\ Reply1.op.msg = Len(seen) + 1
  <2>1. inbox # <<>> /\ x \notin cancelled /\ Reply1.op.kind = "Read" /\ Reply1.ok
    BY <1>0 DEF MayRun
  <2>2. \E i \in DOMAIN Back : Back[i] = Reply1
    BY <1>0, <1>1, <2>1, BackTaken
  <2> QED  BY <1>1, <2>1, <2>2 DEF SeenInOrder
<1>4. /\ notify' \in BOOLEAN /\ dead' \in BOOLEAN /\ finished' \in BOOLEAN
      /\ worker' \in {Idle, "stopping", "ending"}
      /\ worker' = "stopping" => finished'
      /\ worker' # Idle => completions' \subseteq cancelled'
      /\ cancelled \subseteq cancelled'
      /\ cancelled' \subseteq cancelled \cup completions'
      /\ finished => finished'
      /\ finished' \/ cancelled' = cancelled
      /\ finishes' = IF finished' THEN 1 ELSE 0
  <2>1. CASE Shutdown(completions', FALSE)
    <3>1. /\ notify' = FALSE /\ dead' \in BOOLEAN /\ finished' \in BOOLEAN
          /\ worker' \in {"stopping", "ending"}
          /\ worker' = "stopping" => finished'
          /\ cancelled' = cancelled \cup completions'
          /\ finished => finished'
          /\ finished' \/ completions' = {}
          /\ finishes' = IF finished' THEN 1 ELSE 0
      BY <1>1, <2>1, ShutdownStep
    <3> QED  BY <1>0, <3>1
  <2>2. CASE ~Shutdown(completions', FALSE)
    <3>1. /\ worker' = worker /\ notify' = notify /\ cancelled' = cancelled
          /\ dead' = dead /\ finished' = finished /\ finishes' = finishes
      BY <1>0, <2>2
    <3> QED  BY <1>1, <1>2, <3>1 DEF Types, Draining, Idle
  <2> QED  BY <2>1, <2>2
<1>5. Works(x, N)
  <2>1. "Read" \in Kinds /\ 0 \in Nat
    BY DEF Kinds
  <2> QED  BY <1>0, <1>2, <1>4, <2>1 DEF Works
<1>6. ~Of(N, "Write") /\ ~Of(N, "Finish")
  BY DEF Of
<1> HIDE DEF x, N
<1>7. Types'
  <2>1. inbox' \in Seq(Reply)
    BY <1>0, <1>1, HeadTailProperties DEF Types, MayRun
  <2>2. issued' \in Nat /\ grpc' \subseteq [id : 1 .. issued', kind : Kinds, msg : Nat]
    BY <1>1, <1>5, WorksTypes
  <2>3. completions' \subseteq 1 .. issued' /\ cancelled' \subseteq 1 .. issued'
    <3>1. /\ \A i \in 1 .. issued : i \in 1 .. issued'
          /\ issued' = NewId => NewId \in 1 .. issued'
      BY <1>1, <1>5, WorksTypes
    <3>2. completions \subseteq 1 .. issued /\ cancelled \subseteq 1 .. issued
      BY <1>1 DEF Types
    <3>3. completions' \subseteq 1 .. issued'
      BY <1>0, <3>1, <3>2
    <3> QED  BY <1>4, <3>1, <3>2, <3>3
  <2> QED  BY <1>0, <1>1, <1>4, <2>1, <2>2, <2>3 DEF Types, Blocked
<1>8. Unique'
  BY <1>1, <1>5, UniqueStep
<1>9. Registered'
  <2>1. /\ \A y \in completions : y # x => y \in completions'
        /\ \A op \in N : op.id \in completions'
        /\ open'
    BY <1>0, <1>2 DEF N
  <2> QED  BY <1>1, <1>5, <2>1, RegisteredStep
<1>10. Single'
  BY <1>0, <1>1, <1>2, <1>5, <1>6, SingleStep
<1>11. Draining'
  BY <1>4 DEF Draining, Idle
<1>12. Flowing'
  <2>1. "Write" # "Read"
    OBVIOUS
  <2>2. x \notin Live("Write")
    BY <1>2, <2>1
  <2>3. buffer' # <<>> => active'
    BY <1>0, <1>1 DEF Flowing
  <2> QED  BY <1>0, <1>1, <1>4, <1>5, <2>2, <2>3, FlowingStep
<1>13. HandedInOrder'
  BY <1>0, <1>1, <1>2 DEF HandedInOrder, Idle
<1>14. SeenInOrder'
  <2>1. Numbered(seen, <<>>) /\ Len(seen) \in Nat /\ seen \in Seq(Nat)
    BY <1>1, LenProperties DEF SeenInOrder, Numbered
  <2>2. Numbered(seen', <<>>) /\ Len(seen') = Len(seen) + 1
    <3>1. Numbered(seen, <<Len(seen) + 1>>)
      BY <2>1 DEF Numbered
    <3>2. <<Len(seen) + 1>> # <<>> /\ Head(<<Len(seen) + 1>>) = Len(seen) + 1
          /\ Tail(<<Len(seen) + 1>>) = <<>>
      OBVIOUS
    <3>3. Numbered(Append(seen, Len(seen) + 1), <<>>)
      BY <3>1, <3>2, NumberedHand
    <3>4. Len(Append(seen, Len(seen) + 1)) = Len(seen) + 1
      BY <2>1, AppendProperties
    <3> QED  BY <1>0, <1>3, <3>3, <3>4
  <2>3. received' = Len(seen') /\ Len(seen') <= received'
    BY <1>0, <1>3, <2>1, <2>2
  <2>4. ASSUME NEW i \in DOMAIN Back', Back'[i].op.kind = "Read", Back'[i].op.id \notin cancelled'
        PROVE  FALSE
    <3>1. PICK j \in DOMAIN Back : Back'[i] = Back[j] /\ Back[j].op.id # x
      BY <1>2 DEF Kept
    <3>2. Back[j].op.id \in Live("Read")
      BY <1>4, <2>4, <3>1, LiveMembers
    <3> QED  BY <1>1, <1>2, <3>1, <3>2 DEF Single
  <2> QED  BY <2>2, <2>3, <2>4 DEF SeenInOrder
<1>15. Len(seen) < received
  <2>1. Len(seen) \in Nat
    BY <1>1, LenProperties DEF SeenInOrder, Numbered
  <2> QED  BY <1>3, <2>1
<1> QED  BY <1>0, <1>2, <1>3, <1>15, <1>7, <1>8, <1>9, <1>10, <1>11, <1>12, <1>13, <1>14 DEF IInv

(* OnWrite: the write that ran makes room for the next one, if one waits.    *)
LEMMA OnWriteStep ==
  ASSUME IInv, OnWrite
  PROVE  /\ IInv' /\ open
         /\ \/ handed' = handed
            \/ Len(handed) < written /\ handed' = Append(handed, Len(handed) + 1)
<1> DEFINE x == Reply1.op.id
           c == completions \ {x}
<1>0. /\ MayRun("Write", TRUE) /\ inbox' = Tail(inbox)
      /\ TryStartWrite(buffer, FALSE, c)
      /\ open' = open /\ worker' = worker /\ notify' = notify /\ cancelled' = cancelled
      /\ finished' = finished /\ passing' = passing /\ restricted' = restricted /\ dead' = dead
      /\ written' = written /\ received' = received /\ seen' = seen /\ told' = told
      /\ finishes' = finishes
  BY DEF OnWrite, RemoveCompletion
<1>1. /\ Types /\ Unique /\ Registered /\ Single /\ Draining /\ Flowing
      /\ HandedInOrder /\ SeenInOrder
  BY DEF IInv
<1>2. /\ Kept(x) /\ \A op \in grpc : op.id # x
      /\ x \in Live("Write") /\ x \in completions
      /\ open /\ worker = Idle
  <2>1. "Write" \in Kinds
    BY DEF Kinds
  <2> QED  BY <1>0, <2>1, HeadRuns
<1>3. Numbered(handed, buffer)
  BY <1>1 DEF HandedInOrder
<1> HIDE DEF x, c
<1>4. PICK N :
           /\ Writing(N) /\ grpc' = grpc \cup N
           /\ IF N = {} THEN /\ issued' = issued /\ completions' = c /\ active' = FALSE
                             /\ handed' = handed
                        ELSE /\ issued' = NewId /\ completions' = c \cup {NewId}
                             /\ active' = TRUE /\ ~FALSE
                             /\ handed' = Append(handed, Len(handed) + 1)
                             /\ buffer # <<>>
           /\ buffer' # <<>> => active'
           /\ Numbered(handed', buffer')
           /\ Len(handed') + Len(buffer') = Len(handed) + Len(buffer)
  BY <1>0, <1>3, TryStartWriteStep
<1>5. Works(x, N)
  <2>1. \/ N = {} /\ issued' = issued
        \/ /\ issued' = NewId
           /\ \E kind \in Kinds, msg \in Nat : N = {[id |-> NewId, kind |-> kind, msg |-> msg]}
    <3>1. "Write" \in Kinds
      BY DEF Kinds
    <3> QED  BY <1>4, <3>1 DEF Writing
  <2> QED  BY <1>0, <1>2, <1>4, <2>1 DEF Works
<1>6. ~Of(N, "Read") /\ ~Of(N, "Finish") /\ (Of(N, "Write") <=> N # {})
      /\ \A op \in N : op.id = NewId
  <2>1. CASE N = {}
    BY <2>1 DEF Of
  <2>2. CASE N # {}
    <3>1. PICK msg \in Nat : N = {[id |-> NewId, kind |-> "Write", msg |-> msg]}
      BY <1>4, <2>2 DEF Writing
    <3> QED  BY <3>1 DEF Of
  <2> QED  BY <2>1, <2>2
<1>7. Types'
  <2>1. inbox' \in Seq(Reply)
    BY <1>0, <1>1, HeadTailProperties DEF Types, MayRun
  <2>2. issued' \in Nat /\ grpc' \subseteq [id : 1 .. issued', kind : Kinds, msg : Nat]
    BY <1>1, <1>5, WorksTypes
  <2>3. completions' \subseteq 1 .. issued' /\ cancelled' \subseteq 1 .. issued'
    <3>1. /\ \A i \in 1 .. issued : i \in 1 .. issued'
          /\ issued' = NewId => NewId \in 1 .. issued'
      BY <1>1, <1>5, WorksTypes
    <3>2. completions \subseteq 1 .. issued /\ cancelled \subseteq 1 .. issued
      BY <1>1 DEF Types
    <3>3. completions' = c \/ (issued' = NewId /\ completions' = c \cup {NewId})
      BY <1>4
    <3> QED  BY <1>0, <3>1, <3>2, <3>3 DEF c
  <2>4. active' \in BOOLEAN
    BY <1>4
  <2> QED  BY <1>0, <1>1, <2>1, <2>2, <2>3, <2>4 DEF Types
<1>8. Unique'
  BY <1>1, <1>5, UniqueStep
<1>9. Registered'
  <2>1. \A y \in completions : y # x => y \in completions'
    BY <1>4 DEF c
  <2>2. \A op \in N : op.id \in completions'
    BY <1>4, <1>6
  <2>3. open'
    BY <1>0, <1>2
  <2> QED  BY <1>1, <1>5, <2>1, <2>2, <2>3, RegisteredStep
<1>10. Single'
  <2>1. Of(N, "Write") => active'
    BY <1>4, <1>6
  <2> QED  BY <1>1, <1>2, <1>5, <1>6, <2>1, SingleStep
<1>11. Draining'
  BY <1>0, <1>1, <1>2 DEF Draining, Idle
<1>12. Flowing'
  <2>1. active' => Of(N, "Write")
    BY <1>4, <1>6
  <2> QED  BY <1>0, <1>1, <1>4, <1>5, <2>1, FlowingStep
<1>13. HandedInOrder'
  <2>1. Len(handed') + Len(buffer') = written'
    BY <1>0, <1>1, <1>2, <1>4 DEF HandedInOrder, Idle
  <2>2. written' \in Nat /\ written' <= written'
    BY <1>7 DEF Types
  <2> QED  BY <1>4, <2>1, <2>2 DEF HandedInOrder
<1>14. SeenInOrder'
  BY <1>0, <1>1, <1>5, <1>6, SeenStep
<1>15. \/ handed' = handed
       \/ Len(handed) < written /\ handed' = Append(handed, Len(handed) + 1)
  <2>1. CASE N # {}
    <3>1. buffer # <<>>
      BY <1>4, <2>1
    <3>2. Len(handed) \in Nat /\ Len(buffer) \in Nat /\ Len(buffer) # 0
      BY <1>3, <3>1, LenProperties, EmptySeq DEF Numbered
    <3>3. Len(handed) + Len(buffer) <= written /\ written \in Nat
      BY <1>1 DEF HandedInOrder, Types
    <3>4. Len(handed) < written
      BY <3>2, <3>3
    <3> QED  BY <1>4, <2>1, <3>4
  <2> QED  BY <1>4, <2>1
<1> QED  BY <1>2, <1>7, <1>8, <1>9, <1>10, <1>11, <1>12, <1>13, <1>14, <1>15 DEF IInv

(* A callback after which the stream may be shut down or the call finished,  *)
(* and no operation is issued: OnFinish and OnOperationFailed.               *)
Closes ==
  /\ \E kind \in Kinds, ok \in BOOLEAN : MayRun(kind, ok)
  /\ inbox' = Tail(inbox)
  /\ completions' = completions \ {Reply1.op.id}
  /\ worker' \in {Idle, "failing", "stopping", "ending"}
  /\ worker' \in {"failing", "stopping"} => finished'
  /\ worker' # Idle => completions' \subseteq cancelled'
  /\ cancelled \subseteq cancelled' /\ cancelled' \subseteq cancelled \cup completions'
  /\ finished => finished'
  /\ finished' \/ (cancelled' = cancelled /\ Reply1.op.id \notin Live("Write"))
  /\ finishes' = IF finished' THEN 1 ELSE 0
  /\ notify' \in BOOLEAN /\ dead' \in BOOLEAN /\ finished' \in BOOLEAN
  /\ UNCHANGED <<open, issued, writerVars, grpc, passing, restricted, countVars>>

LEMMA ClosesStep ==
  ASSUME IInv, Closes
  PROVE  IInv'
<1> DEFINE x == Reply1.op.id
<1>0. /\ inbox' = Tail(inbox) /\ completions' = completions \ {x}
      /\ worker' \in {Idle, "failing", "stopping", "ending"}
      /\ worker' \in {"failing", "stopping"} => finished'
      /\ worker' # Idle => completions' \subseteq cancelled'
      /\ cancelled \subseteq cancelled' /\ cancelled' \subseteq cancelled \cup completions'
      /\ finished => finished'
      /\ finished' \/ (cancelled' = cancelled /\ x \notin Live("Write"))
      /\ finishes' = IF finished' THEN 1 ELSE 0
      /\ notify' \in BOOLEAN /\ dead' \in BOOLEAN /\ finished' \in BOOLEAN
      /\ open' = open /\ issued' = issued /\ buffer' = buffer
      /\ active' = active /\ grpc' = grpc /\ passing' = passing
      /\ restricted' = restricted /\ written' = written /\ handed' = handed
      /\ received' = received /\ seen' = seen /\ told' = told
  BY DEF Closes, writerVars, countVars
<1>1. /\ Types /\ Unique /\ Registered /\ Single /\ Draining /\ Flowing
      /\ HandedInOrder /\ SeenInOrder
  BY DEF IInv
<1>2. Kept(x) /\ (\A op \in grpc : op.id # x) /\ open /\ worker = Idle /\ inbox # <<>>
  <2>1. PICK kind \in Kinds, ok \in BOOLEAN : MayRun(kind, ok)
    BY DEF Closes
  <2> QED  BY <1>0, <2>1, HeadRuns DEF MayRun
<1> HIDE DEF x
<1>3. Works(x, {})
  BY <1>0, <1>2 DEF Works
<1>4. ~Of({}, "Read") /\ ~Of({}, "Write") /\ ~Of({}, "Finish")
  BY DEF Of
<1>5. Types'
  <2>1. inbox' \in Seq(Reply)
    BY <1>0, <1>1, <1>2, HeadTailProperties DEF Types
  <2>2. completions' \subseteq 1 .. issued' /\ cancelled' \subseteq 1 .. issued'
    BY <1>0, <1>1 DEF Types
  <2> QED  BY <1>0, <1>1, <2>1, <2>2 DEF Types, Blocked
<1>6. Unique'
  BY <1>1, <1>3, UniqueStep
<1>7. Registered'
  <2>1. /\ \A y \in completions : y # x => y \in completions'
        /\ \A op \in {} : op.id \in completions'
        /\ open'
    BY <1>0, <1>2
  <2> QED  BY <1>1, <1>3, <2>1, RegisteredStep
<1>8. Single'
  BY <1>0, <1>1, <1>3, <1>4, SingleStep
<1>9. Draining'
  BY <1>0 DEF Draining, Idle
<1>10. Flowing'
  <2>1. buffer' # <<>> => active'
    BY <1>0, <1>1 DEF Flowing
  <2>2. CASE finished'
    BY <2>1, <2>2 DEF Flowing
  <2>3. CASE ~finished'
    BY <1>0, <1>1, <1>3, <2>1, <2>3, FlowingStep
  <2> QED  BY <2>2, <2>3
<1>11. HandedInOrder'
  BY <1>0, <1>1, <1>2 DEF HandedInOrder, Idle
<1>12. SeenInOrder'
  BY <1>0, <1>1, <1>3, <1>4, SeenStep
<1> QED  BY <1>5, <1>6, <1>7, <1>8, <1>9, <1>10, <1>11, <1>12 DEF IInv

LEMMA OnFinishCloses ==
  ASSUME IInv, OnFinish
  PROVE  Closes
<1>1. /\ MayRun("Finish", TRUE) /\ inbox' = Tail(inbox)
      /\ completions' = completions \ {Reply1.op.id} /\ Shutdown(completions', TRUE)
      /\ UNCHANGED <<open, issued, writerVars, grpc, passing, restricted, countVars>>
      /\ passing' = passing
  BY DEF OnFinish, RemoveCompletion
<1>2. "Finish" \in Kinds /\ "Finish" # "Write" /\ TRUE \in BOOLEAN
  BY DEF Kinds
<1>3. Reply1.op.id \notin Live("Write")
  BY <1>1, <1>2, HeadRuns
<1>4. /\ notify' = TRUE /\ dead' \in BOOLEAN /\ finished' \in BOOLEAN
      /\ worker' \in {"stopping", "ending"}
      /\ worker' = "stopping" => finished'
      /\ cancelled' = cancelled \cup completions'
      /\ finished => finished'
      /\ finished' \/ completions' = {}
      /\ finishes' = IF finished' THEN 1 ELSE 0
  BY <1>1, ShutdownStep DEF IInv
<1> QED  BY <1>1, <1>2, <1>3, <1>4 DEF Closes

LEMMA OnOperationFailedCloses ==
  ASSUME IInv, OnOperationFailed
  PROVE  Closes
<1>1. PICK kind \in {"Read", "Write"} : MayRun(kind, FALSE)
  BY DEF OnOperationFailed
<1>2. /\ kind \in Kinds /\ FALSE \in BOOLEAN
  BY DEF Kinds
<1>3. /\ inbox' = Tail(inbox)
      /\ completions' = completions \ {Reply1.op.id}
      /\ notify' = notify /\ dead' = dead
      /\ UNCHANGED <<open, issued, writerVars, grpc, passing, restricted, countVars>>
      /\ IF finished
         THEN /\ worker' = worker /\ cancelled' = cancelled /\ finished' = finished
              /\ finishes' = finishes
         ELSE /\ finished' = TRUE /\ finishes' = finishes + 1
              /\ cancelled' = cancelled \cup completions' /\ worker' = "failing"
  BY DEF OnOperationFailed, RemoveCompletion, CancelAndWait
<1>4. /\ worker = Idle /\ notify \in BOOLEAN /\ dead \in BOOLEAN /\ finished \in BOOLEAN
      /\ finishes = IF finished THEN 1 ELSE 0
  BY <1>1 DEF IInv, Types, Draining, MayRun
<1>5. /\ worker' \in {Idle, "failing"}
      /\ worker' = "failing" => finished' /\ completions' \subseteq cancelled'
      /\ cancelled \subseteq cancelled' /\ cancelled' \subseteq cancelled \cup completions'
      /\ finished' = TRUE
      /\ finishes' = 1
      /\ notify' \in BOOLEAN /\ dead' \in BOOLEAN
  <2>1. CASE finished
    BY <1>3, <1>4, <2>1 DEF Idle
  <2>2. CASE ~finished
    BY <1>3, <1>4, <2>2
  <2> QED  BY <2>1, <2>2
<1>6. /\ worker' \in {Idle, "failing", "stopping", "ending"}
      /\ worker' \in {"failing", "stopping"} => finished'
      /\ worker' # Idle => completions' \subseteq cancelled'
      /\ finished => finished'
      /\ finished' \/ (cancelled' = cancelled /\ Reply1.op.id \notin Live("Write"))
      /\ finishes' = IF finished' THEN 1 ELSE 0
      /\ finished' \in BOOLEAN
  BY <1>5 DEF Idle
<1> QED  BY <1>1, <1>2, <1>3, <1>5, <1>6 DEF Closes

-----------------------------------------------------------------------------
(* The worker goes on.                                                       *)

(* The status is asked for, with its callback or without.                    *)
AsksStatus ==
  /\ worker \in {"failing", "stopping"} /\ OffQueue
  /\ Issue("Finish", 0)
  /\ completions' = {NewId}
  /\ \/ worker' = Idle /\ cancelled' = cancelled
     \/ worker' = "ending" /\ cancelled' = cancelled \cup {NewId}
  /\ UNCHANGED <<open, notify, writerVars, finished, passing, inbox, restricted, dead,
                 countVars, finishes>>

LEMMA AsksStatusStep ==
  ASSUME IInv, AsksStatus
  PROVE  IInv'
<1> DEFINE N == {[id |-> NewId, kind |-> "Finish", msg |-> 0]}
<1>0. /\ worker \in {"failing", "stopping"} /\ OffQueue
      /\ grpc' = grpc \cup N /\ issued' = NewId /\ completions' = {NewId}
      /\ worker' \in {Idle, "ending"}
      /\ worker' # Idle => completions' \subseteq cancelled'
      /\ cancelled \subseteq cancelled' /\ cancelled' \subseteq cancelled \cup {NewId}
      /\ open' = open /\ notify' = notify /\ buffer' = buffer /\ active' = active
      /\ finished' = finished /\ passing' = passing /\ inbox' = inbox
      /\ restricted' = restricted /\ dead' = dead /\ written' = written /\ handed' = handed
      /\ received' = received /\ seen' = seen /\ told' = told /\ finishes' = finishes
  BY DEF AsksStatus, Issue, writerVars, countVars
<1>1. /\ Types /\ Unique /\ Registered /\ Single /\ Draining /\ Flowing
      /\ HandedInOrder /\ SeenInOrder
  BY DEF IInv
<1>2. \A kind \in Kinds : Live(kind) = {}
  BY <1>0, Drained
<1>3. finished /\ open
  BY <1>0, <1>1 DEF Draining, Registered, Idle
<1>4. Works(0, N)
  <2>1. Kept(0)
    BY <1>0, <1>1, BackUnchanged
  <2>2. \A op \in grpc : op.id # 0
    BY <1>1 DEF Types
  <2>3. "Finish" \in Kinds /\ 0 \in Nat
    BY DEF Kinds
  <2> QED  BY <1>0, <2>1, <2>2, <2>3 DEF Works
<1>5. ~Of(N, "Read") /\ ~Of(N, "Write") /\ Live("Read") = {} /\ 0 \notin Live("Write")
  <2>1. "Read" \in Kinds
    BY DEF Kinds
  <2>2. ~Of(N, "Read") /\ ~Of(N, "Write")
    BY DEF Of
  <2> QED  BY <1>1, <1>2, <2>1, <2>2, ZeroNotLive
<1>6. \A op \in N : op.id = NewId
  OBVIOUS
<1> HIDE DEF N
<1>7. Types'
  <2>1. issued' \in Nat /\ grpc' \subseteq [id : 1 .. issued', kind : Kinds, msg : Nat]
    BY <1>1, <1>4, WorksTypes
  <2>2. completions' \subseteq 1 .. issued' /\ cancelled' \subseteq 1 .. issued'
    <3>1. /\ \A i \in 1 .. issued : i \in 1 .. issued'
          /\ issued' = NewId => NewId \in 1 .. issued'
      BY <1>1, <1>4, WorksTypes
    <3>2. cancelled \subseteq 1 .. issued
      BY <1>1 DEF Types
    <3> QED  BY <1>0, <3>1, <3>2
  <2>3. worker' \in Blocked \cup {Idle}
    <3>1. worker' \in {Idle, "ending"}
      BY <1>0
    <3>2. "ending" \in Blocked
      BY DEF Blocked
    <3> QED  BY <3>1, <3>2
  <2>4. inbox' \in Seq(Reply) /\ passing' \in Seq(Reply)
    BY <1>0, <1>1 DEF Types
  <2>5. /\ open' \in BOOLEAN /\ notify' \in BOOLEAN /\ active' \in BOOLEAN
        /\ finished' \in BOOLEAN /\ restricted' \in BOOLEAN /\ dead' \in BOOLEAN /\ told' \in BOOLEAN
        /\ written' \in 0 .. MaxWrites /\ received' \in 0 .. MaxReads
    BY <1>0, <1>1 DEF Types
  <2> QED  BY <2>1, <2>2, <2>3, <2>4, <2>5 DEF Types
<1>8. Unique'
  BY <1>1, <1>4, UniqueStep
<1>9. Registered'
  <2>1. \A op \in grpc' : op.id \in completions'
    BY <1>0, <1>6, Drained
  <2>2. ASSUME NEW kind \in Kinds, NEW y \in Live(kind)'  PROVE y \in completions'
    <3>1. \E op \in N : op.kind = kind /\ op.id = y
      BY <1>2, <1>4, LiveAfter
    <3> QED  BY <1>0, <1>6, <3>1
  <2> QED  BY <1>0, <1>3, <2>1, <2>2 DEF Registered
<1>10. Single'
  BY <1>0, <1>1, <1>4, <1>5, SingleStep
<1>11. Draining'
  BY <1>0, <1>1 DEF Draining, Idle
<1>12. Flowing'
  <2>1. buffer # <<>> => active
    BY <1>1 DEF Flowing
  <2>2. finished' /\ buffer' = buffer /\ active' = active
    BY <1>0, <1>3
  <2> QED  BY <2>1, <2>2 DEF Flowing
<1>13. HandedInOrder'
  <2>1. worker # "ending"
    BY <1>0
  <2>2. Len(handed) + Len(buffer) = written /\ written \in Nat /\ Numbered(handed, buffer)
    BY <1>1, <1>3, <2>1 DEF HandedInOrder, Types
  <2>3. handed' = handed /\ buffer' = buffer /\ written' = written
    BY <1>0
  <2> QED  BY <2>2, <2>3 DEF HandedInOrder
<1>14. SeenInOrder'
  BY <1>0, <1>1, <1>4, <1>5, SeenStep
<1> QED  BY <1>7, <1>8, <1>9, <1>10, <1>11, <1>12, <1>13, <1>14 DEF IInv

LEMMA EndedStep ==
  ASSUME IInv, Ended
  PROVE  IInv' /\ open
<1>0. /\ worker = "ending" /\ OffQueue
      /\ completions' = {} /\ open' = FALSE /\ told' = notify /\ worker' = Idle
      /\ grpc' = grpc /\ issued' = issued
      /\ notify' = notify /\ cancelled' = cancelled /\ buffer' = buffer /\ active' = active
      /\ finished' = finished /\ passing' = passing /\ inbox' = inbox
      /\ restricted' = restricted /\ dead' = dead /\ written' = written /\ handed' = handed
      /\ received' = received /\ seen' = seen /\ finishes' = finishes
  BY DEF Ended, writerVars
<1>1. /\ Types /\ Unique /\ Registered /\ Single /\ Draining /\ Flowing
      /\ HandedInOrder /\ SeenInOrder
  BY DEF IInv
<1>2. grpc = {} /\ \A kind \in Kinds : Live(kind) = {}
  BY <1>0, Drained
<1>3. Works(0, {})
  BY <1>0, <1>1, WorksOnNothing
<1>4. ~Of({}, "Read") /\ ~Of({}, "Write") /\ ~Of({}, "Finish") /\ 0 \notin Live("Write")
  <2>1. ~Of({}, "Read") /\ ~Of({}, "Write") /\ ~Of({}, "Finish")
    BY DEF Of
  <2> QED  BY <1>1, <2>1, ZeroNotLive
<1>5. Types'
  BY <1>0, <1>1 DEF Types
<1>6. Unique'
  BY <1>1, <1>3, UniqueStep
<1>7. Registered'
  <2>1. ASSUME NEW kind \in Kinds, NEW y \in Live(kind)'  PROVE FALSE
    <3>1. \E op \in {} : op.kind = kind /\ op.id = y
      BY <1>2, <1>3, LiveAfter
    <3> QED  BY <3>1
  <2> QED  BY <1>0, <1>2, <2>1 DEF Registered
<1>8. Single'
  BY <1>0, <1>1, <1>3, <1>4, SingleStep
<1>9. Draining'
  BY <1>0, <1>1 DEF Draining, Idle
<1>10. Flowing'
  <2>1. buffer' # <<>> => active'
    BY <1>0, <1>1 DEF Flowing
  <2> QED  BY <1>0, <1>1, <1>3, <1>4, <2>1, FlowingStep
<1>11. HandedInOrder'
  BY <1>0, <1>1 DEF HandedInOrder
<1>12. SeenInOrder'
  BY <1>0, <1>1, <1>3, <1>4, SeenStep
<1>13. open
  BY <1>0, <1>1 DEF Registered, Idle
<1> QED  BY <1>5, <1>6, <1>7, <1>8, <1>9, <1>10, <1>11, <1>12, <1>13 DEF IInv

-----------------------------------------------------------------------------
(* gRPC, the polling thread and the app.                                     *)

(* The worker does nothing; what is back moves, or is lost.                  *)
Quiet ==
  /\ Kept(0)
  /\ inbox' \in Seq(Reply) /\ passing' \in Seq(Reply) /\ dead' \in BOOLEAN
  /\ UNCHANGED <<open, worker, notify, completions, cancelled, issued, writerVars, finished,
                 grpc, restricted, countVars, finishes>>

LEMMA QuietStep ==
  ASSUME IInv, Quiet
  PROVE  IInv'
<1>0. /\ Kept(0) /\ inbox' \in Seq(Reply) /\ passing' \in Seq(Reply) /\ dead' \in BOOLEAN
      /\ open' = open /\ worker' = worker /\ notify' = notify /\ completions' = completions
      /\ cancelled' = cancelled /\ issued' = issued /\ buffer' = buffer /\ active' = active
      /\ finished' = finished /\ grpc' = grpc /\ restricted' = restricted
      /\ written' = written /\ handed' = handed /\ received' = received
      /\ seen' = seen /\ told' = told /\ finishes' = finishes
  BY DEF Quiet, writerVars, countVars
<1>1. /\ Types /\ Unique /\ Registered /\ Single /\ Draining /\ Flowing
      /\ HandedInOrder /\ SeenInOrder
  BY DEF IInv
<1>2. Works(0, {})
  <2>1. \A op \in grpc : op.id # 0
    BY <1>1 DEF Types
  <2> QED  BY <1>0, <2>1 DEF Works
<1>3. ~Of({}, "Read") /\ ~Of({}, "Write") /\ ~Of({}, "Finish") /\ 0 \notin Live("Write")
  <2>1. ~Of({}, "Read") /\ ~Of({}, "Write") /\ ~Of({}, "Finish")
    BY DEF Of
  <2> QED  BY <1>1, <2>1, ZeroNotLive
<1>4. Types'
  BY <1>0, <1>1 DEF Types
<1>5. Unique'
  BY <1>1, <1>2, UniqueStep
<1>6. Registered'
  <2>1. /\ \A y \in completions : y # 0 => y \in completions'
        /\ \A op \in {} : op.id \in completions'
        /\ completions' # {} => open'
        /\ worker' # Idle => open'
    BY <1>0, <1>1 DEF Registered
  <2> QED  BY <1>1, <1>2, <2>1, RegisteredStep
<1>7. Single'
  BY <1>0, <1>1, <1>2, <1>3, SingleStep
<1>8. Draining'
  BY <1>0, <1>1 DEF Draining
<1>9. Flowing'
  <2>1. buffer' # <<>> => active'
    BY <1>0, <1>1 DEF Flowing
  <2> QED  BY <1>0, <1>1, <1>2, <1>3, <2>1, FlowingStep
<1>10. HandedInOrder'
  BY <1>0, <1>1 DEF HandedInOrder
<1>11. SeenInOrder'
  BY <1>0, <1>1, <1>2, <1>3, SeenStep
<1> QED  BY <1>4, <1>5, <1>6, <1>7, <1>8, <1>9, <1>10, <1>11 DEF IInv

LEMMA EnqueueStep ==
  ASSUME IInv, Enqueue
  PROVE  IInv'
<1>1. /\ passing' = <<>> /\ inbox' = IF restricted THEN inbox ELSE inbox \o passing
      /\ dead' = dead
      /\ UNCHANGED <<open, worker, notify, completions, cancelled, issued, writerVars, finished,
                     grpc, restricted, countVars, finishes>>
  BY DEF Enqueue
<1>2. Kept(0)
  BY <1>1, BackEnqueued DEF IInv
<1>3. inbox' \in Seq(Reply) /\ passing' \in Seq(Reply) /\ dead' \in BOOLEAN
  <2>1. inbox \in Seq(Reply) /\ passing \in Seq(Reply) /\ dead \in BOOLEAN
    BY DEF IInv, Types
  <2>2. inbox \o passing \in Seq(Reply) /\ <<>> \in Seq(Reply)
    BY <2>1, ConcatProperties
  <2> QED  BY <1>1, <2>1, <2>2
<1> QED  BY <1>1, <1>2, <1>3, QuietStep DEF Quiet

LEMMA CallFailsStep ==
  ASSUME IInv, CallFails
  PROVE  IInv'
<1>1. /\ inbox' = inbox /\ passing' = passing /\ dead' = TRUE
      /\ UNCHANGED <<open, worker, notify, completions, cancelled, issued, writerVars, finished,
                     grpc, restricted, countVars, finishes>>
  BY DEF CallFails
<1>2. Kept(0)
  BY <1>1, BackUnchanged DEF IInv
<1>3. inbox' \in Seq(Reply) /\ passing' \in Seq(Reply) /\ dead' \in BOOLEAN
  BY <1>1 DEF IInv, Types
<1> QED  BY <1>1, <1>2, <1>3, QuietStep DEF Quiet

LEMMA RestrictedStep ==
  ASSUME IInv, EnterRestrictedMode
  PROVE  IInv'
<1>0. /\ restricted' = TRUE
      /\ open' = open /\ worker' = worker /\ notify' = notify /\ completions' = completions
      /\ cancelled' = cancelled /\ issued' = issued /\ buffer' = buffer /\ active' = active
      /\ finished' = finished /\ grpc' = grpc /\ inbox' = inbox /\ passing' = passing
      /\ dead' = dead /\ written' = written /\ handed' = handed /\ received' = received
      /\ seen' = seen /\ told' = told /\ finishes' = finishes
  BY DEF EnterRestrictedMode, writerVars, countVars
<1>1. /\ Types /\ Unique /\ Registered /\ Single /\ Draining /\ Flowing
      /\ HandedInOrder /\ SeenInOrder
  BY DEF IInv
<1>2. Back' = Back
  BY <1>0 DEF Back
<1>3. \A kind : Pending(kind)' = Pending(kind) /\ Live(kind)' = Live(kind)
  BY <1>0, <1>2 DEF Live, Pending
<1>4. Types'
  BY <1>0, <1>1 DEF Types
<1>5. Unique' /\ Registered' /\ Single'
  BY <1>0, <1>1, <1>2, <1>3 DEF Unique, Registered, Single
<1>6. Draining'
  BY <1>0, <1>1 DEF Draining
<1>7. Flowing'
  BY <1>0, <1>1 DEF Flowing
<1>8. HandedInOrder'
  BY <1>0, <1>1 DEF HandedInOrder
<1>9. SeenInOrder'
  BY <1>0, <1>1, <1>2, <1>3 DEF SeenInOrder
<1> QED  BY <1>4, <1>5, <1>6, <1>7, <1>8, <1>9 DEF IInv

(* An operation comes off gRPC's queue as the reply r.                       *)
ComesOff(op, r) ==
  /\ r \in Reply /\ r.op.id = op.id /\ r.op.kind = op.kind
  /\ passing = <<>> /\ passing' = <<r>> /\ grpc' = grpc \ {op}
  /\ received' \in 0 .. MaxReads
  /\ IF op.kind = "Read" /\ r.ok
     THEN received' = received + 1 /\ r.op.msg = received'
     ELSE received' = received
  /\ UNCHANGED <<open, worker, notify, completions, cancelled, issued, writerVars, finished,
                 inbox, restricted, dead, written, handed, seen, told, finishes>>

LEMMA ComesOffStep ==
  ASSUME IInv, NEW op \in grpc, NEW r, ComesOff(op, r)
  PROVE  IInv'
<1>0. /\ r \in Reply /\ r.op.id = op.id /\ r.op.kind = op.kind
      /\ passing = <<>> /\ passing' = <<r>> /\ grpc' = grpc \ {op}
      /\ open' = open /\ worker' = worker /\ notify' = notify /\ completions' = completions
      /\ cancelled' = cancelled /\ issued' = issued /\ buffer' = buffer /\ active' = active
      /\ finished' = finished /\ inbox' = inbox /\ restricted' = restricted
      /\ dead' = dead /\ written' = written /\ handed' = handed
      /\ seen' = seen /\ told' = told /\ finishes' = finishes
  BY DEF ComesOff, writerVars
<1>1. /\ Types /\ Unique /\ Registered /\ Single /\ Draining /\ Flowing
      /\ HandedInOrder /\ SeenInOrder
  BY DEF IInv
<1>2. PICK n \in Nat :
           /\ DOMAIN Back = 1 .. n
           /\ DOMAIN Back' = 1 .. n + 1
           /\ \A i \in 1 .. n : Back'[i] = Back[i]
           /\ Back'[n + 1] = r
  BY <1>0, <1>1, BackJoined
<1>3. ASSUME NEW i \in DOMAIN Back'
      PROVE  (i \in DOMAIN Back /\ Back'[i] = Back[i]) \/ (i = n + 1 /\ Back'[i] = r)
  <2>1. i \in 1 .. n \/ i = n + 1
    BY <1>2
  <2> QED  BY <1>2, <2>1
<1>4. \A i \in DOMAIN Back : i \in DOMAIN Back' /\ Back'[i] = Back[i]
  <2>1. \A i \in 1 .. n : i \in 1 .. n + 1
    BY <1>2
  <2> QED  BY <1>2, <2>1
<1>5. n + 1 \in DOMAIN Back' /\ Back'[n + 1] = r
  BY <1>2
<1>6. \A p \in grpc : p \in grpc' \/ p = op
  BY <1>0
<1>7. \A i \in DOMAIN Back : Back[i].op.id # op.id
  BY <1>1 DEF Unique
<1>8. ASSUME NEW kind
      PROVE  /\ \A y \in Live(kind)' : y \in Live(kind)
             /\ \A y \in Live(kind) : y \notin cancelled => y \in Live(kind)'
  <2>1. ASSUME NEW y \in Live(kind)'  PROVE y \in Live(kind)
    <3>1. CASE \E p \in grpc' : p.kind = kind /\ p.id = y
      BY <1>0, <3>1, LiveMembers
    <3>2. CASE \E i \in DOMAIN Back' : /\ Back'[i].op.kind = kind /\ Back'[i].op.id = y
                                       /\ y \notin cancelled'
      <4>1. PICK i \in DOMAIN Back' : /\ Back'[i].op.kind = kind /\ Back'[i].op.id = y
                                      /\ y \notin cancelled'
        BY <3>2
      <4>2. CASE i \in DOMAIN Back /\ Back'[i] = Back[i]
        BY <1>0, <4>1, <4>2, LiveMembers
      <4>3. CASE Back'[i] = r
        BY <1>0, <4>1, <4>3, LiveMembers
      <4> QED  BY <1>3, <4>2, <4>3
    <3> QED  BY <2>1, <3>1, <3>2, LiveMembers
  <2>2. ASSUME NEW y \in Live(kind), y \notin cancelled  PROVE y \in Live(kind)'
    <3>1. CASE \E p \in grpc : p.kind = kind /\ p.id = y
      BY <1>0, <1>5, <1>6, <2>2, <3>1, LiveMembers
    <3>2. CASE \E i \in DOMAIN Back : Back[i].op.kind = kind /\ Back[i].op.id = y
      BY <1>0, <1>4, <2>2, <3>2, LiveMembers
    <3> QED  BY <2>2, <3>1, <3>2, LiveMembers
  <2> QED  BY <2>1, <2>2
<1>9. Types'
  <2>1. passing' \in Seq(Reply)
    BY <1>0
  <2>2. received' \in 0 .. MaxReads
    BY DEF ComesOff
  <2> QED  BY <1>0, <1>1, <2>1, <2>2 DEF Types
<1>10. Unique'
  <2>1. \A p, q \in grpc' : p.id = q.id => p = q
    BY <1>0, <1>1 DEF Unique
  <2>2. op.id \in 1 .. issued /\ \A p \in grpc' : p.id # op.id
    BY <1>0, <1>1 DEF Types, Unique
  <2>3. ASSUME NEW i \in DOMAIN Back'
        PROVE  Back'[i].op.id \in 1 .. issued' /\ \A p \in grpc' : p.id # Back'[i].op.id
    <3>1. CASE i \in DOMAIN Back /\ Back'[i] = Back[i]
      <4>1. Back[i].op.id \in 1 .. issued /\ \A p \in grpc : p.id # Back[i].op.id
        BY <1>1, <3>1 DEF Unique
      <4> QED  BY <1>0, <3>1, <4>1
    <3>2. CASE Back'[i] = r
      BY <1>0, <2>2, <3>2
    <3> QED  BY <1>3, <3>1, <3>2
  <2>4. ASSUME NEW i \in DOMAIN Back', NEW j \in DOMAIN Back', Back'[i].op.id = Back'[j].op.id
        PROVE  i = j
    <3>1. CASE i \in DOMAIN Back /\ Back'[i] = Back[i]
      BY <1>0, <1>1, <1>3, <1>7, <2>4, <3>1 DEF Unique
    <3>2. CASE i = n + 1 /\ Back'[i] = r
      BY <1>0, <1>3, <1>7, <2>4, <3>2
    <3> QED  BY <1>3, <3>1, <3>2
  <2> QED  BY <2>1, <2>3, <2>4 DEF Unique
<1>11. Registered'
  <2>1. \A p \in grpc' : p.id \in completions'
    BY <1>0, <1>1 DEF Registered
  <2>2. \A kind \in Kinds : Live(kind)' \subseteq completions'
    BY <1>0, <1>1, <1>8 DEF Registered
  <2>3. (completions' # {} => open') /\ (worker' # Idle => open')
    BY <1>0, <1>1 DEF Registered
  <2> QED  BY <2>1, <2>2, <2>3 DEF Registered
<1>12. Single'
  BY <1>0, <1>1, <1>8 DEF Single
<1>13. Draining'
  BY <1>0, <1>1 DEF Draining
<1>14. Flowing'
  BY <1>0, <1>1, <1>8 DEF Flowing
<1>15. HandedInOrder'
  BY <1>0, <1>1 DEF HandedInOrder
<1>16. SeenInOrder'
  <2>1. /\ Numbered(seen, <<>>) /\ Len(seen) <= received /\ Len(seen) \in Nat /\ received \in Nat
        /\ seen' = seen
    BY <1>0, <1>1, LenProperties DEF SeenInOrder, Types, Numbered
  <2>2. CASE op.kind = "Read" /\ r.ok
    <3>1. received' = received + 1 /\ r.op.msg = received'
      BY <2>2 DEF ComesOff
    <3>2. op \in Pending("Read") /\ op.id \in Live("Read")
      BY <2>2, LiveMembers DEF Pending
    <3>3. received = Len(seen)
      BY <1>1, <3>2 DEF SeenInOrder
    <3>4. Pending("Read")' = {}
      <4>1. ASSUME NEW p \in grpc', p.kind = "Read"  PROVE FALSE
        <5>1. p \in grpc /\ p # op /\ p.id \in Live("Read")
          BY <1>0, <4>1, LiveMembers
        <5> QED  BY <1>1, <3>2, <5>1 DEF Single, Unique
      <4> QED  BY <4>1 DEF Pending
    <3>5. ASSUME NEW i \in DOMAIN Back', Back'[i].op.kind = "Read", Back'[i].ok,
                 Back'[i].op.id \notin cancelled'
          PROVE  Back'[i].op.msg = received' /\ received' = Len(seen') + 1
      <4>1. CASE i \in DOMAIN Back /\ Back'[i] = Back[i]
        <5>1. Back[i].op.id \in Live("Read")
          BY <1>0, <3>5, <4>1, LiveMembers
        <5> QED  BY <1>1, <1>7, <3>2, <4>1, <5>1 DEF Single
      <4>2. CASE Back'[i] = r
        BY <2>1, <3>1, <3>3, <4>2
      <4> QED  BY <1>3, <4>1, <4>2
    <3>6. Len(seen') <= received'
      BY <2>1, <3>1
    <3> QED  BY <2>1, <3>4, <3>5, <3>6 DEF SeenInOrder
  <2>3. CASE ~(op.kind = "Read" /\ r.ok)
    <3>1. received' = received
      BY <2>3 DEF ComesOff
    <3>2. Pending("Read")' # {} => Pending("Read") # {}
      BY <1>0 DEF Pending
    <3>3. ASSUME NEW i \in DOMAIN Back', Back'[i].op.kind = "Read", Back'[i].ok,
                 Back'[i].op.id \notin cancelled'
          PROVE  Back'[i].op.msg = received' /\ received' = Len(seen') + 1
      <4>1. i \in DOMAIN Back /\ Back'[i] = Back[i]
        BY <1>0, <1>3, <2>3, <3>3
      <4> QED  BY <1>0, <1>1, <3>1, <3>3, <4>1 DEF SeenInOrder
    <3> QED  BY <1>1, <2>1, <3>1, <3>2, <3>3 DEF SeenInOrder
  <2> QED  BY <2>2, <2>3
<1> QED  BY <1>9, <1>10, <1>11, <1>12, <1>13, <1>14, <1>15, <1>16 DEF IInv

LEMMA ComesBackStep ==
  ASSUME IInv, NEW op \in grpc, ComesBack(op)
  PROVE  /\ IInv'
         /\ received' = received \/ received' = received + 1
         /\ UNCHANGED <<written, handed, seen, open, told>>
<1>1. op \in Op /\ op.id \in Nat /\ received \in 0 .. MaxReads /\ MaxReads \in Nat
  BY GrpcAssumption DEF IInv, Types, Op
<1>2. CASE ReadComes(op)
  <2> DEFINE r == [op |-> [op EXCEPT !.msg = received + 1], ok |-> TRUE]
  <2>1. op.kind = "Read" /\ received < MaxReads /\ received' = received + 1
    BY <1>2 DEF ReadComes
  <2>2. received' \in 0 .. MaxReads /\ received + 1 \in Nat
    BY <1>1, <2>1
  <2>3. r \in Reply /\ r.op.id = op.id /\ r.op.kind = op.kind /\ r.op.msg = received'
    BY <1>1, <2>1, <2>2 DEF Reply, Op
  <2>4. ComesOff(op, r)
    BY <1>2, <2>1, <2>2, <2>3 DEF ReadComes, Complete, ComesOff
  <2> QED  BY <2>1, <2>4, ComesOffStep DEF ComesOff
<1>3. CASE WriteComes(op) \/ StatusComes(op) \/ OperationFails(op)
  <2>1. PICK ok \in BOOLEAN : /\ Complete(op, op, ok) /\ received' = received
                              /\ ~(op.kind = "Read" /\ ok)
    BY <1>3 DEF WriteComes, StatusComes, OperationFails
  <2> DEFINE r == [op |-> op, ok |-> ok]
  <2>2. r \in Reply /\ r.op.id = op.id /\ r.op.kind = op.kind /\ ~(op.kind = "Read" /\ r.ok)
    BY <1>1, <2>1 DEF Reply
  <2>3. ComesOff(op, r)
    BY <1>1, <2>1, <2>2 DEF Complete, ComesOff
  <2> QED  BY <2>1, <2>3, ComesOffStep DEF ComesOff
<1> QED  BY <1>2, <1>3 DEF ComesBack

-----------------------------------------------------------------------------
(* The invariant holds.                                                      *)

LEMMA InitInv ==
  ASSUME Init
  PROVE  IInv
<1> DEFINE read == [id |-> 1, kind |-> "Read", msg |-> 0]
<1>0. /\ open = TRUE /\ worker = Idle /\ notify = FALSE
      /\ grpc = {read}
      /\ issued = 1 /\ completions = {1} /\ cancelled = {}
      /\ buffer = <<>> /\ active = FALSE /\ finished = FALSE
      /\ passing = <<>> /\ inbox = <<>> /\ restricted = FALSE /\ dead = FALSE
      /\ written = 0 /\ handed = <<>> /\ received = 0 /\ seen = <<>>
      /\ told = FALSE /\ finishes = 0
  BY DEF Init
<1>1. Types
  <2>1. MaxWrites \in Nat /\ MaxReads \in Nat
    BY GrpcAssumption
  <2>2. written \in 0 .. MaxWrites /\ received \in 0 .. MaxReads
    BY <1>0, <2>1
  <2>3. "Read" \in Kinds
    BY DEF Kinds
  <2>4. 1 \in 1 .. issued /\ issued \in Nat /\ 0 \in Nat
    BY <1>0
  <2>5. grpc \subseteq [id : 1 .. issued, kind : Kinds, msg : Nat]
    BY <1>0, <2>3, <2>4
  <2>6. inbox \in Seq(Reply) /\ passing \in Seq(Reply)
    BY <1>0
  <2>7. completions \subseteq 1 .. issued /\ cancelled \subseteq 1 .. issued
    BY <1>0, <2>4
  <2> QED  BY <1>0, <2>2, <2>4, <2>5, <2>6, <2>7 DEF Types
<1>2. DOMAIN Back = {}
  <2>1. Back = <<>>
    BY <1>0 DEF Back
  <2> QED  BY <2>1
<1>3. \A kind, x : x \in Live(kind) => kind = "Read" /\ x = 1
  BY <1>0, <1>2, LiveMembers
<1>4. Unique
  BY <1>0, <1>2 DEF Unique
<1>5. Registered
  BY <1>0, <1>3 DEF Registered
<1>6. Single
  <2>1. Live("Write") = {} /\ Live("Finish") = {}
    BY <1>3
  <2> QED  BY <1>3, <2>1 DEF Single
<1>7. Draining
  BY <1>0 DEF Draining, Idle
<1>8. Flowing
  BY <1>0 DEF Flowing
<1>9. Numbered(<<>>, <<>>) /\ Len(<<>>) = 0
  BY DEF Numbered
<1>10. HandedInOrder
  BY <1>0, <1>9 DEF HandedInOrder
<1>11. SeenInOrder
  BY <1>0, <1>2, <1>9 DEF SeenInOrder
<1> QED  BY <1>1, <1>4, <1>5, <1>6, <1>7, <1>8, <1>10, <1>11 DEF IInv

LEMMA WriteWrites ==
  ASSUME Write
  PROVE  Writes
BY DEF Write, Writes

LEMMA WriteAndFinishWrites ==
  ASSUME IInv, WriteAndFinish
  PROVE  Writes \/ LastMessageLeft
<1>0. /\ worker = Idle /\ open /\ written < MaxWrites /\ written' = written + 1
      /\ UNCHANGED <<open, passing, inbox, restricted, received, seen, told>>
  BY DEF WriteAndFinish
<1>1. active \in BOOLEAN
  BY DEF IInv, Types
<1>2. CASE ~finished /\ ~active
  <2>1. /\ TryStartWrite(Append(buffer, written + 1), FALSE, completions)
        /\ worker' = "last write"
        /\ UNCHANGED <<notify, cancelled, finished, dead, finishes>>
    BY <1>2 DEF WriteAndFinish
  <2>2. active = FALSE
    BY <1>1, <1>2
  <2> QED  BY <1>0, <2>1, <2>2 DEF Writes
<1>3. CASE ~(~finished /\ ~active)
  <2>1. /\ Shutdown(completions, FALSE)
        /\ buffer' = IF finished THEN buffer ELSE Append(buffer, written + 1)
        /\ NoIssue
        /\ UNCHANGED <<completions, active, handed>>
    BY <1>3 DEF WriteAndFinish
  <2> QED  BY <1>0, <1>3, <2>1 DEF LastMessageLeft, NoIssue
<1> QED  BY <1>2, <1>3

LEMMA StopStops ==
  ASSUME IInv, Stop \/ ConnectivityChanges \/ LastWriteOver
  PROVE  Stops
<1>1. open
  BY DEF Stop, ConnectivityChanges, LastWriteOver, IInv, Registered, Idle
<1>2. worker \in {Idle, "last write"}
  BY DEF Stop, ConnectivityChanges, LastWriteOver
<1>3. \E t \in BOOLEAN : Shutdown(completions, t)
  BY DEF Stop, ConnectivityChanges, LastWriteOver
<1>4. UNCHANGED <<open, completions, issued, writerVars, grpc, passing, inbox, restricted, countVars>>
  BY DEF Stop, ConnectivityChanges, LastWriteOver
<1> QED  BY <1>1, <1>2, <1>3, <1>4 DEF Stops

LEMMA AsksStatus1 ==
  ASSUME StatusAsked \/ StopGoesOn
  PROVE  AsksStatus
BY DEF StatusAsked, StopGoesOn, AsksStatus, CancelAndWait

LEMMA NothingStep ==
  ASSUME IInv, UNCHANGED vars
  PROVE  IInv'
<1>1. /\ inbox' = inbox /\ passing' = passing /\ dead' = dead
      /\ UNCHANGED <<open, worker, notify, completions, cancelled, issued, writerVars, finished,
                     grpc, restricted, countVars, finishes>>
  BY DEF vars
<1>2. Kept(0)
  BY <1>1, BackUnchanged DEF IInv
<1>3. inbox' \in Seq(Reply) /\ passing' \in Seq(Reply) /\ dead' \in BOOLEAN
  BY <1>1 DEF IInv, Types
<1> QED  BY <1>1, <1>2, <1>3, QuietStep DEF Quiet

LEMMA NextInv ==
  ASSUME IInv, [Next]_vars
  PROVE  IInv'
<1>1. CASE Write
  BY <1>1, WriteWrites, WriteStep
<1>2. CASE WriteAndFinish
  BY <1>2, WriteAndFinishWrites, WriteStep, LastMessageStep
<1>3. CASE Stop \/ ConnectivityChanges \/ LastWriteOver
  BY <1>3, StopStops, StopStep
<1>4. CASE RunCancelled
  BY <1>4, CancelledStep
<1>5. CASE OnRead
  BY <1>5, OnReadStep
<1>6. CASE OnWrite
  BY <1>6, OnWriteStep
<1>7. CASE OnFinish \/ OnOperationFailed
  BY <1>7, OnFinishCloses, OnOperationFailedCloses, ClosesStep
<1>8. CASE StatusAsked \/ StopGoesOn
  BY <1>8, AsksStatus1, AsksStatusStep
<1>9. CASE Ended
  BY <1>9, EndedStep
<1>10. CASE \E op \in grpc : ComesBack(op)
  BY <1>10, ComesBackStep
<1>11. CASE Enqueue
  BY <1>11, EnqueueStep
<1>12. CASE CallFails
  BY <1>12, CallFailsStep
<1>13. CASE EnterRestrictedMode
  BY <1>13, RestrictedStep
<1>14. CASE UNCHANGED vars
  BY <1>14, NothingStep
<1> QED  BY <1>1, <1>2, <1>3, <1>4, <1>5, <1>6, <1>7, <1>8, <1>9, <1>10, <1>11, <1>12, <1>13,
            <1>14 DEF Next, WorkerGoesOn

(* Every state of the stream satisfies the inductive invariant: an operation *)
(* is in one place, is one of the stream's completions, and its message is   *)
(* the one that is due.                                                      *)
THEOREM StreamInvariant == Spec => []IInv
<1>1. Init => IInv
  BY InitInv
<1>2. IInv /\ [Next]_vars => IInv'
  BY NextInv
<1> QED  BY <1>1, <1>2, PTL DEF Spec

-----------------------------------------------------------------------------
(* What the invariant implies.                                               *)

LEMMA SeqOf ==
  ASSUME NEW s \in Seq(Nat), NEW T, \A i \in DOMAIN s : s[i] \in T
  PROVE  s \in Seq(T)
<1>1. s \in [1 .. Len(s) -> Nat] /\ Len(s) \in Nat
  BY LenProperties
<1>2. s \in [1 .. Len(s) -> T]
  BY <1>1
<1> QED  BY <1>1, <1>2, SeqDef

LEMMA InvTypeOK ==
  ASSUME IInv
  PROVE  TypeOK
<1>1. Types /\ Numbered(handed, buffer) /\ Numbered(seen, <<>>)
      /\ Len(handed) + Len(buffer) <= written /\ Len(seen) <= received
  BY DEF IInv, HandedInOrder, SeenInOrder
<1>2. /\ handed \in Seq(Nat) /\ buffer \in Seq(Nat) /\ seen \in Seq(Nat)
      /\ Len(handed) \in Nat /\ Len(buffer) \in Nat /\ Len(seen) \in Nat
      /\ DOMAIN handed = 1 .. Len(handed) /\ DOMAIN buffer = 1 .. Len(buffer)
      /\ DOMAIN seen = 1 .. Len(seen)
  BY <1>1, LenProperties DEF Numbered
<1>3. /\ written \in Nat /\ written <= MaxWrites /\ received \in Nat /\ received <= MaxReads
      /\ MaxWrites \in Nat /\ MaxReads \in Nat
  <2>1. written \in 0 .. MaxWrites /\ received \in 0 .. MaxReads
    BY <1>1 DEF Types
  <2>2. MaxWrites \in Nat /\ MaxReads \in Nat
    BY GrpcAssumption
  <2> QED  BY <2>1, <2>2
<1>4. handed \in Seq(1 .. MaxWrites)
  <2>1. \A i \in 1 .. Len(handed) : i \in 1 .. MaxWrites
    BY <1>1, <1>2, <1>3
  <2>2. \A i \in DOMAIN handed : handed[i] \in 1 .. MaxWrites
    BY <1>1, <1>2, <2>1 DEF Numbered
  <2> QED  BY <1>2, <2>2, SeqOf
<1>5. buffer \in Seq(1 .. MaxWrites)
  <2>1. \A i \in 1 .. Len(buffer) : Len(handed) + i \in 1 .. MaxWrites
    BY <1>1, <1>2, <1>3
  <2>2. \A i \in DOMAIN buffer : buffer[i] \in 1 .. MaxWrites
    BY <1>1, <1>2, <2>1 DEF Numbered
  <2> QED  BY <1>2, <2>2, SeqOf
<1>6. seen \in Seq(1 .. MaxReads)
  <2>1. \A i \in 1 .. Len(seen) : i \in 1 .. MaxReads
    BY <1>1, <1>2, <1>3
  <2>2. \A i \in DOMAIN seen : seen[i] \in 1 .. MaxReads
    BY <1>1, <1>2, <2>1 DEF Numbered
  <2> QED  BY <1>2, <2>2, SeqOf
<1>7. grpc \subseteq Op
  <2>1. \A i \in 1 .. issued : i \in Nat
    BY <1>1 DEF Types
  <2> QED  BY <1>1, <2>1 DEF Types, Op
<1>8. finishes \in Nat
  BY DEF IInv, Draining
<1> QED  BY <1>1, <1>4, <1>5, <1>6, <1>7, <1>8 DEF Types, TypeOK

LEMMA AtMostOne ==
  ASSUME NEW S, \A p, q \in S : p = q
  PROVE  Cardinality(S) <= 1
<1>1. CASE S = {}
  BY <1>1, FS_EmptySet
<1>2. CASE S # {}
  <2>1. PICK p \in S : TRUE
    BY <1>2
  <2>2. S = {p}
    BY <2>1
  <2>3. Cardinality(S) = 1
    BY <2>2, FS_Singleton
  <2> QED  BY <2>3
<1> QED  BY <1>1, <1>2

LEMMA PendingLive ==
  ASSUME NEW kind, NEW op \in Pending(kind)
  PROVE  op \in grpc /\ op.kind = kind /\ op.id \in Live(kind)
BY LiveMembers DEF Pending

LEMMA InvOneAtATime ==
  ASSUME IInv
  PROVE  OneAtATime
<1>1. Unique /\ Single /\ Draining /\ Flowing
  BY DEF IInv
<1>2. Cardinality(Pending("Read")) <= 1
  <2>1. \A p, q \in Pending("Read") : p = q
    BY <1>1, PendingLive DEF Single, Unique
  <2> QED  BY <2>1, AtMostOne
<1>3. Cardinality(Pending("Write")) <= 1
  <2>1. \A p, q \in Pending("Write") : p = q
    BY <1>1, PendingLive DEF Single, Unique
  <2> QED  BY <2>1, AtMostOne
<1>4. finishes <= 1
  BY <1>1 DEF Draining
<1>5. Pending("Finish") # {} => Pending("Read") = {}
  BY <1>1, PendingLive DEF Single
<1>6. ASSUME buffer # <<>>, ~finished, ~restricted
      PROVE  active /\ \E op \in Returning("Write") : op.id \notin cancelled
  <2>1. active
    BY <1>1, <1>6 DEF Flowing
  <2>2. PICK x \in Live("Write") : x \notin cancelled
    BY <1>1, <1>6, <2>1 DEF Flowing
  <2>3. CASE \E op \in grpc : op.kind = "Write" /\ op.id = x
    BY <2>1, <2>2, <2>3 DEF Returning, Pending
  <2>4. CASE \E i \in DOMAIN Back : Back[i].op.kind = "Write" /\ Back[i].op.id = x
    BY <2>1, <2>2, <2>4 DEF Returning
  <2> QED  BY <2>2, <2>3, <2>4, LiveMembers
<1> QED  BY <1>2, <1>3, <1>4, <1>5, <1>6, InvTypeOK DEF OneAtATime

LEMMA InvNothingDangles ==
  ASSUME IInv
  PROVE  NothingDangles
<1>1. Types /\ Registered
  BY DEF IInv
<1>2. ~open => grpc = {} /\ completions = {}
  BY <1>1 DEF Registered
<1>3. ASSUME NEW i \in DOMAIN Back, Back[i].op.id \notin cancelled
      PROVE  open /\ Back[i].op.id \in completions
  <2>1. Back[i].op.kind \in Kinds
    BY <1>1, BackIs DEF Op
  <2>2. Back[i].op.id \in Live(Back[i].op.kind)
    BY <1>3, LiveMembers
  <2> QED  BY <1>1, <2>1, <2>2 DEF Registered
<1> QED  BY <1>2, <1>3 DEF NothingDangles

(* gRPC's rules, which it enforces by aborting the process, are kept however *)
(* many messages pass: one read and one write at a time, one finish, no read *)
(* beside the question for the status; and no message is stuck in the buffer.*)
THEOREM GrpcRulesKept == Spec => []OneAtATime
<1>1. IInv => OneAtATime
  BY InvOneAtATime
<1> QED  BY <1>1, StreamInvariant, PTL

(* Nothing with gRPC and no callback that will run points to a stream that   *)
(* was destroyed, or to a completion the stream does not know.               *)
THEOREM NoDanglingStream == Spec => []NothingDangles
<1>1. IInv => NothingDangles
  BY InvNothingDangles
<1> QED  BY <1>1, StreamInvariant, PTL

-----------------------------------------------------------------------------
(* The stream implements Wire.                                               *)

LEMMA InitWire ==
  ASSUME Init
  PROVE  Promise!WireInit
BY DEF Init, Promise!WireInit

LEMMA NextWire ==
  ASSUME IInv, [Next]_vars
  PROVE  [Promise!WireNext]_(Promise!wireVars)
<1> DEFINE Still == UNCHANGED <<written, handed, received, seen, open, told>>
<1>1. ASSUME Writes  PROVE Promise!Write
  <2>1. /\ open /\ written' = written + 1
        /\ UNCHANGED <<received, seen, open, told>>
    BY <1>1 DEF Writes
  <2>2. \/ handed' = handed
        \/ Len(handed) = written /\ handed' = Append(handed, Len(handed) + 1)
    BY <1>1, WriteStep
  <2> QED  BY <2>1, <2>2 DEF Promise!Write, Promise!HandNext
<1>2. ASSUME LastMessageLeft  PROVE Promise!Write
  BY <1>2 DEF LastMessageLeft, Promise!Write
<1>3. ASSUME Stop \/ ConnectivityChanges \/ LastWriteOver  PROVE Still
  BY <1>3 DEF Stop, ConnectivityChanges, LastWriteOver, countVars
<1>4. ASSUME RunCancelled \/ OnFinish \/ OnOperationFailed  PROVE Still
  BY <1>4 DEF RunCancelled, OnFinish, OnOperationFailed, countVars
<1>5. ASSUME OnRead  PROVE Promise!See
  <2>1. open /\ Len(seen) < received /\ seen' = Append(seen, Len(seen) + 1)
    BY <1>5, OnReadStep
  <2>2. UNCHANGED <<written, handed, received, open, told>>
    BY <1>5 DEF OnRead
  <2> QED  BY <2>1, <2>2 DEF Promise!See
<1>6. ASSUME OnWrite  PROVE Promise!Hand \/ Still
  <2>1. /\ open
        /\ \/ handed' = handed
           \/ Len(handed) < written /\ handed' = Append(handed, Len(handed) + 1)
    BY <1>6, OnWriteStep
  <2>2. UNCHANGED <<written, received, seen, open, told>>
    BY <1>6 DEF OnWrite
  <2> QED  BY <2>1, <2>2 DEF Promise!Hand, Promise!HandNext
<1>7. ASSUME StatusAsked \/ StopGoesOn  PROVE Still
  BY <1>7 DEF StatusAsked, StopGoesOn, countVars
<1>8. ASSUME Ended  PROVE Promise!Close
  <2>1. open /\ notify \in BOOLEAN
    BY <1>8, EndedStep DEF IInv, Types
  <2>2. /\ open' = FALSE /\ told' = notify
        /\ UNCHANGED <<written, handed, received, seen>>
    BY <1>8 DEF Ended
  <2> QED  BY <2>1, <2>2 DEF Promise!Close
<1>9. ASSUME NEW op \in grpc, ComesBack(op)  PROVE Promise!Receive \/ Still
  <2>1. /\ received' = received \/ received' = received + 1
        /\ UNCHANGED <<written, handed, seen, open, told>>
    BY <1>9, ComesBackStep
  <2> QED  BY <2>1 DEF Promise!Receive
<1>10. ASSUME Enqueue \/ CallFails \/ EnterRestrictedMode \/ UNCHANGED vars  PROVE Still
  BY <1>10 DEF Enqueue, CallFails, EnterRestrictedMode, vars, countVars
<1>11. \/ Promise!Write \/ Promise!Hand \/ Promise!Receive \/ Promise!See \/ Promise!Close
       \/ Still
  <2> HIDE DEF Still
  <2>1. CASE Write \/ WriteAndFinish
    BY <2>1, WriteWrites, WriteAndFinishWrites, <1>1, <1>2
  <2>2. CASE WorkerGoesOn \/ Stop \/ ConnectivityChanges
    BY <2>2, <1>3, <1>4, <1>5, <1>6, <1>7, <1>8 DEF WorkerGoesOn
  <2>3. CASE \E op \in grpc : ComesBack(op)
    BY <2>3, <1>9
  <2>4. CASE Enqueue \/ CallFails \/ EnterRestrictedMode \/ UNCHANGED vars
    BY <2>4, <1>10
  <2> QED  BY <2>1, <2>2, <2>3, <2>4 DEF Next
<1> QED  BY <1>11 DEF Promise!WireNext, Promise!wireVars

(* The stream keeps the promise of Wire: every message is handed over, and   *)
(* every message seen, once and in its order, and none once it was closed.   *)
THEOREM StreamKeepsPromise == Spec => KeepsPromise
<1>1. Init => Promise!WireInit
  BY InitWire
<1>2. IInv /\ [Next]_vars => [Promise!WireNext]_(Promise!wireVars)
  BY NextWire
<1> QED  BY <1>1, <1>2, StreamInvariant, PTL DEF Spec, KeepsPromise, Promise!WireSpec
=============================================================================
