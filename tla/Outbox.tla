------------------------------- MODULE Outbox -------------------------------
(* What the Firestore client promises of the writes an app hands it: each    *)
(* user has a queue, a write stays in it, through crashes and lost           *)
(* connections, until the server has applied it or refused it, and the       *)
(* server applies the writes of a queue in their order.                      *)
EXTENDS Naturals, Sequences

CONSTANTS Users, Writes

VARIABLES
  pending,   \* [Users -> Seq(Writes)]: the writes not yet settled
  applied,   \* [Users -> SUBSET Writes]: those the server has applied at least once
  confirmed, \* [Users -> SUBSET Writes]: settled as applied
  refused    \* [Users -> SUBSET Writes]: settled as refused

outboxVars == <<pending, applied, confirmed, refused>>

OutboxInit ==
  /\ pending = [u \in Users |-> <<>>]
  /\ applied = [u \in Users |-> {}]
  /\ confirmed = [u \in Users |-> {}]
  /\ refused = [u \in Users |-> {}]

Known(w) == \E v \in Users : \/ \E i \in DOMAIN pending[v] : pending[v][i] = w
                             \/ w \in confirmed[v] \cup refused[v]

Submit(u, w) ==
  /\ ~Known(w)
  /\ pending' = [pending EXCEPT ![u] = Append(@, w)]
  /\ UNCHANGED <<applied, confirmed, refused>>

(* The server applies the i-th pending write once it has applied the ones    *)
(* before it.                                                                *)
Apply(u, i) ==
  /\ \A j \in 1..(i - 1) : pending[u][j] \in applied[u]
  /\ applied' = [applied EXCEPT ![u] = @ \cup {pending[u][i]}]
  /\ UNCHANGED <<pending, confirmed, refused>>

Confirm(u) ==
  /\ pending[u] # <<>>
  /\ Head(pending[u]) \in applied[u]
  /\ confirmed' = [confirmed EXCEPT ![u] = @ \cup {Head(pending[u])}]
  /\ pending' = [pending EXCEPT ![u] = Tail(@)]
  /\ UNCHANGED <<applied, refused>>

(* A write may be refused although an earlier sending of it was applied: its *)
(* answer was lost.                                                          *)
Refuse(u) ==
  /\ pending[u] # <<>>
  /\ refused' = [refused EXCEPT ![u] = @ \cup {Head(pending[u])}]
  /\ pending' = [pending EXCEPT ![u] = Tail(@)]
  /\ UNCHANGED <<applied, confirmed>>

OutboxNext ==
  \E u \in Users :
    \/ \E w \in Writes : Submit(u, w)
    \/ \E i \in DOMAIN pending[u] : Apply(u, i)
    \/ Confirm(u)
    \/ Refuse(u)

OutboxSpec == OutboxInit /\ [][OutboxNext]_outboxVars
=============================================================================
