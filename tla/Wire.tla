--------------------------------- MODULE Wire ---------------------------------
(* What a stream to the server promises its user: the messages written are   *)
(* handed to the network one after the other in the order of writing, the    *)
(* messages that come are seen in the order of their coming, none of them    *)
(* after the stream is closed; closing may lose what is under way.           *)
EXTENDS Naturals, Sequences

VARIABLES
  written,   \* how many messages the user wrote: 1, 2, ..., written
  handed,    \* those the network was given, in that order
  received,  \* how many messages have come: 1, 2, ..., received
  seen,      \* those the user has seen, in that order
  open,      \* the stream can be used
  told       \* it was closed by the network, and the user told so

wireVars == <<written, handed, received, seen, open, told>>

WireInit ==
  /\ written = 0 /\ handed = <<>>
  /\ received = 0 /\ seen = <<>>
  /\ open = TRUE /\ told = FALSE

HandNext == handed' = Append(handed, Len(handed) + 1)

Write ==
  /\ open
  /\ written' = written + 1
  /\ \/ UNCHANGED handed
     \/ Len(handed) = written /\ HandNext
  /\ UNCHANGED <<received, seen, open, told>>

Hand ==
  /\ open
  /\ Len(handed) < written
  /\ HandNext
  /\ UNCHANGED <<written, received, seen, open, told>>

Receive ==
  /\ received' = received + 1
  /\ UNCHANGED <<written, handed, seen, open, told>>

See ==
  /\ open
  /\ Len(seen) < received
  /\ seen' = Append(seen, Len(seen) + 1)
  /\ UNCHANGED <<written, handed, received, open, told>>

Close ==
  /\ open
  /\ open' = FALSE
  /\ told' \in BOOLEAN
  /\ UNCHANGED <<written, handed, received, seen>>

WireNext == Write \/ Hand \/ Receive \/ See \/ Close

WireSpec == WireInit /\ [][WireNext]_wireVars
===============================================================================
