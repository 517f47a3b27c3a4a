------------------------------ MODULE Bookmarks ------------------------------
(* What the wish list promises, whatever writes fail and whenever the app is *)
(* killed: an article is listed at most once, in the order of adding; and    *)
(* after a restart the list is one that was on display before, never a mix   *)
(* of two, or the empty list that a logout left in the file.                 *)
EXTENDS Integers, Sequences, SequencesExt

CONSTANT Articles

VARIABLES
  list,     \* the bookmarks on display
  versions  \* the lists a restart may bring back

Has(l, a) == \E i \in DOMAIN l : l[i] = a

Add(a) ==
  /\ ~Has(list, a)
  /\ list' = Append(list, a)
  /\ versions' = versions \cup {list'}

Discard(a) ==
  \E i \in DOMAIN list :
    /\ list[i] = a
    /\ list' = RemoveAt(list, i)
    /\ versions' = versions \cup {list'}

(* A logout forgets the stored list, not the one on display.                 *)
Forget ==
  /\ versions' = versions \cup {<<>>}
  /\ UNCHANGED list

(* Versions are settled or dropped, one always remains.                      *)
Settle ==
  /\ versions' \subseteq versions
  /\ versions' # {}
  /\ UNCHANGED list

Restart ==
  /\ list' \in versions
  /\ versions' = {list'}

BookmarksInit == list = <<>> /\ versions = {<<>>}

BookmarksNext ==
  \/ \E a \in Articles : Add(a) \/ Discard(a)
  \/ Forget
  \/ Settle
  \/ Restart

BookmarksSpec == BookmarksInit /\ [][BookmarksNext]_<<list, versions>>
=============================================================================
