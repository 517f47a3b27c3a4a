---------------------------- MODULE Notifications ----------------------------
(* The push notifications: HomeScreen saves each one that Firebase delivers  *)
(* (screens/home/home.dart, models/notification.dart) and the announcement   *)
(* screen lists, opens and removes them (screens/notification.dart).         *)
(*                                                                           *)
(* The stored list is one Dart object that everybody changes in place: the   *)
(* saving of a push, which awaits the write of the message id with the list  *)
(* already in hand, and the screen, whose rows keep the indices they had     *)
(* when they were drawn.                                                     *)
EXTENDS Integers, Sequences, SequencesExt, FiniteSets

CONSTANTS
  Ids,         \* message ids
  NoValue,     \* no id; nothing stored
  Titled,      \* whether a push has a title and a body: what may come
  MaxArrivals, \* bound: pushes delivered
  MaxSaves     \* bound: writes pending when a row is touched

ASSUME NotificationsAssumption ==
  /\ NoValue \notin Ids
  /\ MaxArrivals \in Nat
  /\ MaxSaves \in Nat
  /\ Titled \subseteq BOOLEAN

VARIABLES
  heap,     \* the list objects made so far
  bound,    \* the object the key 'notifications' is bound to, 0 for none
  lastId,   \* 'message-id'
  file, fileWrites, fileLost,  \* the file behind LocalStorage('fstore')
  saving,   \* saving[n]: the push n between the two writes of saveToLocal
  data,     \* _NotificationScreenState._data: a list object, 0 for null
  rows,     \* the rows on display, by index
  arrived,  \* history: ids of the pushes accepted so far, and how many came
  removed,  \* history: pushes taken off the list
  swiped,   \* history: pushes whose rows were swiped away
  upsets    \* history: what went wrong so far

listVars   == <<heap, bound, lastId>>
fileVars   == <<file, fileWrites, fileLost>>
screenVars == <<data, rows>>
histVars   == <<removed, swiped, upsets>>
vars == <<listVars, fileVars, saving, screenVars, arrived, histVars>>

Closed == -1  \* data when the screen is not open

ListAt(o) == IF o \in DOMAIN heap THEN heap[o] ELSE <<>>

(* What the storage holds in memory: the key is bound to a live object, the  *)
(* file gets the list as it is when a write is asked for.                    *)
Mem == [k \in {"notifications", "message-id"} |->
          CASE k = "message-id" -> lastId
            [] k = "notifications" -> IF bound = 0 THEN NoValue ELSE heap[bound]]

FS == INSTANCE Store WITH
        Keys <- {"notifications", "message-id"}, Nothing <- NoValue,
        mem <- Mem, disk <- file, writes <- fileWrites, lost <- fileLost

Entries == [n : Nat, id : Ids \cup {NoValue}, titled : BOOLEAN, shown : BOOLEAN]
ASSUME NoValueIsNoList == NoValue \notin Seq(Entries)

(* The tasks that await a write: saveToLocal of a push, and the screen's      *)
(* two; what they become when the screen is left.                            *)
Saves(n) == <<"save", n>>
Opens    == <<"open", 0>>
Removes  == <<"remove", 0>>
Gone     == <<"gone", 0>>

Idle == [pc |-> "no", list |-> 0, titled |-> FALSE]

-----------------------------------------------------------------------------
MutPush(id, titled) ==
  LET n == Len(arrived.ids) + 1 IN
  /\ arrived.count < MaxArrivals
  /\ id = NoValue \/ lastId # id
  /\ saving' = Append(saving, [pc |-> "id", list |-> bound, titled |-> titled])
  /\ arrived' = [ids |-> Append(arrived.ids, id), count |-> arrived.count + 1]
  /\ UNCHANGED listVars
  /\ FS!SetItem("message-id", lastId, Saves(n))
  /\ UNCHANGED <<screenVars, histVars>>

(* saveToLocal of a push with an id other than the last one, or with none:   *)
(* the list is taken, the id is set, and its write awaited.                  *)
Push(id, titled) ==
  LET n == Len(arrived.ids) + 1 IN
  /\ arrived.count < MaxArrivals
  /\ id = NoValue \/ lastId # id
  /\ saving' = Append(saving, [pc |-> "id", list |-> bound, titled |-> titled])
  /\ arrived' = [ids |-> Append(arrived.ids, id), count |-> arrived.count + 1]
  /\ lastId' = id
  /\ UNCHANGED <<heap, bound>>
  /\ FS!SetItem("message-id", id, Saves(n))
  /\ UNCHANGED <<screenVars, histVars>>

(* A push that comes again is dropped. *)
Repeat(id) ==
  /\ arrived.count < MaxArrivals
  /\ lastId = id
  /\ arrived' = [arrived EXCEPT !.count = @ + 1]
  /\ UNCHANGED <<listVars, fileVars, saving, screenVars, histVars>>

(* Mutant: the newest entry is replaced.                                     *)
MutReplaced(list, e) == <<e>> \o (IF list = <<>> THEN <<>> ELSE Tail(list))

(* Mutant: a push is put last.                                               *)
MutInserted(list, e) == Append(list, e)

Inserted(list, e) == <<e>> \o list

(* The list a push goes into: the one it took or, if there was none, a new   *)
(* one that replaces whatever has been stored meanwhile.                     *)
ListFor(n) == IF saving[n].list = 0 THEN Len(heap) + 1 ELSE saving[n].list

(* saveToLocal after the id is written: the push becomes the first entry.    *)
IdWritten(n) ==
  LET o    == ListFor(n)
      e    == [n |-> n, id |-> arrived.ids[n], titled |-> saving[n].titled, shown |-> TRUE]
      list == Inserted(ListAt(o), e) IN
  /\ saving[n].pc = "id"
  /\ heap' = IF o > Len(heap) THEN Append(heap, list) ELSE [heap EXCEPT ![o] = list]
  /\ bound' = o
  /\ UNCHANGED lastId
  /\ FS!WrittenThenSet(Saves(n), "notifications", list)
  /\ saving' = [saving EXCEPT ![n] = Idle]
  /\ upsets' = upsets \cup {u \in {"two lists"} : bound \notin {0, o}}
                      \cup {u \in {"moved rows"} : data # Closed}
  /\ UNCHANGED <<screenVars, arrived, removed, swiped>>

(* The write of the id fails and the push is never listed. *)
IdFails(n) ==
  /\ saving[n].pc = "id"
  /\ UNCHANGED listVars
  /\ FS!WriteFails(Saves(n))
  /\ saving' = [saving EXCEPT ![n] = Idle]
  /\ upsets' = upsets \cup {"failure"}
  /\ UNCHANGED <<screenVars, arrived, removed, swiped>>

-----------------------------------------------------------------------------
(* The announcement screen.  It is drawn from the live list when it opens    *)
(* and when one of its own writes has ended; any other rebuild does it too.  *)

Open ==
  /\ data = Closed
  /\ data' = bound
  /\ rows' = ListAt(bound)
  /\ UNCHANGED <<listVars, fileVars, saving, arrived, histVars>>

Rebuild ==
  /\ data # Closed
  /\ rows' = ListAt(data)
  /\ UNCHANGED <<listVars, fileVars, saving, data, arrived, histVars>>

(* The writes the screen awaits go on, but no longer redraw it. *)
Close ==
  /\ data # Closed
  /\ data' = Closed
  /\ rows' = <<>>
  /\ fileWrites' = [i \in DOMAIN fileWrites |->
       IF fileWrites[i].task \in {Opens, Removes} THEN [fileWrites[i] EXCEPT !.task = Gone]
       ELSE fileWrites[i]]
  /\ UNCHANGED <<listVars, file, fileLost, saving, arrived, histVars>>

(* fromLocalStorage keeps nothing of an entry without a title or a body, so  *)
(* opening it stores an empty one, which has no date and is not shown.       *)
Opened(e) == [e EXCEPT !.shown = @ /\ e.titled]

(* A row without a date is an empty Container.                               *)
Touchable(i) ==
  /\ data > 0
  /\ i \in DOMAIN rows /\ rows[i].shown
  /\ Len(fileWrites) < MaxSaves

(* A row is tapped: _showAlert decodes the entry its index has now and       *)
(* updateSeen stores it again.                                               *)
TapRow(i) ==
  /\ Touchable(i)
  /\ i \in DOMAIN heap[data] \cap DOMAIN heap[bound]
  /\ heap' = [heap EXCEPT ![bound][i] = Opened(heap[data][i])]
  /\ UNCHANGED <<bound, lastId>>
  /\ FS!SetItem("notifications", heap'[bound], Opens)
  /\ UNCHANGED <<saving, screenVars, arrived, histVars>>

(* The stored list is shorter than the one on display: updateSeen gives up,  *)
(* and the screen takes the stored one.                                      *)
TapGone(i) ==
  /\ Touchable(i)
  /\ i \in DOMAIN heap[data] \ DOMAIN heap[bound]
  /\ data' = bound
  /\ rows' = ListAt(bound)
  /\ UNCHANGED <<listVars, fileVars, saving, arrived, histVars>>

(* A removal is not written yet, so the screen was not drawn again for it.   *)
Overlapping == {u \in {"moved rows"} : FS!Awaiting(Removes)}

(* Mutant: the row below goes.                                               *)
MutRemoved(list, i) == RemoveAt(list, IF i = Len(list) THEN i ELSE i + 1)

Removed(list, i) == RemoveAt(list, i)

(* A row is swiped away: removeItem removes what its index has now.  The     *)
(* other rows keep their indices until the screen is drawn again.            *)
SwipeRow(i) ==
  LET list == heap[bound] IN
  /\ Touchable(i)
  /\ i \in DOMAIN list
  /\ heap' = [heap EXCEPT ![bound] = Removed(list, i)]
  /\ UNCHANGED <<bound, lastId>>
  /\ FS!SetItem("notifications", heap'[bound], Removes)
  /\ rows' = [k \in DOMAIN rows \ {i} |-> rows[k]]
  /\ removed' = removed \cup
                  ({list[k].n : k \in DOMAIN list}
                     \ {heap'[bound][k].n : k \in DOMAIN heap'[bound]})
  /\ swiped' = swiped \cup {rows[i].n}
  /\ upsets' = upsets \cup Overlapping
  /\ UNCHANGED <<saving, data, arrived>>

(* The list is shorter by now: removeAt throws, and the row only looks gone. *)
SwipeGone(i) ==
  /\ Touchable(i)
  /\ i \notin DOMAIN heap[bound]
  /\ rows' = [k \in DOMAIN rows \ {i} |-> rows[k]]
  /\ swiped' = swiped \cup {rows[i].n}
  /\ upsets' = upsets \cup Overlapping
  /\ UNCHANGED <<listVars, fileVars, saving, data, arrived, removed>>

(* The write of a row's action ends: the screen takes the stored list and is *)
(* drawn again, after a removal only if the write did not fail.  After a     *)
(* removal the code takes the list it had read at the swipe, which is the    *)
(* one bound now unless a second was bound meanwhile ("two lists").          *)
RowDone(t) ==
  /\ UNCHANGED listVars
  /\ FS!Written(t) \/ (t = Opens /\ FS!WriteFails(t))
  /\ data' = bound
  /\ rows' = ListAt(bound)
  /\ UNCHANGED <<saving, arrived, histVars>>

RemoveFails ==
  /\ UNCHANGED listVars
  /\ FS!WriteFails(Removes)
  /\ upsets' = upsets \cup {"failure", "moved rows"}
  /\ UNCHANGED <<saving, screenVars, arrived, removed, swiped>>

(* A write nobody waits for ends: of a push, or of a screen that was left.   *)
OtherDone ==
  /\ fileWrites # <<>>
  /\ UNCHANGED listVars
  /\ \E t \in {Gone} \cup {Saves(n) : n \in {k \in DOMAIN saving : saving[k].pc = "no"}} :
       FS!Written(t) \/ FS!WriteFails(t)
  /\ UNCHANGED <<saving, screenVars, arrived, histVars>>

(* The app is killed and started again. *)
Restart ==
  LET stored == file["notifications"] IN
  /\ heap' = IF stored = NoValue THEN <<>> ELSE <<stored>>
  /\ bound' = IF stored = NoValue THEN 0 ELSE 1
  /\ lastId' = file["message-id"]
  /\ FS!Reload
  /\ saving' = [n \in DOMAIN saving |-> Idle]
  /\ data' = Closed
  /\ rows' = <<>>
  /\ upsets' = upsets \cup {u \in {"crash"} : fileWrites # <<>> \/ fileLost}
  /\ UNCHANGED <<arrived, removed, swiped>>

Init ==
  /\ heap = <<>> /\ bound = 0 /\ lastId = NoValue
  /\ file = FS!Blank /\ fileWrites = <<>> /\ fileLost = FALSE
  /\ saving = <<>>
  /\ data = Closed /\ rows = <<>>
  /\ arrived = [ids |-> <<>>, count |-> 0]
  /\ removed = {} /\ swiped = {} /\ upsets = {}

Next ==
  \/ \E id \in Ids \cup {NoValue}, titled \in Titled : Push(id, titled)
  \/ \E id \in Ids : Repeat(id)
  \/ \E n \in DOMAIN saving : IdWritten(n) \/ IdFails(n)
  \/ Open \/ Rebuild \/ Close
  \/ \E i \in DOMAIN rows : TapRow(i) \/ TapGone(i) \/ SwipeRow(i) \/ SwipeGone(i)
  \/ \E t \in {Opens, Removes} : RowDone(t)
  \/ RemoveFails \/ OtherDone
  \/ Restart

Spec == Init /\ [][Next]_vars

-----------------------------------------------------------------------------
Listed == {ListAt(bound)[i].n : i \in DOMAIN ListAt(bound)}

TypeOK ==
  /\ heap \in Seq(Seq(Entries))
  /\ bound \in 0 .. Len(heap)
  /\ lastId \in Ids \cup {NoValue}
  /\ data \in Closed .. Len(heap)
  /\ \A i \in DOMAIN rows : rows[i] \in Entries
  /\ Len(saving) = Len(arrived.ids)
  /\ \A n \in DOMAIN saving : saving[n].pc = "id" => FS!Awaiting(Saves(n))

(* A push delivered again right after itself is listed once, although the    *)
(* test of the last id and the insertion are two steps with a file write     *)
(* between them: two entries of one id have another push between them.  The  *)
(* newest comes first, whatever writes failed, a restart lost or rows did    *)
(* that had moved (opening one stores the entry at its index again); only    *)
(* where the first two pushes overlapped may the screen hold one list and    *)
(* store into the other.                                                     *)
NewestFirst ==
  LET list == ListAt(bound) IN
  /\ TypeOK
  /\ \A i, j \in DOMAIN list :
       list[i].n < list[j].n /\ list[i].id = list[j].id /\ list[i].id # NoValue =>
         \E k \in list[i].n + 1 .. list[j].n - 1 : arrived.ids[k] # list[i].id
  /\ "two lists" \notin upsets =>
       \A i, j \in DOMAIN list : i < j => list[i].n > list[j].n

(* No push is lost: it is listed, being saved, or was removed, unless        *)
(* a write failed, the app was killed with writes pending, or the first two  *)
(* pushes ever overlapped and made two lists.  Opening a notification, which *)
(* decodes the entry and stores it again, keeps it on display, whatever row  *)
(* is tapped when: only one without a title or a body is blanked.            *)
PushesKept ==
  /\ upsets \cap {"failure", "crash", "two lists"} = {} =>
       \A n \in DOMAIN arrived.ids :
         \/ n \in Listed \/ n \in removed
         \/ saving[n].pc = "id"
  /\ \A i \in DOMAIN ListAt(bound) :
       ListAt(bound)[i].titled => ListAt(bound)[i].shown

(* The rows swiped away are the notifications removed, unless the list moved *)
(* under the rows: a push came while the screen was open, or a row was       *)
(* swiped before the removal of another was written.                         *)
RemovesTheSwiped ==
  upsets \cap {"moved rows", "two lists"} = {} => removed = swiped
=============================================================================
