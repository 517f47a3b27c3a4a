------------------------------- MODULE Store --------------------------------
(* A key-value store of the kind the app uses twice: the localstorage        *)
(* package's LocalStorage('fstore') and SharedPreferences.  Neither is under *)
(* src/; this is how the code uses them.  A value that is set is seen by the *)
(* next get at once; the file is written later, in the order of the calls,   *)
(* each write carrying the whole map as it was when it was asked for.  A     *)
(* write may fail, which the awaiting task sees as an exception, and the     *)
(* process may die with writes pending, which keeps what the file had.       *)
(* One write replaces the file as a whole.                                   *)
EXTENDS Integers, Sequences, SequencesExt

CONSTANTS Keys, Nothing  \* Nothing: getItem of a key that was never set

VARIABLES
  mem,     \* the map in memory
  disk,    \* the map in the file
  writes,  \* pending writes: [map, task], task the one awaiting it
  lost     \* history: the newest write failed, so the file lags behind

storeVars == <<mem, disk, writes, lost>>

Blank == [k \in Keys |-> Nothing]

StoreInit ==
  /\ mem = Blank
  /\ disk = Blank
  /\ writes = <<>>
  /\ lost = FALSE

(* setItem, and deleteItem with v = Nothing, called by the task t.           *)
SetItem(k, v, t) ==
  /\ mem' = [mem EXCEPT ![k] = v]
  /\ writes' = Append(writes, [map |-> [mem EXCEPT ![k] = v], task |-> t])
  /\ lost' = FALSE
  /\ UNCHANGED disk

Awaiting(t) == \E i \in DOMAIN writes : writes[i].task = t

(* The oldest write reaches the file and its task t goes on.                 *)
Written(t) ==
  /\ writes # <<>>
  /\ Head(writes).task = t
  /\ disk' = Head(writes).map
  /\ writes' = Tail(writes)
  /\ UNCHANGED <<mem, lost>>

(* The oldest write reaches the file and its task t sets another key.        *)
WrittenThenSet(t, k, v) ==
  /\ writes # <<>>
  /\ Head(writes).task = t
  /\ disk' = Head(writes).map
  /\ mem' = [mem EXCEPT ![k] = v]
  /\ writes' = Append(Tail(writes), [map |-> [mem EXCEPT ![k] = v], task |-> t])
  /\ lost' = FALSE

(* A pending write fails and its task t gets the exception.                  *)
WriteFails(t) ==
  \E i \in DOMAIN writes :
    /\ writes[i].task = t
    /\ writes' = RemoveAt(writes, i)
    /\ lost' = (lost \/ i = Len(writes))
    /\ UNCHANGED <<mem, disk>>

(* The process dies and is started again.                                    *)
Reload ==
  /\ mem' = disk
  /\ writes' = <<>>
  /\ lost' = FALSE
  /\ UNCHANGED disk

(* The file holds the map in memory once nothing is pending, unless the      *)
(* newest write failed.                                                      *)
Settled == writes = <<>> /\ ~lost

StoreOK(Values) ==
  /\ mem \in [Keys -> Values \cup {Nothing}]
  /\ disk \in [Keys -> Values \cup {Nothing}]
  /\ lost \in BOOLEAN
  /\ \A i \in DOMAIN writes : writes[i].map \in [Keys -> Values \cup {Nothing}]
=============================================================================
