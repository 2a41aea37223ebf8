--------------------------- MODULE DatabaseObject ---------------------------
(***************************************************************************)
(* What the headers promise of a database object: it is opened, hands out  *)
(* iterators, snapshots and column family handles, and is closed once, for *)
(* good, when everything it handed out has been closed.  No threads inside *)
(* calls, no locks and no native memory: each call takes effect at one     *)
(* moment, and answers what is true at that moment.  RocksDBLifecycle      *)
(* implements it, for an application that keeps its rules.                 *)
(***************************************************************************)
CONSTANTS
  Thread,     \* application threads
  Family,     \* handles of the column families the database was opened with
  NewFamily,  \* handles of column families created later
  Iterator,
  Snapshot

VARIABLES
  state,   \* "unopened", "open" or "closed"
  object,  \* what has become of each object that can be handed out
  answer   \* what each thread was last told

Object == Family \cup NewFamily \cup Iterator \cup Snapshot

Init ==
  /\ state = "unopened"
  /\ object = [o \in Object |-> "none"]
  /\ answer = [t \in Thread |-> "none"]

DatabaseAtPath ==
  /\ state = "unopened" /\ state' = "open"
  /\ UNCHANGED <<object, answer>>

HandOut(o) ==
  /\ state = "open" /\ object[o] = "none"
  /\ object' = [object EXCEPT ![o] = "live"]
  /\ UNCHANGED <<state, answer>>

NewIterator  == \E i \in Iterator  : HandOut(i)
NewSnapshot  == \E s \in Snapshot  : HandOut(s)
CreateColumnFamily == \E n \in NewFamily : HandOut(n)

\* columnFamilies hands out one handle per family, and each only once.
HandleOfColumnFamily == \E f \in Family : HandOut(f)

\* The database is there when the object that depends on it goes.
Discard(o) ==
  /\ state = "open" /\ object[o] = "live"
  /\ object' = [object EXCEPT ![o] = "closed"]
  /\ UNCHANGED <<state, answer>>

CloseIterator == \E i \in Iterator : Discard(i)
CloseSnapshot == \E s \in Snapshot : Discard(s)
CloseColumnFamily == \E h \in Family \cup NewFamily : Discard(h)

Tell(t, a) == answer' = [answer EXCEPT ![t] = a]

Close(t) ==
  /\ state = "open" /\ \A o \in Object : object[o] # "live"
  /\ state' = "closed" /\ Tell(t, "closed")
  /\ UNCHANGED object

\* A close that failed leaves the database as it was; isClosed looks.
AnswerOpen(t) ==
  /\ state = "open" /\ \E a \in {"refused", "still open"} : Tell(t, a)
  /\ UNCHANGED <<state, object>>

AnswerClosed(t) ==
  /\ state = "closed" /\ Tell(t, "closed")
  /\ UNCHANGED <<state, object>>

AnswerColumnFamilies(t) ==
  /\ state = "open" /\ \E a \in {"array", "class object"} : Tell(t, a)
  /\ UNCHANGED <<state, object>>

Next ==
  \/ DatabaseAtPath
  \/ NewIterator \/ NewSnapshot \/ CreateColumnFamily \/ HandleOfColumnFamily
  \/ CloseIterator \/ CloseSnapshot \/ CloseColumnFamily
  \/ \E t \in Thread : Close(t) \/ AnswerOpen(t) \/ AnswerClosed(t)
                       \/ AnswerColumnFamilies(t)

DatabaseObjectSpec == Init /\ [][Next]_<<state, object, answer>>
=============================================================================
