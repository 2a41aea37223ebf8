-------------------------- MODULE RocksDBLifecycle --------------------------
(***************************************************************************)
(* The life of one RocksDB object (RocksDB.mm) and of the native objects   *)
(* that hang off it: the rocksdb::DB, the column family handles it was     *)
(* opened with, and the column families, iterators and snapshots the       *)
(* application asks it for.  Application threads call the object           *)
(* concurrently; -close: and -isClosed run under @synchronized(self),      *)
(* every other method touches the native database without the lock.        *)
(*                                                                         *)
(* A native object is memory the wrapper must delete exactly once and must *)
(* not touch afterwards.  `faults' records every step that breaks this.    *)
(***************************************************************************)
EXTENDS Naturals

CONSTANTS
  Thread,       \* application threads
  Family,       \* native handles returned by DB::Open with a descriptor
  NewFamily,    \* native handles returned by CreateColumnFamily
  Iterator,     \* native iterators
  Snapshot,     \* native snapshots
  NoThread,     \* nobody holds the lock
  Nothing,      \* an operation that uses no object but the database
  RefusesWhileSnapshots,  \* DB::Close fails while a snapshot is unreleased
  Careful       \* the application keeps the rules of May... below

Child  == NewFamily \cup Iterator
Native == Family \cup Child \cup Snapshot
\* A RocksDBColumnFamilyHandle the columnFamilies accessor makes: the thread
\* that made it and the native handle it wraps.
Wrapper == Thread \X Family
MakerOf(w)  == w[1]
HandleOf(w) == w[2]

ASSUME ThreadAssumption == NoThread \notin Thread
ASSUME NativeAssumption ==
  /\ Nothing \notin Native /\ "db" \notin Native /\ "vector" \notin Native
  /\ Family \cap NewFamily = {} /\ Family \cap Iterator = {}
  /\ Family \cap Snapshot = {} /\ NewFamily \cap Iterator = {}
  /\ NewFamily \cap Snapshot = {} /\ Iterator \cap Snapshot = {}
ASSUME FlagAssumption == RefusesWhileSnapshots \in BOOLEAN /\ Careful \in BOOLEAN

VARIABLES
  phase,    \* the RocksDB object: not opened, open, or deallocated
  db,       \* *_db; "freed" stands for _db = nullptr after a close
  native,   \* every other native object
  vector,   \* _columnFamilyHandles is not nullptr
  made,     \* _columnFamilies is not nil
  array,    \* the wrappers in _columnFamilies
  wrap,     \* the native pointer of every wrapper
  owner,    \* the thread inside @synchronized(self)
  pending,  \* wrappers makeObjectsPerformSelector has yet to close
  pc,       \* where each thread is in its call
  todo,     \* handles the accessor has yet to wrap
  using,    \* the object each thread's operation works on
  answer,   \* what each thread's last call returned
  faults    \* misuse of native memory so far

arrayVars == <<vector, made, array, wrap>>
lockVars  == <<owner, pending>>
callVars  == <<pc, todo, using, answer>>
vars == <<phase, db, native, arrayVars, lockVars, callVars, faults>>

ClosingPc == {"wait", "handles", "native", "delete"}
LockedPc  == {"handles", "native", "delete"}
UsingPc   == {"use", "release"}
FillingPc == {"looked", "fill"}

Fault == {"use after free", "double free"} \X (Native \cup {"db", "vector"})

TypeOK ==
  /\ phase \in {"new", "failed", "open", "gone"}
  /\ db \in {"none", "open", "shut", "freed"}
  /\ native \in [Native -> {"none", "live", "freed"}]
  /\ vector \in BOOLEAN /\ made \in BOOLEAN
  /\ array \subseteq Wrapper /\ pending \subseteq Wrapper
  /\ wrap \in [Wrapper -> {"none", "held", "nil"}]
  /\ owner \in Thread \cup {NoThread}
  /\ pc \in [Thread -> {"idle"} \cup ClosingPc \cup UsingPc \cup FillingPc]
  /\ todo \in [Thread -> SUBSET Family]
  /\ using \in [Thread -> Native \cup {Nothing}]
  /\ \A t \in Thread : pc[t] = "release" => using[t] \in Snapshot
  /\ answer \in [Thread -> {"none", "closed", "still open", "refused",
                            "array", "class object"}]
  /\ faults \subseteq Fault

Init ==
  /\ phase = "new" /\ db = "none"
  /\ native = [o \in Native |-> "none"]
  /\ vector = FALSE /\ made = FALSE /\ array = {} /\ pending = {}
  /\ wrap = [w \in Wrapper |-> "none"]
  /\ owner = NoThread
  /\ pc = [t \in Thread |-> "idle"]
  /\ todo = [t \in Thread |-> {}]
  /\ using = [t \in Thread |-> Nothing]
  /\ answer = [t \in Thread |-> "none"]
  /\ faults = {}

-----------------------------------------------------------------------------
(* The rules a careful application keeps: it lets its operations finish    *)
(* before it closes, closes what it created before it closes the database  *)
(* (README: "close it when you're done"), does not use what is closed, and *)
(* asks for the column families from one thread at a time.                 *)

Live(S)     == \E o \in S : native[o] = "live"
Closing     == \E u \in Thread : pc[u] \in ClosingPc
Quiet       == \A u \in Thread : pc[u] \notin UsingPc \cup FillingPc
UsedBy(o)   == \E u \in Thread : pc[u] \in UsingPc /\ using[u] = o

ChildrenClosed ==
  ~Live(Child) /\ (RefusesWhileSnapshots \/ ~Live(Snapshot))

MayClose      == Careful => Quiet /\ ChildrenClosed
MayUseDb      == Careful => ~Closing /\ db = "open"
MayUse(o)     == Careful => /\ native[o] # "freed"
                            /\ \A u \in Thread : ~(pc[u] = "release" /\ using[u] = o)
MayCloseIt(o) == Careful => ~UsedBy(o)
MayAsk        == Careful => \A u \in Thread : pc[u] \notin FillingPc

-----------------------------------------------------------------------------
(* Opening.  The factories run on an object no other thread can reach.     *)

OpenDatabase ==
  /\ phase \in {"new", "failed"}
  /\ phase' = "open" /\ db' = "open"
  /\ UNCHANGED <<native, arrayVars, lockVars, callVars, faults>>

OpenColumnFamilies ==
  /\ phase \in {"new", "failed"}
  /\ phase' = "open" /\ db' = "open" /\ vector' = TRUE
  /\ native' = [o \in Native |-> IF o \in Family THEN "live" ELSE native[o]]
  /\ UNCHANGED <<made, array, wrap, lockVars, callVars, faults>>

\* DB::Open failed: [self close] deletes the vector, the factory returns nil.
OpenFails ==
  /\ phase \in {"new", "failed"}
  /\ phase' = "failed" /\ vector' = FALSE
  /\ UNCHANGED <<db, native, made, array, wrap, lockVars, callVars, faults>>

-----------------------------------------------------------------------------
(* Operations.  A method loads _db and its argument's native pointer, then *)
(* runs inside RocksDB; another thread may delete either in between.       *)

Misuse(kind, o) == faults' = faults \cup {<<kind, o>>}

\* The application holds a wrapper of o, or o is still to be created.
Reachable(o) ==
  \/ o = Nothing
  \/ o \in Child \cup Snapshot /\ (native[o] = "none" => ~UsedBy(o))
  \/ o \in Family /\ \E w \in Wrapper :
       HandleOf(w) = o /\ wrap[w] # "none" /\ pc[MakerOf(w)] \notin FillingPc

BeginUse(t, o) ==
  /\ phase = "open" /\ pc[t] = "idle" /\ Reachable(o)
  /\ MayUseDb /\ (o # Nothing => MayUse(o))
  /\ pc' = [pc EXCEPT ![t] = "use"]
  /\ using' = [using EXCEPT ![t] = o]
  /\ UNCHANGED <<phase, db, native, arrayVars, lockVars, todo, answer, faults>>

\* The native call: put, get, ..., or the creation of the object it names.
EndUse(t) ==
  LET o == using[t] IN
  /\ pc[t] = "use"
  /\ pc' = [pc EXCEPT ![t] = "idle"]
  /\ using' = [using EXCEPT ![t] = Nothing]
  /\ \/ /\ db = "freed" \/ (o # Nothing /\ native[o] = "freed")
        /\ Misuse("use after free", IF db = "freed" \/ o = Nothing THEN "db" ELSE o)
        /\ UNCHANGED native
     \/ /\ db # "freed" /\ o # Nothing /\ native[o] = "none"
        /\ native' = [native EXCEPT ![o] = "live"]
        /\ UNCHANGED faults
     \/ \* it existed already, or its creation failed and nil was returned
        /\ db # "freed"
        /\ o # Nothing => native[o] = "live" \/ (o \in NewFamily /\ native[o] = "none")
        /\ UNCHANGED <<native, faults>>
  /\ UNCHANGED <<phase, db, arrayVars, lockVars, todo, answer>>

\* -[RocksDBIterator close] and -[RocksDBColumnFamilyHandle close] of a
\* handle the application created: locked, and the pointer is cleared.
CloseChild(t, o) ==
  /\ pc[t] = "idle" /\ native[o] # "none" /\ MayCloseIt(o)
  /\ IF native[o] = "live"
       THEN /\ native' = [native EXCEPT ![o] = "freed"]
            /\ IF db = "freed" THEN Misuse("use after free", "db")
                              ELSE UNCHANGED faults
       ELSE UNCHANGED <<native, faults>>
  /\ UNCHANGED <<phase, db, arrayVars, lockVars, callVars>>

BeginReleaseOfNothing(t, s) ==  \* mutant: hands ReleaseSnapshot no snapshot
  /\ pc[t] = "idle" /\ native[s] # "none"
  /\ MayUseDb /\ MayUse(s) /\ MayCloseIt(s)
  /\ pc' = [pc EXCEPT ![t] = "release"]
  /\ UNCHANGED <<phase, db, native, arrayVars, lockVars, todo, using, answer, faults>>

\* -[RocksDBSnapshot close] calls ReleaseSnapshot however often it is called.
BeginRelease(t, s) ==
  /\ pc[t] = "idle" /\ native[s] # "none"
  /\ MayUseDb /\ MayUse(s) /\ MayCloseIt(s)
  /\ pc' = [pc EXCEPT ![t] = "release"]
  /\ using' = [using EXCEPT ![t] = s]
  /\ UNCHANGED <<phase, db, native, arrayVars, lockVars, todo, answer, faults>>

EndRelease(t) ==
  LET s == using[t] IN
  /\ pc[t] = "release"
  /\ pc' = [pc EXCEPT ![t] = "idle"]
  /\ using' = [using EXCEPT ![t] = Nothing]
  /\ native' = [native EXCEPT ![s] = "freed"]
  /\ CASE db = "freed"         -> Misuse("use after free", "db")
       [] native[s] = "freed"  -> Misuse("double free", s)
       [] OTHER                -> UNCHANGED faults
  /\ UNCHANGED <<phase, db, arrayVars, lockVars, todo, answer>>

-----------------------------------------------------------------------------
(* The columnFamilies accessor: it caches one array of wrappers, without   *)
(* the lock, and fills the array after it has published it.                *)

Returns(t, a) ==
  /\ pc' = [pc EXCEPT ![t] = "idle"]
  /\ answer' = [answer EXCEPT ![t] = a]

\* init is sent to the class NSArray, so the class object is what returns,
\* although RocksDB.h says "Returns an array".
AskWithoutVector(t) ==
  /\ phase = "open" /\ pc[t] = "idle" /\ MayUseDb /\ MayAsk
  /\ ~vector
  /\ Returns(t, "class object")
  /\ UNCHANGED <<phase, db, native, arrayVars, lockVars, todo, using, faults>>

AskCached(t) ==
  /\ phase = "open" /\ pc[t] = "idle" /\ MayUseDb /\ MayAsk
  /\ vector /\ made
  /\ Returns(t, "array")
  /\ UNCHANGED <<phase, db, native, arrayVars, lockVars, todo, using, faults>>

AskUncachedAgain(t) ==  \* mutant: no check that _columnFamilies is nil
  /\ phase = "open" /\ pc[t] = "idle" /\ MayUseDb /\ MayAsk
  /\ vector
  /\ pc' = [pc EXCEPT ![t] = "looked"]
  /\ UNCHANGED <<phase, db, native, arrayVars, lockVars, todo, using, answer,
                 faults>>

AskUncached(t) ==
  /\ phase = "open" /\ pc[t] = "idle" /\ MayUseDb /\ MayAsk
  /\ vector /\ ~made
  /\ pc' = [pc EXCEPT ![t] = "looked"]
  /\ UNCHANGED <<phase, db, native, arrayVars, lockVars, todo, using, answer,
                 faults>>

MakeArray(t) ==
  /\ pc[t] = "looked"
  /\ made' = TRUE /\ array' = {}
  /\ todo' = [todo EXCEPT ![t] = Family]
  /\ pc' = [pc EXCEPT ![t] = "fill"]
  /\ UNCHANGED <<phase, db, native, vector, wrap, lockVars, using, answer, faults>>

\* addObject: goes to whatever array _columnFamilies holds by now.
AddHandle(t, f) ==
  /\ pc[t] = "fill" /\ f \in todo[t]
  /\ todo' = [todo EXCEPT ![t] = @ \ {f}]
  /\ wrap' = [wrap EXCEPT ![<<t, f>>] = "held"]
  /\ array' = array \cup {<<t, f>>}
  /\ IF vector THEN UNCHANGED faults ELSE Misuse("use after free", "vector")
  /\ UNCHANGED <<phase, db, native, vector, made, lockVars, pc, using, answer>>

ReturnArray(t) ==
  /\ pc[t] = "fill" /\ todo[t] = {}
  /\ Returns(t, "array")
  /\ UNCHANGED <<phase, db, native, arrayVars, lockVars, todo, using, faults>>

CloseHandleOfUnchecked(w) ==  \* mutant: deletes without looking for nullptr
  /\ wrap' = [wrap EXCEPT ![w] = "nil"]
  /\ native' = [native EXCEPT ![HandleOf(w)] = "freed"]
  /\ IF native[HandleOf(w)] = "freed" THEN Misuse("double free", HandleOf(w))
                                      ELSE UNCHANGED faults

\* -[RocksDBColumnFamilyHandle close] on a handle of the array.  The database
\* and the application share the wrapper, so its cleared pointer protects both.
CloseHandleOf(w) ==
  IF wrap[w] = "held"
    THEN /\ wrap' = [wrap EXCEPT ![w] = "nil"]
         /\ native' = [native EXCEPT ![HandleOf(w)] = "freed"]
         /\ CASE native[HandleOf(w)] = "freed" -> Misuse("double free", HandleOf(w))
              [] db = "freed"           -> Misuse("use after free", "db")
              [] OTHER                  -> UNCHANGED faults
    ELSE UNCHANGED <<wrap, native, faults>>

CloseWrapper(t, w) ==
  /\ pc[t] = "idle" /\ wrap[w] # "none" /\ pc[MakerOf(w)] \notin FillingPc
  /\ MayCloseIt(HandleOf(w))
  /\ CloseHandleOf(w)
  /\ UNCHANGED <<phase, db, vector, made, array, lockVars, callVars>>

-----------------------------------------------------------------------------
(* Closing: -close and -close:, and -dealloc, which calls them.            *)

CallClose(t) ==
  /\ phase = "open" /\ pc[t] = "idle" /\ MayClose
  /\ pc' = [pc EXCEPT ![t] = "wait"]
  /\ UNCHANGED <<phase, db, native, arrayVars, lockVars, todo, using, answer,
                 faults>>

EnterCloseUnlocked(t) ==  \* mutant: no @synchronized(self)
  /\ pc[t] = "wait"
  /\ owner' = t /\ pending' = array
  /\ pc' = [pc EXCEPT ![t] = "handles"]
  /\ UNCHANGED <<phase, db, native, arrayVars, todo, using, answer, faults>>

EnterCloseWithoutHandles(t) ==  \* mutant: does not close the wrappers
  /\ pc[t] = "wait" /\ owner = NoThread
  /\ owner' = t /\ pending' = {}
  /\ pc' = [pc EXCEPT ![t] = "handles"]
  /\ UNCHANGED <<phase, db, native, arrayVars, todo, using, answer, faults>>

EnterClose(t) ==
  /\ pc[t] = "wait" /\ owner = NoThread
  /\ owner' = t /\ pending' = array
  /\ pc' = [pc EXCEPT ![t] = "handles"]
  /\ UNCHANGED <<phase, db, native, arrayVars, todo, using, answer, faults>>

\* The last reference went away, so no thread is in a call; but the children
\* do not retain the database, and may be alive.
Dealloc(t) ==
  /\ phase = "open" /\ \A u \in Thread : pc[u] = "idle"
  /\ MayClose
  /\ phase' = "gone" /\ owner' = t /\ pending' = array
  /\ pc' = [pc EXCEPT ![t] = "handles"]
  /\ UNCHANGED <<db, native, arrayVars, todo, using, answer, faults>>

CloseHandle(t, w) ==
  /\ pc[t] = "handles" /\ w \in pending
  /\ pending' = pending \ {w}
  /\ CloseHandleOf(w)
  /\ UNCHANGED <<phase, db, vector, made, array, owner, callVars>>

\* removeAllObjects, and the vector is deleted: not the handles it held.
DropHandles(t) ==
  /\ pc[t] = "handles" /\ pending = {}
  /\ array' = {} /\ vector' = FALSE
  /\ pc' = [pc EXCEPT ![t] = "native"]
  /\ UNCHANGED <<phase, db, native, made, wrap, lockVars, todo, using, answer,
                 faults>>

LeavesClose(t, a) == owner' = NoThread /\ Returns(t, a)

CloseFindsNull(t) ==
  /\ pc[t] = "native" /\ db = "freed"
  /\ LeavesClose(t, "closed")
  /\ UNCHANGED <<phase, db, native, arrayVars, pending, todo, using, faults>>

CloseRefusedLocked(t) ==  \* mutant: the early return keeps the lock
  /\ pc[t] = "native" /\ db = "open"
  /\ RefusesWhileSnapshots /\ Live(Snapshot)
  /\ Returns(t, "refused")
  /\ UNCHANGED <<phase, db, native, arrayVars, lockVars, todo, using, faults>>

\* DB::Close returned Aborted: -close: returns NO and keeps _db.
CloseRefused(t) ==
  /\ pc[t] = "native" /\ db = "open"
  /\ RefusesWhileSnapshots /\ Live(Snapshot)
  /\ LeavesClose(t, "refused")
  /\ UNCHANGED <<phase, db, native, arrayVars, pending, todo, using, faults>>

CloseFailsUnnoticed(t) ==  \* mutant: answers YES although _db is kept
  /\ pc[t] = "native" /\ db = "open"
  /\ ~(RefusesWhileSnapshots /\ Live(Snapshot))
  /\ db' = "shut"
  /\ LeavesClose(t, "closed")
  /\ UNCHANGED <<phase, native, arrayVars, pending, todo, using, faults>>

\* DB::Close met an I/O error: it is closed all the same, -close: returns NO.
CloseFails(t) ==
  /\ pc[t] = "native" /\ db = "open"
  /\ ~(RefusesWhileSnapshots /\ Live(Snapshot))
  /\ db' = "shut"
  /\ LeavesClose(t, "refused")
  /\ UNCHANGED <<phase, native, arrayVars, pending, todo, using, faults>>

CloseNativeUnchecked(t) ==  \* mutant: ignores the status of DB::Close
  /\ pc[t] = "native" /\ db \in {"open", "shut"}
  /\ db' = "shut"
  /\ pc' = [pc EXCEPT ![t] = "delete"]
  /\ UNCHANGED <<phase, native, arrayVars, lockVars, todo, using, answer, faults>>

CloseNative(t) ==
  /\ pc[t] = "native"
  /\ \/ db = "open" /\ ~(RefusesWhileSnapshots /\ Live(Snapshot))
     \/ db = "shut"
  /\ db' = "shut"
  /\ pc' = [pc EXCEPT ![t] = "delete"]
  /\ UNCHANGED <<phase, native, arrayVars, lockVars, todo, using, answer, faults>>

DeleteDb(t) ==
  /\ pc[t] = "delete"
  /\ db' = "freed"
  /\ IF db = "freed" THEN Misuse("double free", "db") ELSE UNCHANGED faults
  /\ LeavesClose(t, "closed")
  /\ UNCHANGED <<phase, native, arrayVars, pending, todo, using>>

IsClosedByHandles(t) ==  \* mutant: takes the deleted vector for a closed database
  /\ phase = "open" /\ pc[t] = "idle" /\ owner = NoThread
  /\ Returns(t, IF db = "freed" \/ (array = {} /\ ~vector) THEN "closed" ELSE "still open")
  /\ UNCHANGED <<phase, db, native, arrayVars, lockVars, todo, using, faults>>

IsClosed(t) ==
  /\ phase = "open" /\ pc[t] = "idle" /\ owner = NoThread
  /\ Returns(t, IF db = "freed" THEN "closed" ELSE "still open")
  /\ UNCHANGED <<phase, db, native, arrayVars, lockVars, todo, using, faults>>

-----------------------------------------------------------------------------
Open == OpenDatabase \/ OpenColumnFamilies \/ OpenFails

Call(t) ==
  \/ \E o \in Native \cup {Nothing} : BeginUse(t, o)
  \/ \E s \in Snapshot : BeginRelease(t, s)
  \/ \E o \in Child : CloseChild(t, o)
  \/ \E w \in Wrapper : CloseWrapper(t, w)
  \/ AskWithoutVector(t) \/ AskCached(t) \/ AskUncached(t)
  \/ CallClose(t) \/ Dealloc(t) \/ IsClosed(t)

\* A step of a call that has begun.
Step(t) ==
  \/ EndUse(t) \/ EndRelease(t)
  \/ MakeArray(t) \/ (\E f \in Family : AddHandle(t, f)) \/ ReturnArray(t)
  \/ EnterClose(t) \/ (\E w \in Wrapper : CloseHandle(t, w)) \/ DropHandles(t)
  \/ CloseFindsNull(t) \/ CloseRefused(t) \/ CloseFails(t)
  \/ CloseNative(t) \/ DeleteDb(t)

Next == Open \/ \E t \in Thread : Call(t) \/ Step(t)

Spec == Init /\ [][Next]_vars

\* A thread inside a call keeps running; nobody is made to call anything.
FairSpec == Spec /\ \A t \in Thread : WF_vars(Step(t))

-----------------------------------------------------------------------------
(* Properties of a careful application.                                    *)

\* No native object is deleted twice, or touched after it was deleted, however
\* the closes of one thread fall between the steps of another: the
\* null-checks and the two levels of locks in -close: suffice.
NoMisuse == faults = {}

\* The array columnFamilies hands out holds exactly one wrapper for every
\* handle the database was opened with, once the accessor has returned.
OneWrapperPerHandle ==
  vector /\ made /\ (\A u \in Thread : pc[u] \notin FillingPc)
    => \A f \in Family : \E w \in array :
         HandleOf(w) = f /\ \A v \in Wrapper : HandleOf(v) = f /\ wrap[v] # "none" => v = w

\* Deleting the database leaves no iterator, created column family or
\* snapshot behind, and no wrapper with a pointer that could still be deleted.
NothingOutlivesDb ==
  db = "freed" => /\ ~Live(Child) /\ ~Live(Snapshot)
                  /\ \A w \in Wrapper : wrap[w] # "held"

\* If columnFamilies was ever called, closing deletes every handle the
\* database was opened with.  (If not, DropHandles forgets them all.)
HandlesDeletedWithDb ==
  db = "freed" /\ made => \A f \in Family : native[f] = "freed"

\* A close that is retried after the last snapshot was released succeeds: no
\* refusal, I/O error or interleaving leaves the object impossible to close.
RetriedCloseSucceeds ==
  <>[](~Live(Snapshot)) /\ []<>(owner # NoThread) => <>(db = "freed")

\* Seen from outside.  A handle the database was opened with is handed out
\* when columnFamilies wraps it.
State ==
  CASE db = "none"  -> "unopened"
    [] db = "freed" -> "closed"
    [] OTHER        -> "open"

HandedOut(o) == o \in Family => \E w \in Wrapper : HandleOf(w) = o /\ wrap[w] = "held"

Fate(o) ==
  CASE native[o] = "none"  -> "none"
    [] native[o] = "freed" -> "closed"
    [] native[o] = "live"  -> IF HandedOut(o) THEN "live" ELSE "none"

Fates == [o \in Native |-> Fate(o)]

Promised == INSTANCE DatabaseObject WITH state <- State, object <- Fates

\* Every call, spread as it is over the steps of its thread, takes effect at
\* one moment, as the headers promise it: what was handed out is closed while
\* the database is there, nothing is handed out twice or after a close, and
\* close: and isClosed answer what holds when they return.
IsDatabaseObject == Promised!DatabaseObjectSpec

-----------------------------------------------------------------------------
(* Properties of any application, careful or not.                          *)

\* Racing calls of -close:, -close and -isClosed delete the database once.
DeletedOnce == <<"double free", "db">> \notin faults

\* Once -close: returned YES or -isClosed said YES to some thread, the
\* database is deleted and stays so: there is no way back.
ClosedIsFinal == \A t \in Thread : answer[t] = "closed" => db = "freed"
=============================================================================
