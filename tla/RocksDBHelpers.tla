--------------------------- MODULE RocksDBHelpers ---------------------------
(***************************************************************************)
(* Comparators, merge operators and factories: Objective-C wrappers around *)
(* native objects, which options objects hand to native databases and      *)
(* column families.  Who keeps a wrapper, and who deletes its native part? *)
(*                                                                         *)
(* - A wrapper is alive while the application or a live options object     *)
(*   refers to it (ARC).  Its native part calls back into it through a     *)
(*   pointer that does not keep it alive.                                  *)
(* - A setter hands the native part of a merge operator or factory to a    *)
(*   shared_ptr of its own, which copies of the native options share: each *)
(*   such hold deletes the native part when its last copy goes.  The       *)
(*   wrapper of a factory deletes it as well.  A comparator is handed on   *)
(*   as a bare pointer and never deleted.                                  *)
(* - A RocksDB object keeps the options object it was opened with; nothing *)
(*   keeps those of a descriptor or of a column family that was created.   *)
(***************************************************************************)
EXTENDS Naturals

CONSTANTS
  Comparator,     \* wrappers: RocksDBComparator
  MergeOperator,  \* RocksDBMergeOperator
  Factory,        \* prefix extractors, memtable and table factories
  Options,        \* RocksDBColumnFamilyOptions
  Database,       \* RocksDB
  Family,         \* names of column families
  DefaultFamily,  \* "default"
  Nil,            \* no options object
  Descriptor,     \* the place of families that are described
  MaxGiven        \* bound: how often a helper is given to options objects

Shared == MergeOperator \cup Factory
Helper == Comparator \cup Shared

\* What a call of a setter put into native options.
Hold == [helper : Helper, no : 1..MaxGiven]

\* Where native options have been copied to: the families of a descriptor and
\* of each database.
User == (Database \cup {Descriptor}) \X Family

ASSUME KindAssumption ==
  /\ Comparator \cap Shared = {} /\ MergeOperator \cap Factory = {}
  /\ Helper \cap Options = {} /\ Nil \notin Options
ASSUME PlaceAssumption == Descriptor \notin Database /\ DefaultFamily \in Family
ASSUME GivenAssumption == MaxGiven \in Nat

VARIABLES
  refs,     \* wrappers and options objects the application refers to
  slot,     \* the holds each options object has
  times,    \* how often each helper was given to an options object
  db,       \* the state of each RocksDB object
  keeps,    \* the options object it refers to
  from,     \* the options object each user's native options were copied from
  uses,     \* the holds copied with them
  altered,  \* ghost: users whose options object was changed since
  spent     \* the owners of native objects that have deleted them

vars == <<refs, slot, times, db, keeps, from, uses, altered, spent>>

KindOf(h) == CHOOSE K \in {Comparator, MergeOperator, Factory} : h \in K

\* The wrapper of h, as an owner of the native part.
WrapperOf(h) == [helper |-> h, no |-> 0]

TypeOK ==
  /\ refs \subseteq Helper \cup Options
  /\ slot \in [Options -> SUBSET Hold]
  /\ \A o \in Options : \A a, b \in slot[o] :
       KindOf(a.helper) = KindOf(b.helper) => a = b
  /\ times \in [Helper -> 0..MaxGiven]
  /\ db \in [Database -> {"none", "open", "closed", "gone", "leaked"}]
  /\ keeps \in [Database -> Options \cup {Nil}]
  /\ from \in [User -> Options \cup {Nil}]
  /\ uses \in [User -> SUBSET Hold]
  /\ \A x \in User : from[x] = Nil => uses[x] = {}
  /\ altered \subseteq {x \in User : from[x] # Nil}
  /\ spent \subseteq [helper : Shared, no : 0..MaxGiven]

Init ==
  /\ refs = Helper \cup Options
  /\ slot = [o \in Options |-> {}] /\ times = [h \in Helper |-> 0]
  /\ db = [d \in Database |-> "none"] /\ keeps = [d \in Database |-> Nil]
  /\ from = [x \in User |-> Nil] /\ uses = [x \in User |-> {}]
  /\ altered = {} /\ spent = {}

-----------------------------------------------------------------------------
(* ARC and shared_ptr.                                                     *)

LiveOptionsOfApplication == refs \cap Options  \* mutant: the RocksDB object does not keep its own
LiveOptions == (refs \cap Options) \cup ({keeps[d] : d \in Database} \ {Nil})

Plugged(o) == {b.helper : b \in slot[o]}
Wrappers   == (refs \cap Helper) \cup UNION {Plugged(o) : o \in LiveOptions}

HoldsOfOptionsOnly ==  \* mutant: a copy does not count
  {b \in Hold : \E o \in LiveOptions : b \in slot[o]}
\* The holds that some native options have.
Holds == {b \in Hold : \/ \E o \in LiveOptions : b \in slot[o]
                      \/ \E x \in User : b \in uses[x]}

\* Who will delete a native object: the holds, and -dealloc of the wrapper of
\* a factory.
Owners == {b \in Holds : b.helper \in Shared}
     \cup {WrapperOf(h) : h \in Factory \cap Wrappers}

\* Whatever a step makes ownerless is deleted in it.
Collect == spent' = spent \cup (Owners \ Owners')

-----------------------------------------------------------------------------
(* What the application does with options objects and wrappers.            *)

SetHelperBesideOld(o, h) ==  \* mutant: a helper of the kind that was there stays
  /\ {o, h} \subseteq refs /\ times[h] < MaxGiven
  /\ times' = [times EXCEPT ![h] = @ + 1]
  /\ slot' = [slot EXCEPT ![o] = @ \cup {[helper |-> h, no |-> times[h] + 1]}]
  /\ altered' = altered \cup {x \in User : from[x] = o}
  /\ UNCHANGED <<refs, db, keeps, from, uses>>
  /\ Collect

\* setComparator:, setMergeOperator:, setPrefixExtractor:, and the factories.
SetHelper(o, h) ==
  /\ {o, h} \subseteq refs /\ times[h] < MaxGiven
  /\ times' = [times EXCEPT ![h] = @ + 1]
  /\ slot' = [slot EXCEPT ![o] = {b \in @ : KindOf(b.helper) # KindOf(h)}
                            \cup {[helper |-> h, no |-> times[h] + 1]}]
  /\ altered' = altered \cup {x \in User : from[x] = o}
  /\ UNCHANGED <<refs, db, keeps, from, uses>>
  /\ Collect

\* The same with nil.  (A nil comparator is no comparator at all.)
SetNil(o, K) ==
  /\ o \in refs
  /\ slot' = [slot EXCEPT ![o] = {b \in @ : b.helper \notin K}]
  /\ altered' = altered \cup {x \in User : from[x] = o}
  /\ UNCHANGED <<refs, times, db, keeps, from, uses>>
  /\ Collect

\* The getters hand out the wrapper again.
GetHelper(o, h) ==
  /\ o \in refs /\ h \in Plugged(o)
  /\ refs' = refs \cup {h}
  /\ UNCHANGED <<slot, times, db, keeps, from, uses, altered>>
  /\ Collect

\* The application lets go of an options object or a wrapper.
LetGo(x) ==
  /\ x \in refs
  /\ refs' = refs \ {x}
  /\ UNCHANGED <<slot, times, db, keeps, from, uses, altered>>
  /\ Collect

-----------------------------------------------------------------------------
(* Databases and column families.                                          *)

CopyOptions(x, o) ==
  /\ from' = [from EXCEPT ![x] = o]
  /\ uses' = [uses EXCEPT ![x] = slot[o]]

\* The native options in the place p go.
Retire(p) ==
  /\ from' = [x \in User |-> IF x[1] = p THEN Nil ELSE from[x]]
  /\ uses' = [x \in User |-> IF x[1] = p THEN {} ELSE uses[x]]
  /\ altered' = {x \in altered : x[1] # p}

\* An open that fails leaves no object and changes nothing here.
OpenDatabase(d, o) ==
  /\ db[d] = "none" /\ o \in refs
  /\ db' = [db EXCEPT ![d] = "open"]
  /\ keeps' = [keeps EXCEPT ![d] = o]
  /\ CopyOptions(<<d, DefaultFamily>>, o)
  /\ UNCHANGED <<refs, slot, times, altered>>
  /\ Collect

\* addColumnFamilyWithName:andOptions: copies the native options.
AddColumnFamily(f, o) ==
  /\ from[<<Descriptor, f>>] = Nil /\ o \in refs
  /\ CopyOptions(<<Descriptor, f>>, o)
  /\ UNCHANGED <<refs, slot, times, db, keeps, altered>>
  /\ Collect

\* -dealloc of the descriptor.
ForgetDescriptor ==
  /\ \E f \in Family : from[<<Descriptor, f>>] # Nil
  /\ Retire(Descriptor)
  /\ UNCHANGED <<refs, slot, times, db, keeps>>
  /\ Collect

\* Opening with the descriptor, which stays as it is, copies what it has; the
\* RocksDB object keeps only the options object it was given itself.
OpenColumnFamilies(d, o) ==
  /\ db[d] = "none" /\ o \in refs
  /\ from[<<Descriptor, DefaultFamily>>] # Nil
  /\ db' = [db EXCEPT ![d] = "open"]
  /\ keeps' = [keeps EXCEPT ![d] = o]
  /\ from' = [x \in User |-> IF x[1] = d THEN from[<<Descriptor, x[2]>>] ELSE from[x]]
  /\ uses' = [x \in User |-> IF x[1] = d THEN uses[<<Descriptor, x[2]>>] ELSE uses[x]]
  /\ altered' = altered \cup {x \in User : x[1] = d /\ <<Descriptor, x[2]>> \in altered}
  /\ UNCHANGED <<refs, slot, times>>
  /\ Collect

CreateColumnFamily(d, f, o) ==
  /\ db[d] = "open" /\ from[<<d, f>>] = Nil /\ o \in refs
  /\ CopyOptions(<<d, f>>, o)
  /\ UNCHANGED <<refs, slot, times, db, keeps, altered>>
  /\ Collect

\* A close that fails changes nothing here.
Close(d) ==
  /\ db[d] = "open"
  /\ Retire(d)
  /\ db' = [db EXCEPT ![d] = "closed"]
  /\ UNCHANGED <<refs, slot, times, keeps>>
  /\ Collect

\* -dealloc closes first, then ARC lets go of the options.
Dealloc(d) ==
  /\ db[d] \in {"open", "closed"}
  /\ Retire(d)
  /\ db' = [db EXCEPT ![d] = "gone"]
  /\ keeps' = [keeps EXCEPT ![d] = Nil]
  /\ UNCHANGED <<refs, slot, times>>
  /\ Collect

\* When that close fails, the native database stays behind.
DeallocUnclosed(d) ==
  /\ db[d] = "open"
  /\ db' = [db EXCEPT ![d] = "leaked"]
  /\ keeps' = [keeps EXCEPT ![d] = Nil]
  /\ UNCHANGED <<refs, slot, times, from, uses, altered>>
  /\ Collect

Next ==
  \/ \E o \in Options, h \in Helper : SetHelper(o, h) \/ GetHelper(o, h)
  \/ \E o \in Options : SetNil(o, MergeOperator) \/ SetNil(o, Factory)
  \/ \E x \in Helper \cup Options : LetGo(x)
  \/ \E d \in Database, o \in Options :
       \/ OpenDatabase(d, o) \/ OpenColumnFamilies(d, o)
       \/ \E f \in Family : CreateColumnFamily(d, f, o)
  \/ \E f \in Family, o \in Options : AddColumnFamily(f, o)
  \/ ForgetDescriptor
  \/ \E d \in Database : Close(d) \/ Dealloc(d) \/ DeallocUnclosed(d)

Spec == Init /\ [][Next]_vars

-----------------------------------------------------------------------------
(* Properties.                                                             *)

Called(x) == {b.helper : b \in uses[x]}

\* As long as an options object is left as it was when a database or family
\* copied it, and the application or an open RocksDB object keeps it, the
\* native helpers there find the wrappers they call back alive.
CallbacksReachWrappers ==
  \A x \in User \ altered :
    from[x] \in refs \/ (x[1] \in Database /\ from[x] = keeps[x[1]])
      => Called(x) \subseteq Wrappers

\* No database or family is left with a native merge operator or factory that
\* was deleted, whatever happened to the options it came from: as long as the
\* helper was given to one options object, once, and if it is a factory the
\* wrapper, which deletes it as well, has been kept.
NotUsedAfterDeletion ==
  \A x \in User : \A b \in uses[x], a \in spent :
    a.helper = b.helper =>
      times[b.helper] > 1 \/ b.helper \in Factory \ Wrappers

\* What the README and the tests take for granted: a factory plugged into
\* options, and not kept anywhere else, is deleted once in the end.  (-dealloc
\* of its wrapper and the last shared_ptr both do it.)
DeletedAtMostOnce == \A a, b \in spent : a.helper = b.helper => a = b
=============================================================================
