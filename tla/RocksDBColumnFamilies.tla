----------------------- MODULE RocksDBColumnFamilies -----------------------
(***************************************************************************)
(* The column families of one database (RocksDB.mm, "Column Families", and *)
(* RocksDBColumnFamilyDescriptor.mm): which ones there are, what a         *)
(* descriptor must name to open them, and which one a handle reaches.      *)
(*                                                                         *)
(* RocksDB knows a family by a number that is never used again: a handle   *)
(* of a family that was dropped does not reach a later one of its name.    *)
(* Names are converted with their length in UTF-8, so distinct names stay  *)
(* distinct, and the model uses the names themselves.                      *)
(***************************************************************************)
EXTENDS Naturals, Sequences, SequencesExt

CONSTANTS
  Name,           \* names of column families
  Default,        \* the name every database has a family of
  MaxDescribed,   \* bound on the length of a descriptor
  MaxFamilies     \* bound on the families a database ever has

ASSUME NameAssumption  == Default \in Name
ASSUME BoundAssumption == {MaxDescribed, MaxFamilies} \subseteq Nat

VARIABLES
  catalog,     \* the number of the family of each name, 0 if there is none
  created,     \* how many families the database has had
  filled,      \* the families that hold the data
  open,        \* "no", "read-write" or "read-only"
  descriptor,  \* the names in the descriptor, in order
  array,       \* what -columnFamilies answers: a handle for each of them
  held,        \* the handles createColumnFamilyWithName: returned
  wrote,       \* the names under which the application wrote the data
  answer       \* what dropColumnFamilies: was given and returned, if that was the last call

familyVars == <<catalog, created, filled, wrote>>
handleVars == <<open, array, held>>
familiesVars == <<familyVars, handleVars, descriptor, answer>>

\* A handle, as the application knows it and as RocksDB does.
Handle == [name : Name, id : 1..MaxFamilies]
NoCall == [asked |-> <<>>, told |-> TRUE]

FamiliesTypeOK ==
  /\ catalog \in [Name -> 0..created] /\ created \in 0..MaxFamilies
  /\ \A m, n \in Name : catalog[m] = catalog[n] /\ m # n => catalog[m] = 0
  /\ filled \subseteq 1..created /\ wrote \subseteq Name
  /\ open \in {"no", "read-write", "read-only"}
  /\ descriptor \in Seq(Name) /\ Len(descriptor) <= MaxDescribed
  /\ array \in Seq(Handle) /\ Len(array) <= MaxDescribed /\ held \subseteq Handle
  /\ \A h \in held \cup ToSet(array) : open # "no" /\ h.id <= created
  /\ answer.asked \in Seq(Handle) /\ answer.told \in BOOLEAN

FamiliesInit ==
  /\ catalog = [n \in Name |-> 0] /\ created = 0 /\ filled = {} /\ wrote = {}
  /\ open = "no" /\ array = <<>> /\ held = {}
  /\ descriptor = <<>>
  /\ answer = NoCall

\* listColumnFamiliesInDatabaseAtPath:, which answers no family at all when
\* there is no database to list.
Listed == {n \in Name : catalog[n] # 0}
Live   == {catalog[n] : n \in Listed}

\* The handle -defaultColumnFamily returns and the plain overloads use.
DefaultHandle == [name |-> Default, id |-> catalog[Default]]
Handles == IF open = "no" THEN {} ELSE {DefaultHandle} \cup ToSet(array) \cup held

-----------------------------------------------------------------------------
(* Descriptors.                                                            *)

AddColumnFamilyWithName(n) ==
  /\ open = "no" /\ Len(descriptor) < MaxDescribed
  /\ descriptor' = Append(descriptor, n)
  /\ answer' = NoCall /\ UNCHANGED <<familyVars, handleVars>>

AddDefaultColumnFamilyWithOptions == AddColumnFamilyWithName(Default)

NewDescriptor ==
  /\ descriptor # <<>> /\ descriptor' = <<>>
  /\ answer' = NoCall /\ UNCHANGED <<familyVars, handleVars>>

-----------------------------------------------------------------------------
(* Opening and closing.                                                    *)

\* The families of the names in ns, created one after the other.
Creates(ns) ==
  /\ created + Len(ns) <= MaxFamilies
  /\ created' = created + Len(ns)
  /\ catalog' = [n \in Name |-> IF Contains(ns, n)
                                  THEN created + CHOOSE i \in 1..Len(ns) : ns[i] = n
                                  ELSE catalog[n]]

\* What opening with the names ns has to create, in order.
Missing(ns) ==
  LET all == <<Default>> \o ns
      made[i \in 0..Len(all)] ==
        IF i = 0 THEN <<>>
        ELSE IF all[i] \in Listed \cup ToSet(made[i - 1]) THEN made[i - 1]
        ELSE Append(made[i - 1], all[i])
  IN made[Len(all)]

\* Opening for reading and writing takes every family there is, and creates
\* those there are not if the options allow it.
Opens(ns, createIfMissing, createMissingColumnFamilies, errorIfExists) ==
  /\ Default \in ToSet(ns) /\ Listed \subseteq ToSet(ns)
  /\ Listed = {} => createIfMissing
  /\ errorIfExists => Listed = {}
  /\ ToSet(ns) \subseteq Listed \cup {Default} \/ createMissingColumnFamilies

\* For reading only, some of them, and the default one, will do.
OpensReadOnly(ns) == Default \in ToSet(ns) /\ ToSet(ns) \subseteq Listed

HandlesInReverse(ns) ==  \* mutant: the wrappers come in the reverse order
  [i \in 1..Len(ns) |-> [name |-> ns[i], id |-> catalog'[ns[Len(ns) + 1 - i]]]]

HandlesFor(ns) == [i \in 1..Len(ns) |-> [name |-> ns[i], id |-> catalog'[ns[i]]]]

\* Without a descriptor: the default family only, and no array.  (The
\* descriptor is let go after opening; the application makes another.)
DatabaseAtPath ==
  /\ open = "no"
  /\ \/ /\ open' = "read-write" /\ \E c, e \in BOOLEAN : Opens(<<Default>>, c, FALSE, e)
        /\ Creates(Missing(<<Default>>))
     \/ /\ open' = "read-only" /\ OpensReadOnly(<<Default>>)
        /\ UNCHANGED <<catalog, created>>
  /\ descriptor' = <<>> /\ answer' = NoCall
  /\ UNCHANGED <<filled, wrote, array, held>>

DatabaseAtPathColumnFamilies ==
  /\ open = "no"
  /\ \/ /\ open' = "read-write" /\ \E c, m, e \in BOOLEAN : Opens(descriptor, c, m, e)
        /\ Creates(Missing(descriptor))
     \/ /\ open' = "read-only" /\ OpensReadOnly(descriptor)
        /\ UNCHANGED <<catalog, created>>
  /\ array' = HandlesFor(descriptor)
  /\ descriptor' = <<>> /\ answer' = NoCall
  /\ UNCHANGED <<filled, wrote, held>>

\* The factory returns nil, but a database, and some of the families that were
\* missing, may have been created.
OpenFails ==
  /\ open = "no"
  /\ \/ Listed = {} /\ Creates(<<Default>>)
     \/ /\ Opens(descriptor, TRUE, TRUE, FALSE)
        /\ \E k \in 1..Len(Missing(descriptor)) : Creates(SubSeq(Missing(descriptor), 1, k))
  /\ answer' = NoCall
  /\ UNCHANGED <<filled, wrote, handleVars, descriptor>>

CloseKeepingArray ==  \* mutant: no removeAllObjects
  /\ open # "no"
  /\ open' = "no" /\ held' = {}
  /\ answer' = NoCall
  /\ UNCHANGED <<familyVars, array, descriptor>>

\* The application has closed its handles, or closes them no more.
CloseDatabase ==
  /\ open # "no"
  /\ open' = "no" /\ array' = <<>> /\ held' = {}
  /\ answer' = NoCall
  /\ UNCHANGED <<familyVars, descriptor>>

DestroyDatabase ==
  /\ open = "no" /\ Listed # {}
  /\ catalog' = [n \in Name |-> 0] /\ created' = 0 /\ filled' = {} /\ wrote' = {}
  /\ answer' = NoCall
  /\ UNCHANGED <<handleVars, descriptor>>

-----------------------------------------------------------------------------
(* Creating, dropping and writing.                                         *)

\* A name that is taken is refused: nil is returned and nothing changes.
CreateColumnFamilyWithName(n) ==
  /\ open = "read-write" /\ n \notin Listed
  /\ Creates(<<n>>)
  /\ held' = held \cup {[name |-> n, id |-> created']}
  /\ answer' = NoCall
  /\ UNCHANGED <<filled, wrote, open, array, descriptor>>

\* The families of the handles hs are no more.
Drops(hs) ==
  /\ catalog' = [n \in Name |-> IF \E h \in hs : h.id = catalog[n] THEN 0 ELSE catalog[n]]
  /\ wrote' = wrote \ {h.name : h \in hs}
  /\ UNCHANGED <<created, filled, handleVars, descriptor>>

CanDrop(h) == h.id \in Live \ {catalog[Default]}

\* Any other handle is refused, and a drop of this one may fail as well:
\* neither changes anything.
DropColumnFamily(h) ==
  /\ open = "read-write" /\ CanDrop(h)
  /\ Drops({h})
  /\ answer' = NoCall

DroppedUntilLast(hs) ==  \* mutant: drops what it can and goes by the last status
  {[dropped |-> {hs[i] : i \in {j \in 1..Len(hs) : CanDrop(hs[j])}},
    ok      |-> CanDrop(Last(hs))]}

\* One after the other, up to the first that is refused or fails.
DroppedInOrder(hs) ==
  {[dropped |-> {hs[i] : i \in 1..k}, ok |-> k = Len(hs)] : k \in
     {n \in 0..Len(hs) :
        \A i \in 1..n : CanDrop(hs[i]) /\ \A j \in 1..(i - 1) : hs[j].id # hs[i].id}}

DropColumnFamilies(hs) ==
  /\ open = "read-write"
  /\ \E result \in DroppedInOrder(hs) :
       /\ Drops(result.dropped)
       /\ answer' = [asked |-> hs, told |-> result.ok]

\* A write to a family that was dropped is refused; reads of it go on.
Write(h) ==
  /\ open = "read-write" /\ h.id \in Live
  /\ filled' = filled \cup {h.id}
  /\ wrote' = wrote \cup {h.name}
  /\ answer' = NoCall
  /\ UNCHANGED <<catalog, created, handleVars, descriptor>>

FamiliesNext ==
  \/ \E n \in Name : AddColumnFamilyWithName(n) \/ CreateColumnFamilyWithName(n)
  \/ AddDefaultColumnFamilyWithOptions \/ NewDescriptor
  \/ DatabaseAtPath \/ DatabaseAtPathColumnFamilies \/ OpenFails
  \/ CloseDatabase \/ DestroyDatabase
  \/ \E h \in Handles : DropColumnFamily(h) \/ Write(h)
  \/ \E g, h \in Handles : DropColumnFamilies(<<g, h>>)

FamiliesSpec == FamiliesInit /\ [][FamiliesNext]_familiesVars

-----------------------------------------------------------------------------
(* Properties.                                                             *)

\* Whichever way the application came by a handle (by its place in the
\* descriptor, by creating the family, or as the default one), and whatever
\* was opened, dropped and created anew in between, the family it reaches
\* holds what was written under that name and nothing else, or was dropped.
HandlesReachTheirFamily ==
  \A h \in Handles :
    \/ h.id \notin Live
    \/ catalog[h.name] = h.id /\ (h.id \in filled <=> h.name \in wrote)

\* dropColumnFamilies: answers YES when all it was given are gone; after NO,
\* because one was refused or the drop failed, those that are gone are the
\* first ones of the array and not all, so the list of families tells where
\* to go on.
BulkDropTells ==
  [][answer'.asked # <<>> =>
       LET asked == answer'.asked
           gone  == Live \ Live'
       IN IF answer'.told
            THEN \A i \in 1..Len(asked) : asked[i].id \in gone
            ELSE \E k \in 0..(Len(asked) - 1) :
                   gone = {asked[i].id : i \in 1..k}]_familiesVars
=============================================================================
