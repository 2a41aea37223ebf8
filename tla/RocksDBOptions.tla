--------------------------- MODULE RocksDBOptions ---------------------------
(***************************************************************************)
(* RocksDBOptions is a facade: it forwards each getter and setter to one   *)
(* of two objects, the database-wide options and those of a column family, *)
(* which other facades may share.  A database, a descriptor and a new      *)
(* family take copies of the native options in them, and see nothing of    *)
(* what is set later.                                                      *)
(*                                                                         *)
(* An option has its default value or another one: an options object is    *)
(* the set of those that were changed.                                     *)
(***************************************************************************)
CONSTANTS
  Facade,           \* RocksDBOptions objects
  DatabaseOptions,  \* RocksDBDatabaseOptions objects
  FamilyOptions,    \* RocksDBColumnFamilyOptions objects
  Touched,          \* the options the application changes
  None              \* no object

\* The properties of RocksDBDatabaseOptions; each is a field of DBOptions.
DatabaseOption ==
  {"createIfMissing", "createMissingColumnFamilies", "errorIfExists", "env",
   "paranoidChecks", "infoLogLevel", "maxOpenFiles", "maxWriteAheadLogSize",
   "statistics", "useFSync", "maxLogFileSize", "logFileTimeToRoll",
   "keepLogFileNum", "bytesPerSync"}

\* Properties of RocksDBColumnFamilyOptions without a method of their own: the
\* compiler gives them an instance variable, and they reach no native options.
Synthesized == {"softRateLimit", "hardRateLimit", "purgeRedundantKvsWhileFlush"}

\* The properties of RocksDBColumnFamilyOptions.
FamilyOption == Synthesized \cup
  {"comparator", "mergeOperator", "writeBufferSize", "maxWriteBufferNumber",
   "minWriteBufferNumberToMerge", "compressionType", "compactionStyle",
   "prefixExtractor", "numLevels", "level0FileNumCompactionTrigger",
   "level0SlowdownWritesTrigger", "level0StopWritesTrigger", "targetFileSizeBase",
   "targetFileSizeMultiplier", "maxBytesForLevelBase", "maxBytesForLevelMultiplier",
   "arenaBlockSize", "disableAutoCompactions", "maxSequentialSkipInIterations",
   "memTableRepFactory", "tableFacotry", "memtablePrefixBloomSizeRatio",
   "memtableHugePageTlbSize", "bloomLocality", "maxSuccessiveMerges"}

\* What the facade's category DBOptions declares.
DeclaredForDatabase == DatabaseOption \cup {"disableDataSync"}

\* What its category ColumnFamilyOptions declares.
DeclaredForFamily ==
  (FamilyOption \ {"memtablePrefixBloomSizeRatio", "memtableHugePageTlbSize"}) \cup
  {"maxMemCompactionLevel", "expandedCompactionFactor", "sourceCompactionFactor",
   "maxGrandparentOverlapFactor", "verifyChecksumsInCompaction", "filterDeletes",
   "memtablePrefixBloomBits", "memtablePrefixBloomProbes",
   "memtablePrefixBloomHugePageTlbSize", "minPartialMergeOperands"}

ASSUME TouchedAssumption ==
  Touched \subseteq DeclaredForDatabase \cup DeclaredForFamily \cup FamilyOption
ASSUME ObjectAssumption ==
  DatabaseOptions \cap FamilyOptions = {} /\ None \notin Facade \cup DatabaseOptions \cup FamilyOptions

VARIABLES
  parts,      \* the two objects of each facade
  changed,    \* the options of each object that do not have their default value
  copies,     \* the native options in the descriptor, the database, its families
  openedWith  \* the facade, and the options of the default family, of the open database

optionsVars == <<parts, changed, copies, openedWith>>

Object  == DatabaseOptions \cup FamilyOptions
Option  == DatabaseOption \cup FamilyOption
NoParts == [database |-> None, family |-> None]
NotOpen == [facade |-> None, family |-> None]
Made    == {f \in Facade : parts[f] # NoParts}

\* A copy of the native options in an object, and what was set there since.
Holder == {"described", "database", "default", "created"}
Copy   == [from : Object \cup {None}, native : SUBSET Option, since : SUBSET Touched]
NoCopy == [from |-> None, native |-> {}, since |-> {}]
Held   == {p \in Holder : copies[p].from # None}

OptionsTypeOK ==
  /\ parts \in [Facade -> [database : DatabaseOptions, family : FamilyOptions] \cup {NoParts}]
  /\ changed \in [Object -> SUBSET Option]
  /\ \A d \in DatabaseOptions : changed[d] \subseteq DatabaseOption
  /\ \A c \in FamilyOptions : changed[c] \subseteq FamilyOption
  /\ copies \in [Holder -> Copy]
  /\ openedWith \in [facade : Made, family : FamilyOptions] \cup {NotOpen}

OptionsInit ==
  /\ parts = [f \in Facade |-> NoParts]
  /\ changed = [x \in Object |-> {}]
  /\ copies = [p \in Holder |-> NoCopy]
  /\ openedWith = NotOpen

-----------------------------------------------------------------------------
(* Facades.                                                                *)

InitWithDatabaseOptions(f, d, c) ==
  /\ parts[f] = NoParts
  /\ parts' = [parts EXCEPT ![f] = [database |-> d, family |-> c]]
  /\ UNCHANGED <<changed, copies, openedWith>>

\* -init makes two objects of its own.
InitFacade(f) ==
  \E d \in DatabaseOptions, c \in FamilyOptions :
    /\ \A g \in Made : parts[g].database # d /\ parts[g].family # c
    /\ changed[d] = {} /\ changed[c] = {} /\ \A p \in Holder : copies[p].from \notin {d, c}
    /\ InitWithDatabaseOptions(f, d, c)

ForwardingToDatabase(f, o) == parts[f].database  \* mutant: respondsToSelector: is not asked
ForwardingTargetForSelector(f, o) ==
  IF o \in DatabaseOption THEN parts[f].database ELSE parts[f].family

\* The setter of the option o of the object x.
SetOption(x, o) ==
  /\ \E other \in BOOLEAN :
       changed' = [changed EXCEPT ![x] = IF other THEN @ \cup {o} ELSE @ \ {o}]
  /\ copies' = [p \in Holder |->
       IF copies[p].from # x THEN copies[p] ELSE
         [from |-> x, native |-> copies[p].native,
          since |-> copies[p].since \cup ({o} \ Synthesized)]]
  /\ UNCHANGED <<parts, openedWith>>

\* The other options a facade declares no object answers to: the call raises
\* an exception, before anything is set.
SetThroughFacade(f, o) ==
  /\ f \in Made
  /\ o \in (DeclaredForDatabase \cup DeclaredForFamily) \cap Option
  /\ SetOption(ForwardingTargetForSelector(f, o), o)

SetDirectly(x, o) ==
  /\ o \in IF x \in DatabaseOptions THEN DatabaseOption ELSE FamilyOption
  /\ SetOption(x, o)

-----------------------------------------------------------------------------
(* Handing options on.                                                     *)

\* The native options in x, as they are now.
CopyOf(x) == [from |-> x, native |-> changed[x] \ Synthesized, since |-> {}]

\* addDefaultColumnFamilyWithOptions:, to a new descriptor.
DescribeDefaultFamily(c) ==
  /\ copies' = [copies EXCEPT !["described"] = CopyOf(c)]
  /\ UNCHANGED <<parts, changed, openedWith>>

\* A facade's native options are made of both parts.  (An open that fails
\* changes nothing here.)
OpenWithOptions(f) ==
  /\ openedWith = NotOpen /\ f \in Made
  /\ copies' = [copies EXCEPT !["database"] = CopyOf(parts[f].database),
                              !["default"]  = CopyOf(parts[f].family)]
  /\ openedWith' = [facade |-> f, family |-> parts[f].family]
  /\ UNCHANGED <<parts, changed>>

OpenDescribedLikeOthers(f) ==  \* mutant: the default family gets the facade's options
  /\ openedWith = NotOpen /\ f \in Made /\ "described" \in Held
  /\ copies' = [copies EXCEPT !["database"] = CopyOf(parts[f].database),
                              !["default"]  = CopyOf(parts[f].family)]
  /\ openedWith' = [facade |-> f, family |-> copies["described"].from]
  /\ UNCHANGED <<parts, changed>>

\* With a descriptor the facade's column family options are not looked at.
OpenDescribed(f) ==
  /\ openedWith = NotOpen /\ f \in Made /\ "described" \in Held
  /\ copies' = [copies EXCEPT !["database"] = CopyOf(parts[f].database),
                              !["default"]  = copies["described"]]
  /\ openedWith' = [facade |-> f, family |-> copies["described"].from]
  /\ UNCHANGED <<parts, changed>>

\* createColumnFamilyWithName:andOptions:.
CreateWithOptions(c) ==
  /\ openedWith # NotOpen /\ "created" \notin Held
  /\ copies' = [copies EXCEPT !["created"] = CopyOf(c)]
  /\ UNCHANGED <<parts, changed, openedWith>>

CloseConfigured ==
  /\ openedWith # NotOpen
  /\ copies' = [p \in Holder |-> IF p = "described" THEN copies[p] ELSE NoCopy]
  /\ openedWith' = NotOpen
  /\ UNCHANGED <<parts, changed>>

OptionsNext ==
  \/ \E f \in Facade :
       \/ \E d \in DatabaseOptions, c \in FamilyOptions : InitWithDatabaseOptions(f, d, c)
       \/ InitFacade(f)
       \/ \E o \in Touched : SetThroughFacade(f, o)
       \/ OpenWithOptions(f) \/ OpenDescribed(f)
  \/ \E x \in Object, o \in Touched : SetDirectly(x, o)
  \/ \E c \in FamilyOptions : DescribeDefaultFamily(c) \/ CreateWithOptions(c)
  \/ CloseConfigured

OptionsSpec == OptionsInit /\ [][OptionsNext]_optionsVars

-----------------------------------------------------------------------------
(* Properties.                                                             *)

\* Whoever else shares the options objects, and whatever is set through which
\* of them: an open database runs with the database-wide options of the facade
\* it was opened with, each of its families with the options it was described
\* or created with, and what an options object reads back is what runs, but
\* for what was set after the copy was taken, and for the options that reach
\* no native ones.
RunsAsConfigured ==
  openedWith # NotOpen =>
    /\ copies["database"].from = parts[openedWith.facade].database
    /\ copies["default"].from = openedWith.family
    /\ \A p \in Held :
         \A o \in Touched \ (copies[p].since \cup Synthesized) :
           o \in copies[p].native <=> o \in changed[copies[p].from]
=============================================================================
