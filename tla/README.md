# Verification of ObjectiveRocks

ObjectiveRocks wraps the C++ library RocksDB in Objective-C. The wrapper itself
is small, sequential-looking code; what is hard about it is *ownership* (who
deletes a native object, when, and how often), *races* (only `-close:` and
`-isClosed` take a lock), *the options a call really uses*, and *what an answer
of `YES` means*. This directory holds TLA+ models of that code, TLC
configurations that check them, and TLAPS proofs.

The C++ library is a git submodule and not part of the repository. The modules
model of it only what the wrapper relies on (`README.md:15` names v6.2.4); such
definitions are marked external in `PROJECT.json`.

Run everything from this directory: `tlc -config X.cfg M` with the pairs of the
table below, and `tlapm MProofs.tla` for the proofs about module `M`.

## 1. Inventory

| Component (`src/Code/`) | State | Operations | Module |
|---|---|---|---|
| Database object: `RocksDB.mm` 49-188, 353-373, `RocksDBColumnFamilyHandle`, `RocksDBSnapshot`, `RocksDBIterator` close | `_db`, `_columnFamilyHandles` (native vector), `_columnFamilies` (cached array), the native pointer in every wrapper | open, `close`, `close:`, `isClosed`, `dealloc`, `columnFamilies`, creating / using / closing iterators, snapshots, column families | `RocksDBLifecycle`, `DatabaseObject` |
| Reads and writes: `RocksDB.mm` 397-790, 857-868, 1066-1090 | default options; snapshot in the read options; (in RocksDB: log, memtables) | all overloads of set, merge, delete, get, multiGet, keyMayExist; `applyWriteBatch:`; `syncWal:`, `flushWal:` | `RocksDBStore` |
| Write batches: `RocksDBWriteBatchBase`, `RocksDBWriteBatch`, `RocksDBIndexedWriteBatch`, `RocksDBWriteBatchIterator`, `RocksDBMergeOperator` and its two C++ callbacks | the records, count and content flags, save points, the size limit | updates, `clear`, save points, `applyWriteBatch:`, reading and enumerating an indexed batch, merging operands | `RocksDBWriteBatch`, `RocksDBMergeOperator`, `BatchWithSavePoints` |
| Iterators: `RocksDBIterator.mm`, `RocksDBRange.mm` | cursor, status, the arguments and progress of an enumeration | seek / next / previous, range and prefix enumerations with a block | `RocksDBIterator`, `EnumerationWalk` |
| Backups and checkpoints: `RocksDBBackupEngine.mm`, `RocksDBCheckpoint.mm` | the engine pointer (and the backups on disk) | create, restore, delete, purge, garbage collect, close; create a checkpoint | `RocksDBBackupEngine`, `BackupArchive` |
| Maintenance: `RocksDB.mm` 872-990 | none of its own; counters inside RocksDB | compact a range, disable / enable file deletions, pause / continue background work | `RocksDBMaintenance` |
| Column families: `RocksDB.mm` 264-368, `RocksDBColumnFamilyDescriptor` | the catalog on disk, the names in a descriptor, the handles handed out | list, describe, open with or without a descriptor, create, drop one or several, destroy | `RocksDBColumnFamilies` |
| Helpers: `RocksDBComparator`, `RocksDBMergeOperator`, `RocksDBPrefixExtractor`, the factories, and the options that hold them | strong references to wrappers; native pointers in `shared_ptr`s or bare | setters, opening with options or descriptors, creating column families | `RocksDBHelpers` |
| Options: `RocksDBOptions`, `RocksDBDatabaseOptions`, `RocksDBColumnFamilyOptions` | two native structs and the facades that share them; the copies handed on | setters directly or through a facade; describing, opening, creating | `RocksDBOptions` |
| Table, cache and filter options | values handed through | setters | not modelled |
| Properties, statistics, thread status, errors, environment | none | read-only conversions | not modelled |

**How they interact.** Application threads call a `RocksDB` object; it loads
`_db` and calls the native database. The native database calls back into
comparator, merge operator and prefix extractor wrappers through pointers that
do not keep the wrappers alive. Iterators, snapshots and column family handles
are native objects that need the database, deleted by the `close` of their own
wrappers; the handles of `columnFamilies` are shared between the application
and the database object. Backups and checkpoints read the files of a database
that is being written to and compacted.

**What is hard to test**: two threads inside `close:`; an operation in flight
while another thread closes; a close that fails half way; a second call of
`columnFamilies` in the middle of the first; a crash between a write and its
sync, or in the middle of a backup; nested save points with refused updates;
writes during an enumeration. `PROJECT.json` lists each hazard at its line with
the properties that cover it, and says why where none does.

**What makes each component correct**
- database object: nothing is deleted twice or used after it was deleted;
  closed means closed; a failed close can be repeated; nothing outlives the
  database.
- reads and writes: what was promised to be durable is; a snapshot read sees
  the snapshot, any other read the thread's own writes.
- batches: rolling back restores records, count and flags together; reading
  through a batch agrees with applying it.
- enumerations: each key owed, once, in order; then the end.
- backups: `YES` means done, and stays true through crashes and purges.
- maintenance: what the range meant held is compacted; files being copied stay;
  no job runs after a pause returned until one is ended; obsolete files go.
- column families: a handle reaches the family of its name; a bulk drop that
  stops half way tells where.
- options: what was set before they were handed over is what runs.
- helpers: callbacks reach live wrappers, no native object is used after it was
  deleted.

## 2. Modules and how they correspond to the code

**`RocksDBLifecycle`.** `db` is `_db`: "none" before opening, "open", "shut"
after `DB::Close` (whether or not it reported an error), "freed" once deleted
and set to `nullptr`. `vector`, `made` and `array` are `_columnFamilyHandles`
and `_columnFamilies`; `wrap` is the native pointer in each
`RocksDBColumnFamilyHandle`, `native` the native objects themselves. `owner` is
the holder of `@synchronized(self)`. `pc` puts a thread between two of its
unlocked reads and writes: `-close:` is `CallClose`, `EnterClose`, one
`CloseHandle` per wrapper, `DropHandles`, then one of `CloseFindsNull`,
`CloseRefused`, `CloseFails`, `CloseNative` and `DeleteDb`. Any operation on
the database is `BeginUse` (loads `_db`) and `EndUse` (the native call), which
is where a racing close hurts. `faults` records each deletion or use of freed
memory, and never shrinks. `Careful` makes the application keep the rules of
the README ("close it when you're done"): its operations finish before it
closes, children are closed first, and the accessor runs in one thread at a
time. `RefusesWhileSnapshots` covers both kinds of `DB::Close`, the one that
answers Aborted while a snapshot is unreleased and the one that does not.
The wrapper of the default column family, which the database owns, is left out.
It implements **`DatabaseObject`**, what the headers promise: each call takes
effect at one moment. `Fates` and `State` are the refinement mapping: an object
is "live" from the moment its native object is handed out, and the database is
"closed" the moment it is deleted.

**`RocksDBStore`.** A method is the set of its overloads, records of what they
do and which arguments they take; each falls in one of three classes, read from
the native call it makes: those that hand on the options they were given, those
that are given options and hand on the defaults, and those that are given none.
A call takes its options when it begins and acts later, so another thread may
change the defaults in between. `log`, `synced` and `flushed` are RocksDB's;
`Crash` loses a suffix of what was not synced and all that was not logged. A
read may fail (`FailRead`): `dataForKey:` then returns nil and an error and
`keyMayExist:` at most `YES` without a value, neither of which tells the
application a value; `multiGet:` drops the statuses of the native call and
returns empty data, as for a key without a value (field `tells`). Each read is
of one key.

**`RocksDBWriteBatch`** keeps the records, `count`, the flags (`hasPut` ...)
and the stack of save points of `WriteBatch`; an update that would exceed the
limit is taken back. It implements **`BatchWithSavePoints`**, a list of updates
with a stack of lists: property `IsBatch`. `GetFromBatchAndDB` is checked
against applying the batch, and so are the entries an iterator over the batch
shows, with and without `overwriteKey`. **`RocksDBMergeOperator`** is what the
trampolines of both kinds of operator make of an answer of their blocks: nil is
a refusal of a generic one and an empty value of an associative one. Operands
stay stacked in the database until `Compact` merges two of them, or the oldest
onto the value, in any order. The block of the full merge refuses what contains
a value of `Corrupt`: such a compaction leaves the operands stacked, and a read
of the key fails until a later put or deletion hides them (`Resolve`).

**`RocksDBIterator`** has one action per step of the loops at
`RocksDBIterator.mm:166-222`; a string is a number and a prefix a multiple of
`Width`. It implements **`EnumerationWalk`** (call the block with the nearest
key still owed, until none is left): property `IsWalk`. `Wanted` says what is
owed and comes from the documents, not from the loop: the keys with the prefix,
or those from the start (in the range) to the end (not in it) on the way the
enumeration goes (`Before`), which for a walk backwards is how the playground
writes its ranges, higher bound first. `IsWalk` speaks of the enumerations of
which all documents say the same (`Undisputed`): backwards from the last key or
down from a stored one, and by whole prefixes. Of the others it says nothing:
what the two examples of the repository's `README.md` (302-308, 337-342) and the
header (`RocksDBIterator.h:113`) ask for there is `WalksAsDocumented`, which the
code violates.

**`RocksDBBackupEngine`** splits a backup in the steps between which writes,
flushes and a crash may fall, and models the error reporting of every method:
`return NO` stands inside `if (error && *error == nil)`, so the answer depends
on `ErrorArgument`. A backup is the set of writes it contains. A crash takes the
writes that were neither logged nor flushed (`lost`). `close` asks nobody: it
may fall between the steps of a call, which then goes on, fails, or stops the
process; a call on a closed engine dereferences NULL (`CallOnClosed`, a crash).
What else the use of a deleted engine may do to memory is left out, and so are
two calls at once and a second engine in the directory, as RocksDB wants one
writer to it (`InitWithPath`). It implements
**`BackupArchive`**, an archive of whole copies that changes at one moment, when
the call is answered `YES`: property `IsArchive`.

**`RocksDBMaintenance`** has files of one key each. Flushes and compactions are
jobs that begin and end, so that writes, other calls and failures fall between:
a flush writes a raw file, a compaction puts the files of a key together and
leaves them obsolete, and no job begins while background work is paused.
`CompactRange` starts a job for each key of its range and answers when all are
done or one has failed. `InSlices` is the range as RocksDB gets it, in which a
nil bound has become the empty slice, `Meant` the one of the header, and `owed`
the raw files the range held when the call was made. Any thread may end any
pause (`ContinueBackgroundWork`), and `EnableFileDeletions` forces them on,
whoever had disabled them.

**`RocksDBHelpers`** has ARC references (`refs`, `slot`, `keeps`) and copies of
native options (`uses`), for each the options object it was made `from`. Each
call of a setter makes one owner of the native object (`Hold`), which copies of
the options share; the wrapper of a factory is one more owner. `Collect`, part
of every action, notes the owners whose last copy a step lets go (`spent`), each
of which deletes the native object. The application keeps to no rules: it lets
go of wrappers and options at any time, replaces helpers in options that are in
use, gives them twice, and uses a descriptor for several databases. What the
code does not promise stands in the properties instead: `CallbacksReachWrappers`
speaks of options that are left as they were copied and that the application or
an open `RocksDB` object keeps; `NotUsedAfterDeletion` of helpers that were
given once, and if they are factories, whose wrapper is kept. What README and
tests take for granted beyond that, that a factory kept nowhere else is deleted
once in the end, is `DeletedAtMostOnce`, and violated.

**`RocksDBColumnFamilies`** numbers the families as RocksDB does, never using a
number again, so that the handle of a dropped family is not one of a new family
of the same name. A failed open may have created the database and some of the
families; one with `errorIfExists` fails where there is a database. A drop fails
for what RocksDB refuses and for I/O errors. Sequences keep the order in which
`columnFamilies` answers and a bulk drop proceeds.

**`RocksDBOptions`** has the properties of the three headers as sets of names,
an options object as the set of those that were changed, and a record for every
copy of native options: the object it was taken from, what it holds, and what
has been set in that object since. `ForwardingTargetForSelector` is the method
of that name.

**Headers and implementation.** A definition that stands for a method is mapped
to the method in its `.mm` file. The abstract modules (`DatabaseObject`,
`BatchWithSavePoints`, `EnumerationWalk`, `BackupArchive`), the sets of
overloads in `RocksDBStore`, the fields of records and the sets of names in
`RocksDBOptions` are mapped to the declarations in the headers, which is where
they come from.

**MC modules** add symmetry sets, the combinations of write options, and the
variable that says which part of an instance runs. `MCDatabase` puts
`RocksDBLifecycle` and `RocksDBIterator` side by side, `MCConfiguration`
`RocksDBHelpers`, `RocksDBColumnFamilies` and `RocksDBOptions`: the modules of a
pair share no variable, so a step of one means nothing to the properties of the
other, and one of them runs (`moves`) while the other rests; so it is with two
helpers. In `MCMaintenance` either the pauses of several threads nest, among
jobs only, or there is one pause at a time beside everything else (`nesting`).
None of these modules redefines anything: the theorems are about the
specifications of the modules they extend.
Operators marked `mutant` are plausible bugs;
`PROJECT.json` pairs each with the property that notices it.

## 3. Runs

| Run | Module | Shows |
|---|---|---|
| `CarefulUse` | `MCDatabase` | 2 threads, 2 opened and 1 created handle, 1 iterator, 1 snapshot: no misuse, one wrapper per handle, nothing outlives the database, the handles are deleted with it; `IsDatabaseObject`. An iterator over 3 keys in 2 prefixes, all ranges over 3 bounds, with writes and failing reads: `IsWalk`, `EnumerationEnds` |
| `LifecycleCareless` | `RocksDBLifecycle` | an application without rules: `_db` is deleted once, closed is final; with fairness, a retried close succeeds |
| `StoreOptions` | `MCStore` | 2 threads, 1 key, 1 snapshot, 2 writes, crashes: durability, snapshot isolation, own writes, for overloads that honour their options |
| `WriteBatch` | `MCWriteBatch` | indexed (with and without `overwriteKey`) and plain batches of 2 records over 2 keys, one of a family with an associative operator, 2 values, one of them refused by full merges, 2 save points, limits 0 and 1, 2 operands in the database: `IsBatch`, `RetryHarmless`, `ReadsAsApplied`, `EntriesTellBatch` |
| `BackupCareful` | `RocksDBBackupEngine` | all operations, 2 writes, 2 backup ids, 1 checkpoint, error pointers to nil: `BackupPromise`, `YesMeansDone`, `IsArchive` |
| `Maintenance` | `MCMaintenance` | 2 keys, 3 files, ranges with an end: `RangeCompacted`, `CheckpointWhole`, `DisabledMeansKept`, `ObsoleteFilesGo`. 2 threads that pause up to 2 deep and end their own or the other's pauses: `QuietWhilePaused` |
| `Configuration` | `MCConfiguration` | 2 options objects, a comparator, a merge operator given up to twice, a factory, a descriptor, a database and a second family: callbacks reach wrappers, nothing deleted is used. 3 names, descriptors of 3, 3 families ever: `HandlesReachTheirFamily`, `BulkDropTells`. 2 facades over 1 database-wide and 2 family objects, 2 options: `RunsAsConfigured` |
| `IteratorDocumented` | `RocksDBIterator` | *violated*: the range from A to C in reverse, an example of the README, visits nothing. (The README's walk by prefix and the header's backward range are parts of the same property, and do not hold either.) |
| `StoreWriteOptions` | `MCStore` | *violated*: `setData:forKey:writeOptions:` ignores its options |
| `BackupErrorArgument` | `RocksDBBackupEngine` | *violated*: with no error argument a failed backup answers `YES` |
| `MaintenanceOpenRange` | `RocksDBMaintenance` | *violated*: compacting the open range compacts nothing |
| `HelpersFactory` | `RocksDBHelpers` | *violated*: a prefix extractor plugged into options and kept nowhere else is deleted twice |

**Why the bounds are enough.** The races of the life cycle are between two
calls (a third thread adds no new pair), over one object of each kind; two
handles are needed so that a close can stand between them. Durability needs one
write that is promised and one that is not, in either order. The store and the
batch relate writes *to one key*: keys are independent but for ranges, and
`RangeEnd` gives a range that holds the key. Two records on top of
what two operands have left in the database make base, operand and deletion in
any order; two save points nest; a limit of one record refuses the second (0 is
no limit), and one value that full merges accept and one that they refuse make a
read fail, and succeed again after a put. Two backup ids give an old
backup and a newest one, which is what a purge chooses between. Three files are
a raw one that a range owes, one flushed while its compaction runs, and the one
that comes of it; two keys let a range leave one out; a pause of each of two
threads, or two of one, are told apart by whose is ended. Where pauses nest two
files will do, a raw one and what comes of it. Two options
objects are what it takes for a native copy to outlive one and for a database
to be opened with the other; a setter called twice makes two owners, which a
merge operator has only then and a factory, whose wrapper is one of them, has
always. Three names, one of them the default, and three families ever give one
that stays and one to drop and create anew under its name. Two facades share the
one database-wide object and differ, or not, in the family's; of the two options
one is database-wide and one a family's (`softRateLimit` and its like, which
reach no native option, are left to the theorem).

**Fairness.** `LifecycleCareless`: a thread inside a call keeps running, as the
scheduler grants; nobody is made to call anything - `RetriedCloseSucceeds`
assumes in its statement that somebody keeps entering `close:`.
`CarefulUse`: the enumerating thread keeps running and the block returns.
`Maintenance`: a checkpoint goes on copying. Nothing else need be fair: RocksDB
looks for obsolete files at the end of each job and whenever file deletions are
enabled, which is part of those actions (`Purged`), and `ObsoleteFilesGo`
assumes in its statement that the application does not keep them disabled.

**Where the system may stop.** `CarefulUse`, `LifecycleCareless` and the runs of
`RocksDBHelpers` (`Configuration`, `HelpersFactory`) switch deadlock checking
off: a database object is opened and deallocated once, wrappers are let go, and
after that nothing need happen.

## 4. Proofs

`RocksDBLifecycleProofs` proves, for any sets of threads, handles, iterators
and snapshots satisfying the assumptions of `RocksDBLifecycle` (the kinds of
object are disjoint, `NoThread` is no thread):

| Theorem | Statement |
|---|---|
| `TypeCorrect` | `Spec => []TypeOK` |
| `DatabaseDeletedOnce` | `Spec => []DeletedOnce` |
| `ClosedForGood` | `Spec => []ClosedIsFinal` |
| `NeverMisused` | `Careful` implies `Spec => []NoMisuse` |
| `OneWrapper` | `Careful` implies `Spec => []OneWrapperPerHandle` |
| `NothingOutlives` | `Careful` implies `Spec => []NothingOutlivesDb` |
| `HandlesDeleted` | `Careful` implies `Spec => []HandlesDeletedWithDb` |
| `ImplementsDatabaseObject` | `Careful` implies `Spec => IsDatabaseObject`, the refinement of `DatabaseObject` |

Neither `DeletedOnce` nor `NoMisuse` is inductive. `CloseInv` adds what the lock
gives: the owner is exactly the thread between `EnterClose` and the return, and
a thread about to delete finds `_db` shut and not yet freed. It holds for every
application, careless ones included. `CarefulInv` adds what the rules give: a
close has the object to itself and finds no children (`CloseAlone`); what an
operation in flight works on exists (`UsesLive`); the pointer in a wrapper and
the native handle tell the same story, with one wrapper per handle
(`WrapperTruth`); one thread fills the array, with handles not yet wrapped
(`AccessorInv`). Each is preserved by a lemma per action; frame lemmas deal with
the parts an action leaves alone. The refinement rests on the same invariant:
`StepRefines` has a lemma per action that changes what the abstract object sees
(handing out, closing a child, deleting the database, an answer), and all other
steps are shown to stutter. `CloseAlone` is what makes the deletion a single
abstract step: no other call is in flight, and no child is live.

`RocksDBStoreProofs` proves, for any threads, keys, snapshots, options and
number of writes, under the assumptions of `RocksDBStore`:

| Theorem | Statement |
|---|---|
| `StoreTypes` | `Spec => []TypeOK` |
| `SyncedIsForGood` | `Spec => [](TakenSynced(i) => [](i \notin lost))` for every write `i` |
| `Durability` | if `WriteMethod` has no overload that ignores its options, `Spec => []PromisedSurvives` |
| `Isolation` | if `ReadMethod` has no such overload, `Spec => []SnapshotIsolation` |
| `OwnWrites` | if `ReadMethod` has no such overload, `Spec => []ReadsOwnWrites` |

The hypotheses are needed: the run `StoreWriteOptions` violates
`PromisedSurvives` without the first, and `keyMayExist:readOptions:value:` is the
overload the second is about. Both properties of reads speak of what the
application is told (`Told`). It is told nothing of a value when `dataForKey:`
fails, when `keyMayExist:` answers `YES` without one, and when `multiGet:`
returns empty data, which may be a failed read or a key without a value:
`multiGet:` is held to the data it does return, and no more can be promised of
it. `SyncedIsForGood` has no hypothesis: what is handed
to RocksDB to be synced is safe once it is taken, so each overload that hands on
its options keeps its promise, whatever the ones that ignore theirs do meanwhile.
`SyncInv` says that such a write is flushed or in the synced part of the log
(`Durable`), which no step undoes (`DurableForGood`); `DurableInv` adds that what
was promised is durable, and that a call is handed what it was asked.
`IsolationInv` adds that whoever is about to use a snapshot, or has used it,
finds it unreleased, and that no part of the log a view sees changes.
`OwnInv` adds that what a thread takes for its own write is in the log and not
lost. A step of one thread leaves what the others own (`OwnStep`). `ValueAt`
chooses the largest write of a view; that there is one follows from the
well-foundedness of < on the natural numbers (`LargestExists`).

`RocksDBBackupEngineProofs` proves, for any number of writes, backups and
checkpoints, if every `error:` argument points to nil (`Careful`; the run
`BackupErrorArgument` violates `BackupPromise` without it):

| Theorem | Statement |
|---|---|
| `EngineTypes` | `Spec => []TypeOK` |
| `PromiseKept` | `Spec => []BackupPromise` |
| `YesIsTrue` | `Spec => []YesMeansDone` |
| `ImplementsArchive` | `Spec => IsArchive`, the refinement of `BackupArchive` |

`BackupPromise` says that *some* backup holds what was promised, which a purge
could undo; `NewestInv` says that the newest one does, and that is what a purge
keeps. `CallInv` follows what is due from the database into the copy: a crash
ends the call, and until then what is due is logged or flushed and not lost. In
the refinement the steps of a call stutter until the one that writes the backup,
and an interrupted one leaves no whole copy.

`RocksDBIteratorProofs` proves, for any width of prefixes, any requests and any
set of keys that has a last one (`Finitely`):

| Theorem | Statement |
|---|---|
| `IteratorTypes` | `IteratorSpec => []IteratorTypeOK` |
| `ImplementsWalk` | with the bytewise comparator (`Bytewise`), `IteratorSpec => IsWalk`, the refinement of `EnumerationWalk` |

`WalkInv` is what makes a cursor a walk: in the loop the keys still owed are the
present one and those ahead of it, in the block those ahead, and if the iterator
is on no key nothing is owed. That the next key the iterator sees is
also the nearest owed uses `Started`, that the loop began at the right end: for
a walk backwards from a start this needs the start to be stored (`Undisputed`,
in the statement of `IsWalk`; run `IteratorDocumented` is about the other cases).
With another comparator the theorem is false: the end of a range is compared
bytewise (section 5).

`RocksDBConfigurationProofs` proves, for any wrappers, facades, options objects,
descriptors, databases and families, and any number of families ever created:

| Theorem | Statement |
|---|---|
| `HelperTypes` | `Spec => []TypeOK` |
| `CallbacksReach` | `Spec => []CallbacksReachWrappers` |
| `NoUseAfterDeletion` | `Spec => []NotUsedAfterDeletion` |
| `OptionsTypes` | `OptionsSpec => []OptionsTypeOK` |
| `OptionsRun` | `OptionsSpec => []RunsAsConfigured` |
| `FamiliesTypes` | `FamiliesSpec => []FamiliesTypeOK` |
| `HandlesReachFamilies` | `FamiliesSpec => []HandlesReachTheirFamily` |
| `BulkDropsTell` | `FamiliesSpec => BulkDropTells` |

The first three rest on `HelpersInv`: what was copied from options that have not
been changed since is still in them (`Copied`); who has deleted a native object
owns nothing any more, numbers of owners are never given out again, and only
wrappers of factories delete (`Owned`); and a database that was never opened has
no copies (`Unopened`). No guard restrains the application: what it must do for
its callbacks to arrive is the premise of each property, and the run
`HelpersFactory` goes where one of them fails. That a helper
given twice is deleted twice is outside `NotUsedAfterDeletion`, and so is a
factory whose wrapper went first. The next two rest on `OptionsInv`: a
copy holds what its object reads back but for what was set since (`Tells`), and
the copies an open database runs with are of the objects it was opened with.

The last three rest on `FamiliesInv`. That a handle reaches the family of its
name is not inductive: a drop and a new family of the name may come between. What
is: no handle is numbered higher than any family created, and *if* the number is
alive it is the family of the name (`Reaches`); numbers are given out once; and a
family holds data just if it was written under its name (`Told`). Opening numbers
what is missing one by one, and may fail half way: that each missing name is in
the list once, so that no number is given out twice, is proved by induction over
the names asked for. `BulkDropsTell` is an action property: after `NO` what is
gone is what was asked for up to some place, and what follows is the default
family or no more.

`RocksDBMaintenanceProofs` proves, for any keys, threads and number of files:

| Theorem | Statement |
|---|---|
| `MaintenanceTypes` | `Spec => []TypeOK` |
| `QuietMeansQuiet` | `Spec => []QuietWhilePaused` |
| `CheckpointsWhole` | `Spec => []CheckpointWhole` |
| `DisabledKeeps` | `Spec => DisabledMeansKept` |
| `RangesCompacted` | if every range has an end (`Nil \notin End`), `Spec => []RangeCompacted` |

`QuietWhilePaused` has two halves: no job runs from the return of a pause until
any thread ends one, and while a thread's own pause lasts, provided no thread
ended a pause that was not its own (`mine`). RocksDB counts pauses in one
number; that it is above 0 while one thread's pause lasts is a matter of
cardinality: `PausesCounted` says that it is the number of `Tokens`, one per
pause not ended, for as long as `mine` holds. `CheckpointWhole` allows a
checkpoint to fail for a missing file only if file deletions were enabled, and
so forced, while it copied; `CopyInv` adds that otherwise they are disabled.
`DisabledMeansKept` makes the like exception: a checkpoint whose own disabling
was taken back by force takes back one of the application when it ends
(`undone`); `KeepInv` says that but for this the count is above what the running
checkpoint has added to it. `RangesCompacted` is about jobs that take time:
`RangeInv` says that what is still owed belongs to keys still to compact, and
that the compaction running for one of them has all of the key's owed files
among its input, whatever is flushed or compacted beside it and whichever job
fails. Without its hypothesis it is false (run `MaintenanceOpenRange`).

`RocksDBWriteBatchProofs` proves, for any keys, values and families' merge
operators, any number of records, limits and nesting of save points (assuming
that nil and a failure are no values, `NilAssumption`):

| Theorem | Statement |
|---|---|
| `BatchTypes` | `Spec => []TypeOK` |
| `BatchTells` | `Spec => []HeaderTells`: the numbers kept are true of the records |
| `BatchCanBePutBack` | `Spec => IsBatch`, the refinement of `BatchWithSavePoints` |
| `RetriesAreHarmless` | `Spec => []RetryHarmless` |
| `ReadsFindTheBatchApplied` | `Spec => []ReadsAsApplied` |
| `EntriesTellTheBatch` | `Spec => []EntriesTellBatch` |

All six rest on `WriteInv`. Its part `BatchInv` says that the count and the flags
are true of the records, and every save point holds numbers true of the records
it goes back to (`HeaderTells`); inductive with it is `Nested`: a save point lies
within what the later ones go back to, so that a rollback leaves none beyond the
end of the batch. `Bounds` is what the actions of the model keep to, and
`Unranged` that an indexed batch holds no range.

What a list of records does is defined by recursion over it, and the proofs run
along the list:
- `CompactionsKeep`: whichever operands RocksDB merges, and in whatever parts,
  with either operator, a read finds what it found, or fails as it failed. It
  rests on the law that merging in parts is merging at once (`HeldInParts`),
  which is that of the concatenation of lists; on what the trampolines make of
  nil; and on a read failing just where what there is to be merged is refused
  (`ResolveIs`), and a compaction leaving alone what is refused.
- `ContentsOfApply`: what reads find after a batch was applied follows from what
  they found before, or what there was to be merged where they failed; with it,
  what the abstract batch does to the contents is what the concrete one does to
  bases and stacks of operands.
- For `RetriesAreHarmless`, after each record of the second application a key is
  as the first left it, or as it was and not yet touched.
- A merge onto what is refused is refused again (`RefusesMore`), which is why a
  read through a batch may fail as soon as the read of the database does.
- `BatchDoes`: an indexed batch leaves of a key its latest record that is no
  merge, or what the database had, with the operands of the later merges on it:
  which is what a read puts together.
- `SeeksMeet`: the two seeks of a key enclose its entries. That there is an order
  of entries at all is proved by insertion (`InsertSorted`, `SortedExists`).
  `Replays` then compares two applications of different length, the batch and
  the entries of one key, record by record.

`FirstOrderInduction` holds what these proofs share. The induction theorems of
the library take the predicate as an operator, which the provers cannot
instantiate; here induction is stated of a *set* of numbers and recursion of the
existence of a *function*, both proved from the well-foundedness of < on the
natural numbers.

Only model-checked: liveness under fairness (`EnumerationEnds`,
`RetriedCloseSucceeds`, `ObsoleteFilesGo`), out of reach of the prover. Every
invariant and every other property of a passing run is stated by a theorem.

## 5. Where code and documents part

Five divergences have a run (section 3) and a finding in `PROJECT.json` that
quotes the document. Others are seen in the models, or were met while modelling:

- Three more ways in which an enumeration is not what is documented. A walk by
  the prefix "10.2" visits that key only, and not "10.3" (`README.md:337-342`):
  the loop tests each key for the argument itself. A walk backwards begins with
  `seekToKey:` as a forward one does, which from a key that is not stored goes to
  the one after it, outside the range, or to none (`RocksDBIterator.mm:172`,
  `RocksDBIterator.h:113`). Both are parts of `WalksAsDocumented`, of which
  `IteratorDocumented` shows the reverse range. With a comparator that is not
  bytewise a range ends too early or too late (`RocksDBIterator.mm:188`).
- `multiGet:` drops the statuses of the native call (`RocksDB.mm:619`, 646): a
  read that failed looks like a key without a value (`Told`).
- `enableFileDeletions:` always forces (`RocksDB.mm:938`). Called while a
  checkpoint copies, it takes back the disabling of the checkpoint, which may
  then miss a file (`forced`), and the end of that checkpoint takes back a later
  disabling of the application, whose obsolete files then go in spite of
  `RocksDB.h:1055` (`undone`).
- `createColumnFamilyWithName:` and descriptors copy the native options and keep
  neither the options object nor its wrappers (`RocksDB.mm:307`): the helpers of
  such a family are called through wrappers nobody keeps, unless the application
  does; the tests pass temporaries (`ColumnFamilyTests`, and
  `CallbacksReachWrappers` leaves that case out).

- `RocksDB.mm:355` answers `[NSArray init]`, the class and no array, if the
  database was opened without a descriptor; `RocksDB.h:265` says "Returns an
  array". (`answer` "class object" in `RocksDBLifecycle`.)
- `keyMayExist:readOptions:value:` (`RocksDB.mm:671`) hands on the default read
  options, against `RocksDB.h:681`; `snapshotWithReadOptions:` takes none of
  the options `RocksDB.h:971` speaks of.
- `RocksDBCheckpoint.mm:60` reports failure as the backup engine does.
- `softRateLimit`, `hardRateLimit` and `purgeRedundantKvsWhileFlush` are
  declared in `RocksDBColumnFamilyOptions.h` (129, 135, 147) and have no method:
  the compiler keeps them in the wrapper, they read back and reach no native
  options (`Synthesized`). `disableDataSync` and ten of the family options of
  `RocksDBOptions.h` have no counterpart in either part: using one raises an
  exception.
- `RocksDBStatistics.mm` assigns the 99th percentile to `percentile95`;
  `setBlockCacheCompressed:` of the table options sets the uncompressed cache.
- `RocksDB.mm:457`, the map-valued property of a column family, ignores the
  family it is given.

## 6. Not modelled

- The C++ library, but for what the table of `PROJECT.json` marks external.
- Content of callbacks, keys and values; formatting, logging.
- Statistics, properties, metadata, thread status, errors and the environment:
  conversions of values that RocksDB reports, without state or order. Table,
  cache and filter options: values handed through; the native objects among
  them are owned as the factories of `RocksDBHelpers` are.
- `getWriteBatch` and `iteratorWithBase` (two wrappers around one native
  object, of which nothing in the code says which owns it), the default column
  family's wrapper (owned by the database), the WAL termination point of a
  batch (no code reads it), the bytes an iterator lends until it moves.
- `keepLogFiles`, `backupInfo` and corrupted backups of the backup engine.
- What a nil comparator or factory does: setting one leaves the native options
  with a null pointer instead of the default, and RocksDB undefined.
- The default column family's handle (`RocksDB.mm:222`) and the characters
  behind `name.UTF8String`, whose life is up to the Foundation library.
- A careless application, in all of `RocksDBLifecycle` but the two invariants
  and the liveness of `LifecycleCareless`: for the rest the application is taken
  to close children first, to wait for its operations before it closes, and to
  call `columnFamilies` from one thread at a time. The code does nothing against
  one that does not. The handles of a database whose `columnFamilies` was never
  called are leaked (`HandlesDeletedWithDb` speaks of the others).

## 7. Plan

Done, in this order: `RocksDBLifecycle` with its proofs; `RocksDBIterator` and
`EnumerationWalk`; `RocksDBStore` with its proofs; `RocksDBWriteBatch` and
`BatchWithSavePoints`; `RocksDBBackupEngine`; `RocksDBMaintenance`;
`RocksDBHelpers`; `DatabaseObject` and the proof that the life cycle implements
it; the overloads of the store; merge operators and iterators over batches;
`RocksDBColumnFamilies`; `BackupArchive`; `RocksDBOptions`;
then proofs about the backup engine (with `IsArchive`), iterators (with
`IsWalk`), helpers, options, maintenance, column families and batches (with
`IsBatch`, reads and enumerations).

Next:
1. Double ownership of batches, iterators and the default handle, in a module of
   its own.
2. `keepLogFiles`, backup info and corrupted backups.
3. `Isolation` method by method, as `SyncedIsForGood` is for durability.
