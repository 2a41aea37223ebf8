--------------------- MODULE RocksDBConfigurationProofs ---------------------
(* What a database is opened with: who owns the helpers that are plugged   *)
(* into its options, what its options tell, and which family a handle of   *)
(* it reaches; for any wrappers, options, names, databases and families.   *)
EXTENDS RocksDBHelpers, RocksDBOptions, RocksDBColumnFamilies, FirstOrderInduction

-----------------------------------------------------------------------------
(* Pluggable helpers: who owns what.                                       *)

\* What has deleted its native object owns nothing any more, and the numbers
\* of holds have been given out; of wrappers, only those of factories delete.
Owned ==
  /\ Owners \cap spent = {}
  /\ \A b \in Holds \cup spent : b.no <= times[b.helper]
  /\ \A b \in spent : b.no = 0 => b.helper \in Factory

\* What was copied from options that have not been changed is still there.
Copied == \A x \in User \ altered : uses[x] # {} => uses[x] \subseteq slot[from[x]]

\* A database has no copies before it is opened.
Unopened ==
  \A x \in User : x[1] \in Database /\ db[x[1]] = "none" => from[x] = Nil

HelpersInv == TypeOK /\ Owned /\ Copied /\ Unopened

-----------------------------------------------------------------------------

LEMMA Disjoint ==
  /\ Helper \cap Options = {} /\ Nil \notin Options /\ Descriptor \notin Database
  /\ DefaultFamily \in Family /\ MaxGiven \in Nat
BY KindAssumption, PlaceAssumption, GivenAssumption

LEMMA UserPairs ==
  /\ \A p \in Database \cup {Descriptor}, f \in Family : <<p, f>> \in User
  /\ \A x \in User : x[1] \in Database \cup {Descriptor} /\ x[2] \in Family
BY DEF User

LEMMA InHolds ==
  ASSUME TypeOK
  PROVE  /\ Holds \subseteq Hold /\ LiveOptions \subseteq Options
         /\ \A o \in LiveOptions : slot[o] \subseteq Holds
         /\ \A x \in User : uses[x] \subseteq Holds
<1>1. Holds \subseteq Hold /\ LiveOptions \subseteq Options
  BY DEF TypeOK, LiveOptions, Holds
<1>2. \A o \in LiveOptions : slot[o] \subseteq Holds
  BY <1>1 DEF TypeOK, Holds
<1>3. \A x \in User : uses[x] \subseteq Holds
  BY DEF TypeOK, Holds
<1>4. QED
  BY <1>1, <1>2, <1>3

\* A step that makes no new holds but those in N, which were not there before,
\* and revives no wrapper leaves no owner that has already deleted.
LEMMA Collecting ==
  ASSUME TypeOK, Owned, Collect, NEW N \in SUBSET Hold,
         times' \in [Helper -> 0..MaxGiven],
         \A h \in Helper : times[h] <= times'[h],
         \A b \in N : b.no <= times'[b.helper] /\ b \notin spent,
         Holds' \subseteq Holds \cup N, Wrappers' \subseteq Wrappers
  PROVE  Owned' /\ spent' \subseteq [helper : Shared, no : 0..MaxGiven]
<1>1. Holds \subseteq Hold /\ Holds' \subseteq Hold
  BY DEF Holds
<1>2. Owners' \subseteq Owners \cup N
  BY DEF Owners, WrapperOf
<1>3. spent' = spent \cup (Owners \ Owners')
  BY DEF Collect
<1>4. Owners \subseteq [helper : Shared, no : 0..MaxGiven]
  BY <1>1, Disjoint DEF Owners, WrapperOf, Hold, Shared
<1>5. spent' \subseteq [helper : Shared, no : 0..MaxGiven]
  BY <1>3, <1>4 DEF TypeOK
<1>6. Owners' \cap spent' = {}
  BY <1>2, <1>3 DEF Owned
<1>7. ASSUME NEW b \in spent' PROVE b.no = 0 => b.helper \in Factory
  <2>1. CASE b \in spent
    BY <2>1 DEF Owned
  <2>2. CASE b \in Owners
    BY <1>1, <2>2, Disjoint DEF Owners, WrapperOf, Hold
  <2>3. QED BY <1>3, <2>1, <2>2
<1>8. ASSUME NEW b \in Holds' \cup spent' PROVE b.no <= times'[b.helper]
  <2>1. \A c \in Holds \cup spent : c.helper \in Helper /\ c.no \in 0..MaxGiven
    BY <1>1, Disjoint DEF TypeOK, Hold, Shared, Helper
  <2>2. CASE b \in Holds \cup spent
    BY <2>1, <2>2, Disjoint DEF Owned, TypeOK
  <2>3. CASE b \in N
    BY <2>3
  <2>4. CASE \E h \in Factory : b = WrapperOf(h)
    BY <2>4, Disjoint DEF WrapperOf, Helper, Shared
  <2>5. QED
    BY <1>3, <2>2, <2>3, <2>4 DEF Owners
<1>9. QED
  BY <1>5, <1>6, <1>7, <1>8 DEF Owned

\* Unless a helper is given to an options object, a step makes no holds and
\* revives nothing.
LEMMA NothingNew ==
  ASSUME TypeOK, Owned, Collect, UNCHANGED times,
         \A h \in Helper : h \in refs' => h \in Wrappers,
         LiveOptions' \subseteq LiveOptions,
         \A o \in Options : slot'[o] \subseteq slot[o],
         \A x \in User : \/ uses'[x] = {}
                         \/ \E y \in User : uses'[x] \subseteq uses[y]
                         \/ \E o \in LiveOptions : uses'[x] \subseteq slot[o]
  PROVE  Owned' /\ spent' \subseteq [helper : Shared, no : 0..MaxGiven]
<1>1. LiveOptions \subseteq Options
  BY InHolds
<1>2. Holds' \subseteq Holds
  <2>1. \A o \in LiveOptions' : slot'[o] \subseteq Holds
    BY <1>1, InHolds
  <2>2. \A x \in User : uses'[x] \subseteq Holds
    BY InHolds
  <2>3. \A b \in Holds' : \/ \E o \in LiveOptions' : b \in slot'[o]
                          \/ \E x \in User : b \in uses'[x]
    BY DEF Holds
  <2>4. QED
    BY <2>1, <2>2, <2>3
<1>3. Wrappers' \subseteq Wrappers
  <2>1. \A o \in LiveOptions' : Plugged(o)' \subseteq Wrappers
    BY <1>1 DEF Wrappers, Plugged
  <2>2. QED
    BY <2>1 DEF Wrappers
<1>4. {} \in SUBSET Hold
  OBVIOUS
<1>5. \A h \in Helper : times[h] <= times'[h]
  BY Disjoint DEF TypeOK
<1>6. QED
  BY <1>2, <1>3, <1>4, <1>5, Collecting DEF TypeOK

-----------------------------------------------------------------------------
(* The invariant.                                                          *)

LEMMA HelpersInitially == Init => HelpersInv
<1> SUFFICES ASSUME Init PROVE HelpersInv
  OBVIOUS
<1>1. TypeOK
  BY Disjoint DEF Init, TypeOK
<1>2. Holds = {}
  BY DEF Init, Holds, LiveOptions
<1>3. QED
  BY <1>1, <1>2 DEF Init, HelpersInv, Owned, Copied, Unopened

LEMMA SetHelperKeeps ==
  ASSUME HelpersInv, NEW o \in Options, NEW h \in Helper, SetHelper(o, h)
  PROVE  HelpersInv'
<1> USE DEF HelpersInv
<1> DEFINE new == [helper |-> h, no |-> times[h] + 1]
<1>1. times[h] \in 0..MaxGiven /\ times[h] < MaxGiven
  BY DEF SetHelper, TypeOK
<1>2. /\ times' \in [Helper -> 0..MaxGiven] /\ times'[h] = times[h] + 1
      /\ \A i \in Helper : times[i] <= times'[i]
  BY <1>1, Disjoint DEF SetHelper, TypeOK
<1>3. new \in Hold
  BY <1>1, Disjoint DEF Hold
<1>4. /\ slot' \in [Options -> SUBSET Hold]
      /\ slot'[o] = {b \in slot[o] : KindOf(b.helper) # KindOf(h)} \cup {new}
      /\ \A p \in Options \ {o} : slot'[p] = slot[p]
  BY <1>3 DEF SetHelper, TypeOK
<1>5. /\ UNCHANGED <<refs, db, keeps, from, uses, LiveOptions>> /\ Collect
      /\ o \in LiveOptions /\ h \in refs
      /\ altered' = altered \cup {x \in User : from[x] = o}
  BY DEF SetHelper, LiveOptions, TypeOK
<1>6. LiveOptions \subseteq Options
  BY InHolds
<1>7. Owned' /\ spent' \subseteq [helper : Shared, no : 0..MaxGiven]
  <2>1. Holds' \subseteq Holds \cup {new}
    BY <1>4, <1>5, <1>6 DEF Holds
  <2>2. new \notin spent
    <3>1. CASE new \in spent
      <4>1. new.no <= times[new.helper]
        BY <3>1 DEF Owned
      <4>2. QED
        BY <1>1, <4>1, Disjoint
    <3>2. QED BY <3>1
  <2>3. Wrappers' \subseteq Wrappers
    <3>1. \A p \in LiveOptions : Plugged(p)' \subseteq Plugged(p) \cup {h}
      BY <1>4, <1>6 DEF Plugged
    <3>2. QED
      BY <1>5, <3>1 DEF Wrappers
  <2>4. {new} \in SUBSET Hold
    BY <1>3
  <2>5. \A b \in {new} : b.no <= times'[b.helper] /\ b \notin spent
    BY <1>1, <1>2, <2>2, Disjoint
  <2>6. QED
    BY <1>2, <1>5, <2>1, <2>3, <2>4, <2>5, Collecting
<1>8. TypeOK'
  <2>1. \A p \in Options : \A a, b \in slot'[p] : KindOf(a.helper) = KindOf(b.helper) => a = b
    BY <1>4 DEF TypeOK
  <2>2. altered' \subseteq {x \in User : from'[x] # Nil}
    BY <1>5, Disjoint DEF TypeOK
  <2>3. QED
    BY <1>2, <1>4, <1>5, <1>7, <2>1, <2>2 DEF TypeOK
<1>9. Copied' /\ Unopened'
  BY <1>4, <1>5, Disjoint DEF Copied, Unopened, TypeOK
<1>10. QED
  BY <1>7, <1>8, <1>9

LEMMA SetNilKeeps ==
  ASSUME HelpersInv, NEW o \in Options, NEW K, SetNil(o, K)
  PROVE  HelpersInv'
<1> USE DEF HelpersInv
<1>1. /\ slot' \in [Options -> SUBSET Hold]
      /\ slot'[o] \subseteq slot[o]
      /\ \A p \in Options \ {o} : slot'[p] = slot[p]
  BY DEF SetNil, TypeOK
<1>2. /\ UNCHANGED <<refs, times, db, keeps, from, uses, LiveOptions>> /\ Collect
      /\ altered' = altered \cup {x \in User : from[x] = o}
  BY DEF SetNil, LiveOptions
<1>3. Owned' /\ spent' \subseteq [helper : Shared, no : 0..MaxGiven]
  <2>1. \A i \in Helper : i \in refs' => i \in Wrappers
    BY <1>2 DEF Wrappers
  <2>2. \A x \in User : \E y \in User : uses'[x] \subseteq uses[y]
    BY <1>2
  <2>3. QED
    BY <1>1, <1>2, <2>1, <2>2, NothingNew
<1>4. TypeOK'
  <2>1. altered' \subseteq {x \in User : from'[x] # Nil}
    BY <1>2, Disjoint DEF TypeOK
  <2>2. QED
    BY <1>1, <1>2, <1>3, <2>1 DEF TypeOK
<1>5. Copied' /\ Unopened'
  BY <1>1, <1>2, Disjoint DEF Copied, Unopened, TypeOK
<1>6. QED
  BY <1>3, <1>4, <1>5

\* The application's references change, and nothing else.
LEMMA ReferencesKeep ==
  ASSUME HelpersInv, Collect, UNCHANGED <<slot, times, db, keeps, from, uses, altered>>,
         refs' \subseteq Helper \cup Options,
         refs' \cap Options \subseteq refs,
         \A h \in Helper : h \in refs' => h \in Wrappers
  PROVE  HelpersInv'
<1> USE DEF HelpersInv
<1>1. LiveOptions' \subseteq LiveOptions
  BY DEF LiveOptions
<1>2. \A x \in User : \E y \in User : uses'[x] \subseteq uses[y]
  OBVIOUS
<1>3. Owned' /\ spent' \subseteq [helper : Shared, no : 0..MaxGiven]
  BY <1>1, <1>2, NothingNew
<1>4. TypeOK' /\ Copied' /\ Unopened'
  BY <1>3 DEF TypeOK, Copied, Unopened
<1>5. QED
  BY <1>3, <1>4

LEMMA GetHelperKeeps ==
  ASSUME HelpersInv, NEW o \in Options, NEW h \in Helper, GetHelper(o, h)
  PROVE  HelpersInv'
<1>1. h \in Wrappers /\ refs \cap Helper \subseteq Wrappers
  BY DEF GetHelper, Wrappers, LiveOptions
<1>2. refs' = refs \cup {h} /\ h \notin Options
  BY Disjoint DEF GetHelper
<1>3. QED
  BY <1>1, <1>2, ReferencesKeep DEF GetHelper, HelpersInv, TypeOK

LEMMA LetGoKeeps ==
  ASSUME HelpersInv, NEW x \in Helper \cup Options, LetGo(x)
  PROVE  HelpersInv'
<1>1. refs \cap Helper \subseteq Wrappers
  BY DEF Wrappers
<1>2. QED
  BY <1>1, ReferencesKeep DEF LetGo, HelpersInv, TypeOK

\* A place gets a copy of an options object's native options.
LEMMA CopyKeeps ==
  ASSUME HelpersInv, NEW x \in User, NEW o \in Options, CopyOptions(x, o), from[x] = Nil,
         o \in refs, Collect, UNCHANGED <<refs, slot, times, altered>>,
         db' \in [Database -> {"none", "open", "closed", "gone", "leaked"}],
         keeps' \in [Database -> Options \cup {Nil}],
         \A d \in Database : /\ keeps'[d] \in {keeps[d], o}
                             /\ db'[d] = "none" => db[d] = "none",
         x[1] \in Database => db'[x[1]] # "none"
  PROVE  HelpersInv'
<1> USE DEF HelpersInv
<1>1. /\ from' \in [User -> Options \cup {Nil}] /\ from'[x] = o
      /\ uses' \in [User -> SUBSET Hold] /\ uses'[x] = slot[o]
      /\ \A y \in User \ {x} : from'[y] = from[y] /\ uses'[y] = uses[y]
  BY DEF CopyOptions, TypeOK
<1>2. o \in LiveOptions /\ LiveOptions' \subseteq LiveOptions
  BY DEF LiveOptions
<1>3. Owned' /\ spent' \subseteq [helper : Shared, no : 0..MaxGiven]
  <2>1. \A i \in Helper : i \in refs' => i \in Wrappers
    BY DEF Wrappers
  <2>2. \A y \in User : \/ \E z \in User : uses'[y] \subseteq uses[z]
                        \/ \E p \in LiveOptions : uses'[y] \subseteq slot[p]
    BY <1>1, <1>2
  <2>3. QED
    BY <1>2, <2>1, <2>2, NothingNew
<1>4. TypeOK'
  <2>1. x \notin altered
    BY DEF TypeOK
  <2>2. altered' \subseteq {y \in User : from'[y] # Nil}
    BY <1>1, <2>1 DEF TypeOK
  <2>3. \A y \in User : from'[y] = Nil => uses'[y] = {}
    BY <1>1, Disjoint DEF TypeOK
  <2>4. QED
    BY <1>1, <1>3, <2>2, <2>3 DEF TypeOK
<1>5. Copied' /\ Unopened'
  BY <1>1 DEF Copied, Unopened
<1>6. QED
  BY <1>3, <1>4, <1>5

\* A place is emptied, with no new reference to an options object.
LEMMA RetireKeeps ==
  ASSUME HelpersInv, NEW p, Retire(p), Collect, UNCHANGED <<refs, slot, times>>,
         db' \in [Database -> {"none", "open", "closed", "gone", "leaked"}],
         keeps' \in [Database -> Options \cup {Nil}],
         \A d \in Database : /\ keeps'[d] \in {keeps[d], Nil}
                             /\ db'[d] = "none" => db[d] = "none"
  PROVE  HelpersInv'
<1> USE DEF HelpersInv
<1>1. /\ from' \in [User -> Options \cup {Nil}] /\ uses' \in [User -> SUBSET Hold]
      /\ \A x \in User : IF x[1] = p THEN from'[x] = Nil /\ uses'[x] = {}
                         ELSE from'[x] = from[x] /\ uses'[x] = uses[x]
      /\ altered' = {x \in altered : x[1] # p}
  BY DEF Retire, TypeOK
<1>2. LiveOptions' \subseteq LiveOptions
  BY DEF LiveOptions
<1>3. Owned' /\ spent' \subseteq [helper : Shared, no : 0..MaxGiven]
  <2>1. \A i \in Helper : i \in refs' => i \in Wrappers
    BY DEF Wrappers
  <2>2. \A x \in User : \E y \in User : uses'[x] \subseteq uses[y]
    BY <1>1
  <2>3. QED
    BY <1>2, <2>1, <2>2, NothingNew
<1>4. TypeOK'
  BY <1>1, <1>3 DEF TypeOK
<1>5. Copied' /\ Unopened'
  BY <1>1 DEF Copied, Unopened
<1>6. QED
  BY <1>3, <1>4, <1>5

LEMMA OpenColumnFamiliesKeeps ==
  ASSUME HelpersInv, NEW d \in Database, NEW o \in Options, OpenColumnFamilies(d, o)
  PROVE  HelpersInv'
<1> USE DEF HelpersInv
<1>1. /\ UNCHANGED <<refs, slot, times>> /\ Collect /\ o \in refs
      /\ db' \in [Database -> {"none", "open", "closed", "gone", "leaked"}]
      /\ keeps' \in [Database -> Options \cup {Nil}]
      /\ \A e \in Database : keeps'[e] \in {keeps[e], o}
      /\ db[d] = "none" /\ \A e \in Database : db'[e] = "none" => e # d /\ db[e] = "none"
  BY DEF OpenColumnFamilies, TypeOK
<1>2. /\ from' \in [User -> Options \cup {Nil}] /\ uses' \in [User -> SUBSET Hold]
      /\ \A x \in User : IF x[1] = d
           THEN /\ from'[x] = from[<<Descriptor, x[2]>>]
                /\ uses'[x] = uses[<<Descriptor, x[2]>>]
                /\ <<Descriptor, x[2]>> \in User
           ELSE from'[x] = from[x] /\ uses'[x] = uses[x]
      /\ altered' = altered \cup {x \in User : x[1] = d /\ <<Descriptor, x[2]>> \in altered}
  BY UserPairs DEF OpenColumnFamilies, TypeOK
<1>3. LiveOptions' \subseteq LiveOptions
  BY <1>1 DEF LiveOptions
<1>4. Owned' /\ spent' \subseteq [helper : Shared, no : 0..MaxGiven]
  <2>1. \A i \in Helper : i \in refs' => i \in Wrappers
    BY <1>1 DEF Wrappers
  <2>2. \A x \in User : \E y \in User : uses'[x] \subseteq uses[y]
    BY <1>2
  <2>3. QED
    BY <1>1, <1>3, <2>1, <2>2, NothingNew
<1>5. TypeOK'
  <2>1. \A x \in altered : x[1] # d
    BY <1>1 DEF TypeOK, Unopened
  <2>2. altered' \subseteq {x \in User : from'[x] # Nil}
    BY <1>2, <2>1 DEF TypeOK
  <2>3. ASSUME NEW x \in User, from'[x] = Nil PROVE uses'[x] = {}
    <3>1. CASE x[1] = d
      BY <1>2, <2>3, <3>1 DEF TypeOK
    <3>2. CASE x[1] # d
      BY <1>2, <2>3, <3>2 DEF TypeOK
    <3>3. QED BY <3>1, <3>2
  <2>4. QED
    BY <1>1, <1>2, <1>4, <2>2, <2>3 DEF TypeOK
<1>6. Copied' /\ Unopened'
  BY <1>1, <1>2 DEF Copied, Unopened
<1>7. QED
  BY <1>4, <1>5, <1>6

LEMMA HelpersStep ==
  ASSUME HelpersInv, [Next]_vars
  PROVE  HelpersInv'
<1>1. CASE UNCHANGED vars
  <2>1. UNCHANGED <<Owners, Holds>>
    BY <1>1 DEF vars, Owners, Holds, Wrappers, Plugged, LiveOptions
  <2>2. QED
    BY <1>1, <2>1 DEF vars, HelpersInv, TypeOK, Owned, Copied, Unopened
<1>2. ASSUME NEW o \in Options, NEW h \in Helper, SetHelper(o, h) \/ GetHelper(o, h)
      PROVE  HelpersInv'
  BY <1>2, SetHelperKeeps, GetHelperKeeps
<1>3. ASSUME NEW o \in Options, SetNil(o, MergeOperator) \/ SetNil(o, Factory)
      PROVE  HelpersInv'
  BY <1>3, SetNilKeeps
<1>4. ASSUME NEW x \in Helper \cup Options, LetGo(x) PROVE HelpersInv'
  BY <1>4, LetGoKeeps
<1>5. ASSUME NEW d \in Database, NEW o \in Options, OpenDatabase(d, o)
      PROVE  HelpersInv'
  <2> DEFINE x == <<d, DefaultFamily>>
  <2>1. x \in User /\ x[1] = d
    BY UserPairs, Disjoint
  <2>2. from[x] = Nil
    BY <1>5, <2>1 DEF OpenDatabase, HelpersInv, Unopened
  <2>3. /\ db' \in [Database -> {"none", "open", "closed", "gone", "leaked"}]
        /\ keeps' \in [Database -> Options \cup {Nil}]
        /\ \A e \in Database : /\ keeps'[e] \in {keeps[e], o}
                               /\ db'[e] = "none" => db[e] = "none"
        /\ db'[d] # "none"
    BY <1>5 DEF OpenDatabase, HelpersInv, TypeOK
  <2>4. QED
    BY <1>5, <2>1, <2>2, <2>3, CopyKeeps DEF OpenDatabase
<1>6. ASSUME NEW d \in Database, NEW o \in Options, OpenColumnFamilies(d, o)
      PROVE  HelpersInv'
  BY <1>6, OpenColumnFamiliesKeeps
<1>7. ASSUME NEW d \in Database, NEW f \in Family, NEW o \in Options,
             CreateColumnFamily(d, f, o)
      PROVE  HelpersInv'
  <2>1. <<d, f>> \in User /\ <<d, f>>[1] = d
    BY UserPairs
  <2>2. QED
    BY <1>7, <2>1, CopyKeeps DEF CreateColumnFamily, HelpersInv, TypeOK
<1>8. ASSUME NEW f \in Family, NEW o \in Options, AddColumnFamily(f, o) PROVE HelpersInv'
  <2>1. <<Descriptor, f>> \in User /\ <<Descriptor, f>>[1] \notin Database
    BY UserPairs, Disjoint
  <2>2. QED
    BY <1>8, <2>1, CopyKeeps DEF AddColumnFamily, HelpersInv, TypeOK
<1>9. CASE ForgetDescriptor
  BY <1>9, RetireKeeps DEF ForgetDescriptor, HelpersInv, TypeOK
<1>10. ASSUME NEW d \in Database, Close(d) PROVE HelpersInv'
  BY <1>10, RetireKeeps DEF Close, HelpersInv, TypeOK
<1>11. ASSUME NEW d \in Database, Dealloc(d) PROVE HelpersInv'
  BY <1>11, RetireKeeps DEF Dealloc, HelpersInv, TypeOK
<1>12. ASSUME NEW d \in Database, DeallocUnclosed(d) PROVE HelpersInv'
  <2>1. /\ UNCHANGED <<refs, slot, times, from, uses, altered>> /\ Collect
        /\ db' \in [Database -> {"none", "open", "closed", "gone", "leaked"}]
        /\ keeps' \in [Database -> Options \cup {Nil}]
        /\ \A e \in Database : /\ keeps'[e] \in {keeps[e], Nil}
                               /\ db'[e] = "none" => db[e] = "none"
    BY <1>12 DEF DeallocUnclosed, HelpersInv, TypeOK
  <2>2. LiveOptions' \subseteq LiveOptions
    BY <2>1 DEF LiveOptions
  <2>3. \A i \in Helper : i \in refs' => i \in Wrappers
    BY <2>1 DEF Wrappers
  <2>4. \A x \in User : \E y \in User : uses'[x] \subseteq uses[y]
    BY <2>1
  <2>5. Owned' /\ spent' \subseteq [helper : Shared, no : 0..MaxGiven]
    BY <2>1, <2>2, <2>3, <2>4, NothingNew DEF HelpersInv
  <2>6. QED
    BY <2>1, <2>5 DEF HelpersInv, TypeOK, Copied, Unopened
<1>13. QED
  BY <1>1, <1>2, <1>3, <1>4, <1>5, <1>6, <1>7, <1>8, <1>9, <1>10, <1>11, <1>12 DEF Next

LEMMA HelpersInvariant == Spec => []HelpersInv
BY HelpersInitially, HelpersStep, PTL DEF Spec

-----------------------------------------------------------------------------

\* Options hold at most one helper of each kind, however they are given and
\* replaced, and a closed database or a forgotten descriptor holds none.
THEOREM HelperTypes == Spec => []TypeOK
BY HelpersInvariant, PTL DEF HelpersInv

\* Through any giving, replacing, letting go, opening and closing: whoever
\* copied options that were not changed since, and are kept by the application
\* or by the database opened with them, reaches the wrappers it calls back.
THEOREM CallbacksReach == Spec => []CallbacksReachWrappers
<1>1. ASSUME HelpersInv, NEW x \in User \ altered, from[x] \in LiveOptions
      PROVE  Called(x) \subseteq Wrappers
  <2>1. uses[x] \subseteq slot[from[x]]
    BY <1>1 DEF HelpersInv, Copied
  <2>2. \A b \in uses[x] : b.helper \in Plugged(from[x])
    BY <2>1 DEF Plugged
  <2>3. Plugged(from[x]) \subseteq Wrappers
    BY <1>1 DEF Wrappers
  <2>4. QED
    BY <2>2, <2>3 DEF Called
<1>2. ASSUME HelpersInv, NEW x \in User \ altered,
             from[x] \in refs \/ (x[1] \in Database /\ from[x] = keeps[x[1]])
      PROVE  Called(x) \subseteq Wrappers
  <2>1. CASE from[x] = Nil
    BY <1>2, <2>1 DEF HelpersInv, TypeOK, Called
  <2>2. CASE from[x] # Nil
    <3>1. from[x] \in Options
      BY <1>2, <2>2 DEF HelpersInv, TypeOK
    <3>2. from[x] \in LiveOptions
      BY <1>2, <2>2, <3>1 DEF LiveOptions
    <3>3. QED
      BY <1>1, <1>2, <3>2
  <2>3. QED
    BY <2>1, <2>2
<1>3. HelpersInv => CallbacksReachWrappers
  BY <1>2 DEF CallbacksReachWrappers
<1>4. QED
  BY <1>3, HelpersInvariant, PTL

\* Whatever is replaced, let go, opened and closed: a native object that a
\* database, family or descriptor uses has not been deleted, if its helper was
\* given once and a factory's wrapper, which deletes it too, is still there.
THEOREM NoUseAfterDeletion == Spec => []NotUsedAfterDeletion
<1>1. ASSUME HelpersInv, NEW x \in User, NEW b \in uses[x], NEW a \in spent,
             a.helper = b.helper, times[b.helper] <= 1, b.helper \notin Factory \ Wrappers
      PROVE  FALSE
  <2>1. b \in Hold /\ b \in Holds /\ a \in [helper : Shared, no : 0..MaxGiven]
    BY <1>1, InHolds DEF HelpersInv, TypeOK
  <2>2. b.helper \in Shared /\ b \in Owners
    BY <1>1, <2>1 DEF Owners
  <2>3. a # b
    BY <1>1, <2>2 DEF HelpersInv, Owned
  <2>4. b.no = 1 /\ a.no <= 1
    <3>1. b.no <= times[b.helper] /\ a.no <= times[a.helper]
      BY <2>1, <1>1 DEF HelpersInv, Owned
    <3>2. times[b.helper] \in 0..MaxGiven
      BY <1>1, <2>2 DEF HelpersInv, TypeOK, Helper
    <3>3. QED
      BY <1>1, <2>1, <3>1, <3>2, Disjoint DEF Hold
  <2>5. a.no # 1
    BY <1>1, <2>1, <2>3, <2>4 DEF Hold
  <2>6. a.no = 0
    BY <2>1, <2>4, <2>5, Disjoint
  <2>7. a = WrapperOf(b.helper)
    BY <1>1, <2>1, <2>6 DEF WrapperOf
  <2>8. b.helper \in Factory
    BY <1>1, <2>6 DEF HelpersInv, Owned
  <2>9. a \in Owners
    BY <1>1, <2>7, <2>8 DEF Owners
  <2>10. QED
    BY <1>1, <2>9 DEF HelpersInv, Owned
<1>2. ASSUME HelpersInv, NEW x \in User, NEW b \in uses[x], NEW a \in spent,
             a.helper = b.helper
      PROVE  times[b.helper] > 1 \/ b.helper \in Factory \ Wrappers
  <2>1. b \in Hold /\ times \in [Helper -> 0..MaxGiven]
    BY <1>2 DEF HelpersInv, TypeOK
  <2>2. times[b.helper] \in Int
    BY <2>1, Disjoint DEF Hold
  <2>3. QED
    BY <1>1, <1>2, <2>2
<1>3. HelpersInv => NotUsedAfterDeletion
  BY <1>2 DEF NotUsedAfterDeletion
<1>4. QED
  BY <1>3, HelpersInvariant, PTL

-----------------------------------------------------------------------------
(* Options: they tell the same however they are shared.                    *)

\* What a copy holds is what its object reads back, but for later settings.
Tells(p) ==
  \A o \in Touched \ (copies[p].since \cup Synthesized) :
    o \in copies[p].native <=> o \in changed[copies[p].from]

OptionsInv ==
  /\ OptionsTypeOK
  /\ \A p \in Held : Tells(p)
  /\ "described" \in Held => copies["described"].from \in FamilyOptions
  /\ openedWith # NotOpen =>
       /\ copies["database"].from = parts[openedWith.facade].database
       /\ copies["default"].from = openedWith.family

\* A facade that was made has two objects; one that was not has none.
LEMMA MadeHasParts ==
  ASSUME OptionsTypeOK, NEW f \in Made
  PROVE  parts[f].database \in DatabaseOptions /\ parts[f].family \in FamilyOptions
BY DEF OptionsTypeOK, Made

LEMMA NoneIsNoObject ==
  /\ None \notin Object
  /\ NotOpen \notin [facade : Facade, family : FamilyOptions]
  /\ NoParts \notin [database : DatabaseOptions, family : FamilyOptions]
BY ObjectAssumption DEF Object, NotOpen, NoParts

\* A fresh copy tells what its object does.
LEMMA CopyIsFresh ==
  ASSUME OptionsTypeOK, NEW x \in Object
  PROVE  /\ CopyOf(x) \in Copy
         /\ CopyOf(x).from = x /\ CopyOf(x).since = {}
         /\ CopyOf(x).native = changed[x] \ Synthesized
BY DEF OptionsTypeOK, CopyOf, Copy

LEMMA OptionsInitially == OptionsInit => OptionsInv
<1> SUFFICES ASSUME OptionsInit PROVE OptionsInv
  OBVIOUS
<1>1. OptionsTypeOK
  <2>1. NoCopy \in Copy
    BY DEF Copy, NoCopy
  <2>2. changed \in [Object -> SUBSET Option] /\ \A x \in Object : changed[x] = {}
    BY DEF OptionsInit
  <2>3. QED
    BY <2>1, <2>2 DEF OptionsInit, OptionsTypeOK, Object
<1>2. Held = {}
  BY DEF OptionsInit, Held, NoCopy
<1>3. QED
  BY <1>1, <1>2 DEF OptionsInit, OptionsInv

LEMMA InitWithKeeps ==
  ASSUME OptionsInv, NEW f \in Facade, NEW d \in DatabaseOptions, NEW c \in FamilyOptions,
         InitWithDatabaseOptions(f, d, c)
  PROVE  OptionsInv'
<1> USE DEF InitWithDatabaseOptions
<1>1. /\ parts' \in [Facade -> [database : DatabaseOptions, family : FamilyOptions] \cup {NoParts}]
      /\ f \notin Made /\ Made \subseteq Made'
      /\ \A g \in Made : parts'[g] = parts[g]
  BY NoneIsNoObject DEF OptionsInv, OptionsTypeOK, Made
<1>2. OptionsTypeOK'
  BY <1>1 DEF OptionsInv, OptionsTypeOK
<1>3. openedWith # NotOpen => openedWith.facade \in Made
  BY DEF OptionsInv, OptionsTypeOK
<1>4. QED
  BY <1>1, <1>2, <1>3 DEF OptionsInv, Held, Tells

LEMMA SetOptionKeeps ==
  ASSUME OptionsInv, NEW x \in Object, NEW o \in Touched, SetOption(x, o),
         o \in IF x \in DatabaseOptions THEN DatabaseOption ELSE FamilyOption
  PROVE  OptionsInv'
<1> USE DEF OptionsInv
<1>1. PICK other \in BOOLEAN :
        changed' = [changed EXCEPT ![x] = IF other THEN @ \cup {o} ELSE @ \ {o}]
  BY DEF SetOption
<1>2. /\ changed' \in [Object -> SUBSET Option]
      /\ \A y \in Object : \A p \in Option \ {o} : p \in changed'[y] <=> p \in changed[y]
      /\ \A y \in Object \ {x} : changed'[y] = changed[y]
      /\ changed'[x] \subseteq changed[x] \cup {o}
  BY <1>1, SMTT(30) DEF OptionsTypeOK, Option
<1>3. \A p \in Holder :
        /\ copies[p] \in Copy /\ copies'[p] \in Copy
        /\ copies'[p].from = copies[p].from /\ copies'[p].native = copies[p].native
        /\ copies[p].since \subseteq copies'[p].since
        /\ copies[p].from = x => o \in copies'[p].since \cup Synthesized
  BY SMTT(30) DEF SetOption, OptionsTypeOK, Copy
<1>4. copies' \in [Holder -> Copy]
  BY <1>3 DEF SetOption
<1>5. OptionsTypeOK'
  BY <1>2, <1>4, ObjectAssumption DEF SetOption, OptionsTypeOK, Made, Object
<1>6. Held' = Held
  BY <1>3 DEF Held
<1>7. ASSUME NEW p \in Held PROVE Tells(p)'
  <2>1. copies[p].from \in Object
    BY <1>3 DEF Held, Copy
  <2>2. ASSUME NEW q \in Touched \ (copies'[p].since \cup Synthesized)
        PROVE  q \in changed'[copies[p].from] <=> q \in changed[copies[p].from]
    <3>1. CASE copies[p].from = x
      BY <3>1, <1>1, <1>3, q # o DEF Held, OptionsTypeOK
    <3>2. CASE copies[p].from # x
      BY <3>2, <1>2, <2>1
    <3>3. QED BY <3>1, <3>2
  <2>3. QED
    BY <2>2, <1>3 DEF Tells, Held
<1>8. QED
  BY <1>3, <1>5, <1>6, <1>7 DEF SetOption, Held, Holder

LEMMA DescribeKeeps ==
  ASSUME OptionsInv, NEW c \in FamilyOptions, DescribeDefaultFamily(c)
  PROVE  OptionsInv'
<1>1. CopyOf(c) \in Copy /\ CopyOf(c).from = c
  BY CopyIsFresh DEF OptionsInv, Object
<1>2. /\ copies' \in [Holder -> Copy] /\ copies'["described"] = CopyOf(c)
      /\ \A p \in Holder \ {"described"} : copies'[p] = copies[p]
  BY <1>1 DEF DescribeDefaultFamily, OptionsInv, OptionsTypeOK, Holder
<1>3. OptionsTypeOK'
  BY <1>2 DEF DescribeDefaultFamily, OptionsInv, OptionsTypeOK, Made
<1>4. \A p \in Held' : Tells(p)'
  BY <1>1, <1>2, CopyIsFresh DEF DescribeDefaultFamily, OptionsInv, Tells, Held, Object
<1>5. QED
  BY <1>1, <1>2, <1>3, <1>4 DEF DescribeDefaultFamily, OptionsInv, Holder

LEMMA OpenWithKeeps ==
  ASSUME OptionsInv, NEW f \in Facade, OpenWithOptions(f)
  PROVE  OptionsInv'
<1> DEFINE d == parts[f].database
           c == parts[f].family
<1>1. d \in DatabaseOptions /\ c \in FamilyOptions /\ f \in Made
  BY MadeHasParts DEF OptionsInv, OpenWithOptions
<1>2. /\ CopyOf(d) \in Copy /\ CopyOf(d).from = d
      /\ CopyOf(c) \in Copy /\ CopyOf(c).from = c
  BY <1>1, CopyIsFresh DEF OptionsInv, Object
<1>3. /\ copies' \in [Holder -> Copy]
      /\ copies'["database"] = CopyOf(d) /\ copies'["default"] = CopyOf(c)
      /\ \A p \in Holder \ {"database", "default"} : copies'[p] = copies[p]
  BY <1>2 DEF OpenWithOptions, OptionsInv, OptionsTypeOK, Holder
<1>4. OptionsTypeOK'
  BY <1>1, <1>3 DEF OpenWithOptions, OptionsInv, OptionsTypeOK, Made
<1>5. \A p \in Held' : Tells(p)'
  BY <1>1, <1>2, <1>3, CopyIsFresh DEF OpenWithOptions, OptionsInv, Tells, Held, Object
<1>6. QED
  BY <1>1, <1>2, <1>3, <1>4, <1>5 DEF OpenWithOptions, OptionsInv, Holder, Held

LEMMA OpenDescribedKeeps ==
  ASSUME OptionsInv, NEW f \in Facade, OpenDescribed(f)
  PROVE  OptionsInv'
<1> DEFINE d == parts[f].database
<1>1. d \in DatabaseOptions /\ f \in Made /\ copies["described"].from \in FamilyOptions
  BY MadeHasParts DEF OptionsInv, OpenDescribed
<1>2. CopyOf(d) \in Copy /\ CopyOf(d).from = d
  BY <1>1, CopyIsFresh DEF OptionsInv, Object
<1>3. /\ copies' \in [Holder -> Copy]
      /\ copies'["database"] = CopyOf(d) /\ copies'["default"] = copies["described"]
      /\ \A p \in Holder \ {"database", "default"} : copies'[p] = copies[p]
  BY <1>2 DEF OpenDescribed, OptionsInv, OptionsTypeOK, Holder
<1>4. OptionsTypeOK'
  BY <1>1, <1>3 DEF OpenDescribed, OptionsInv, OptionsTypeOK, Made
<1>5. \A p \in Held' : Tells(p)'
  BY <1>1, <1>2, <1>3, CopyIsFresh DEF OpenDescribed, OptionsInv, Tells, Held, Object
<1>6. QED
  BY <1>1, <1>2, <1>3, <1>4, <1>5 DEF OpenDescribed, OptionsInv, Holder, Held

LEMMA CreateKeeps ==
  ASSUME OptionsInv, NEW c \in FamilyOptions, CreateWithOptions(c)
  PROVE  OptionsInv'
<1>1. CopyOf(c) \in Copy /\ CopyOf(c).from = c
  BY CopyIsFresh DEF OptionsInv, Object
<1>2. /\ copies' \in [Holder -> Copy] /\ copies'["created"] = CopyOf(c)
      /\ \A p \in Holder \ {"created"} : copies'[p] = copies[p]
  BY <1>1 DEF CreateWithOptions, OptionsInv, OptionsTypeOK, Holder
<1>3. OptionsTypeOK'
  BY <1>2 DEF CreateWithOptions, OptionsInv, OptionsTypeOK, Made
<1>4. \A p \in Held' : Tells(p)'
  BY <1>1, <1>2, CopyIsFresh DEF CreateWithOptions, OptionsInv, Tells, Held, Object
<1>5. QED
  BY <1>1, <1>2, <1>3, <1>4 DEF CreateWithOptions, OptionsInv, Holder, Held

LEMMA CloseKeeps ==
  ASSUME OptionsInv, CloseConfigured
  PROVE  OptionsInv'
<1>1. NoCopy \in Copy /\ NoCopy.from = None
  BY DEF Copy, NoCopy
<1>2. /\ copies' \in [Holder -> Copy] /\ copies'["described"] = copies["described"]
      /\ \A p \in Holder \ {"described"} : copies'[p] = NoCopy
  BY <1>1 DEF CloseConfigured, OptionsInv, OptionsTypeOK, Holder
<1>3. OptionsTypeOK'
  BY <1>2 DEF CloseConfigured, OptionsInv, OptionsTypeOK, Made
<1>4. QED
  BY <1>1, <1>2, <1>3 DEF CloseConfigured, OptionsInv, Tells, Held

LEMMA OptionsStep ==
  ASSUME OptionsInv, [OptionsNext]_optionsVars
  PROVE  OptionsInv'
<1>1. CASE UNCHANGED optionsVars
  BY <1>1 DEF optionsVars, OptionsInv, OptionsTypeOK, Tells, Held, Made
<1>2. ASSUME NEW f \in Facade, NEW d \in DatabaseOptions, NEW c \in FamilyOptions,
             InitWithDatabaseOptions(f, d, c)
      PROVE  OptionsInv'
  BY <1>2, InitWithKeeps
<1>3. ASSUME NEW f \in Facade, InitFacade(f) PROVE OptionsInv'
  BY <1>3, InitWithKeeps DEF InitFacade
<1>4. ASSUME NEW f \in Facade, NEW o \in Touched, SetThroughFacade(f, o) PROVE OptionsInv'
  <2>1. parts[f].database \in DatabaseOptions /\ parts[f].family \in FamilyOptions
    BY <1>4, MadeHasParts DEF SetThroughFacade, OptionsInv
  <2>2. PICK x \in Object :
          /\ SetOption(x, o)
          /\ o \in IF x \in DatabaseOptions THEN DatabaseOption ELSE FamilyOption
    BY <1>4, <2>1, ObjectAssumption
    DEF SetThroughFacade, ForwardingTargetForSelector, Object, Option
  <2>3. QED BY <2>2, SetOptionKeeps
<1>5. ASSUME NEW x \in Object, NEW o \in Touched, SetDirectly(x, o) PROVE OptionsInv'
  BY <1>5, SetOptionKeeps DEF SetDirectly
<1>6. ASSUME NEW f \in Facade, OpenWithOptions(f) \/ OpenDescribed(f) PROVE OptionsInv'
  BY <1>6, OpenWithKeeps, OpenDescribedKeeps
<1>7. ASSUME NEW c \in FamilyOptions, DescribeDefaultFamily(c) \/ CreateWithOptions(c)
      PROVE  OptionsInv'
  BY <1>7, DescribeKeeps, CreateKeeps
<1>8. CASE CloseConfigured
  BY <1>8, CloseKeeps
<1>9. QED
  BY <1>1, <1>2, <1>3, <1>4, <1>5, <1>6, <1>7, <1>8 DEF OptionsNext

LEMMA OptionsInvariant == OptionsSpec => []OptionsInv
BY OptionsInitially, OptionsStep, PTL DEF OptionsSpec

\* Every object holds options of its own kind only, through whichever facade
\* they were set, and every copy comes from an object that was configured.
THEOREM OptionsTypes == OptionsSpec => []OptionsTypeOK
BY OptionsInvariant, PTL DEF OptionsInv

\* An open database and its families run with what the application set in the
\* options it opened them with, but for what was set afterwards.
THEOREM OptionsRun == OptionsSpec => []RunsAsConfigured
<1>1. OptionsInv => RunsAsConfigured
  BY DEF OptionsInv, RunsAsConfigured, Tells
<1>2. QED
  BY <1>1, OptionsInvariant, PTL

-----------------------------------------------------------------------------
(* Column families: a handle reaches the family of its name.               *)

\* Numbers are given out once.
Numbered ==
  /\ catalog \in [Name -> 0..created] /\ created \in 0..MaxFamilies
  /\ \A m, n \in Name : catalog[m] = catalog[n] /\ m # n => catalog[m] = 0

\* A family holds data if and only if it was written under its name.
Told ==
  /\ filled \subseteq 1..created /\ wrote \subseteq Listed
  /\ \A n \in Listed : catalog[n] \in filled <=> n \in wrote

\* A handle reaches the family of its name, or one that is no more.
Reaches(h) == h.id <= created /\ (h.id \in Live => catalog[h.name] = h.id)

FamiliesInv ==
  /\ FamiliesTypeOK /\ Told
  /\ open # "no" => Default \in Listed
  /\ \A h \in held \cup ToSet(array) : Reaches(h)

Once(s) == \A i, j \in 1..Len(s) : s[i] = s[j] => i = j

-----------------------------------------------------------------------------
(* What opening creates.                                                   *)

LEMMA AppendedOnce ==
  ASSUME NEW S, NEW s \in Seq(S), NEW x \in S
  PROVE  /\ Append(s, x) \in Seq(S) /\ ToSet(Append(s, x)) = ToSet(s) \cup {x}
         /\ Once(s) /\ x \notin ToSet(s) => Once(Append(s, x))
<1>1. PICK n \in Nat : n = Len(s)
  OBVIOUS
<1>2. /\ Append(s, x) \in Seq(S) /\ Len(Append(s, x)) = n + 1 /\ Append(s, x)[n + 1] = x
      /\ \A i \in 1..n : Append(s, x)[i] = s[i]
  BY <1>1
<1>3. ToSet(s) = {s[i] : i \in 1..n} /\ ToSet(Append(s, x)) = {Append(s, x)[i] : i \in 1..(n + 1)}
  BY <1>1, <1>2 DEF ToSet
<1> DEFINE t == Append(s, x)
<1> HIDE DEF t
<1>4. /\ t \in Seq(S) /\ Len(t) = n + 1 /\ t[n + 1] = x /\ \A i \in 1..n : t[i] = s[i]
      /\ ToSet(t) = {t[i] : i \in 1..(n + 1)}
  BY <1>2, <1>3 DEF t
<1>5. ToSet(t) = ToSet(s) \cup {x}
  <2>1. \A i \in 1..(n + 1) : i = n + 1 \/ i \in 1..n
    OBVIOUS
  <2>2. \A i \in 1..n : i \in 1..(n + 1)
    OBVIOUS
  <2>3. QED
    BY <1>3, <1>4, <2>1, <2>2
<1>6. ASSUME Once(s), x \notin ToSet(s) PROVE Once(t)
  BY <1>1, <1>3, <1>4, <1>6 DEF Once
<1>7. QED
  BY <1>4, <1>5, <1>6 DEF t

\* A name that occurs twice in a descriptor is created once.
LEMMA MissingOnce ==
  ASSUME NEW ns \in Seq(Name)
  PROVE  /\ Missing(ns) \in Seq(Name) /\ Once(Missing(ns))
         /\ ToSet(Missing(ns)) = ({Default} \cup ToSet(ns)) \ Listed
<1> DEFINE all == <<Default>> \o ns
           N == Len(all)
           next(i, s) == IF all[i] \in Listed \cup ToSet(s) THEN s ELSE Append(s, all[i])
           made == CHOOSE f : f = [i \in 0..N |-> IF i = 0 THEN <<>> ELSE next(i, f[i - 1])]
           step == [i \in 1..N |-> [s \in Seq(Name) |-> next(i, s)]]
           Good(i, s) == s \in Seq(Name) /\ Once(s) /\ ToSet(s) = {all[j] : j \in 1..i} \ Listed
           P == {i \in 0..N : Good(i, made[i])}
<1>1. all \in Seq(Name) /\ N \in Nat /\ <<>> \in Seq(Name) /\ \A i \in 1..N : all[i] \in Name
  BY NameAssumption
<1>2. {all[j] : j \in 1..N} = {Default} \cup ToSet(ns)
  <2>1. PICK n \in Nat : n = Len(ns)
    OBVIOUS
  <2>2. N = n + 1 /\ all[1] = Default /\ \A i \in 1..n : all[i + 1] = ns[i]
    BY <2>1, NameAssumption
  <2>3. ToSet(ns) = {ns[i] : i \in 1..n}
    BY <2>1 DEF ToSet
  <2> HIDE DEF all, N
  <2>4. \A i \in 1..n : i + 1 \in 1..(n + 1) /\ 1 \in 1..(n + 1)
    OBVIOUS
  <2>5. ASSUME NEW j \in 1..(n + 1), j # 1 PROVE \E i \in 1..n : j = i + 1
    <3>1. j - 1 \in 1..n /\ j = (j - 1) + 1
      BY <2>5
    <3>2. QED
      BY <3>1
  <2>6. ASSUME NEW j \in 1..N PROVE all[j] \in {Default} \cup ToSet(ns)
    <3>1. CASE j = 1
      BY <2>2, <3>1
    <3>2. CASE \E i \in 1..n : j = i + 1
      BY <2>2, <2>3, <3>2, ZenonT(60)
    <3>3. QED
      BY <2>2, <2>5, <3>1, <3>2
  <2>7. ASSUME NEW i \in 1..n PROVE ns[i] \in {all[j] : j \in 1..N}
    BY <2>2, <2>4
  <2>8. 1 \in 1..N
    BY <2>1, <2>2
  <2>9. QED
    BY <2>2, <2>3, <2>6, <2>7, <2>8
<1>3. Missing(ns) = made[N]
  BY Zenon DEF Missing
<1> HIDE DEF all, N
<1>4. step \in [1..N -> [Seq(Name) -> Seq(Name)]]
  BY <1>1
<1>5. PICK g : IsRun(g, N, Seq(Name), <<>>, step)
  <2> HIDE DEF step
  <2>1. QED
    BY <1>1, <1>4, Recursion
<1>6. \A i \in 1..N : i - 1 \in 0..N /\ g[i] = next(i, g[i - 1])
  <2> HIDE DEF next
  <2>1. \A i \in 1..N : \A s \in Seq(Name) : step[i][s] = next(i, s)
    OBVIOUS
  <2>2. \A i \in 1..N : i - 1 \in 0..N
    BY <1>1
  <2> HIDE DEF step
  <2>3. QED
    BY <1>5, <2>1, <2>2 DEF IsRun
<1>7. made = [i \in 0..N |-> IF i = 0 THEN <<>> ELSE next(i, made[i - 1])]
  <2>1. g = [i \in 0..N |-> IF i = 0 THEN <<>> ELSE next(i, g[i - 1])]
    <3> HIDE DEF next
    <3>1. QED
      BY <1>1, <1>5, <1>6 DEF IsRun
  <2>2. QED
    BY <2>1, Zenon
<1>8. made[0] = <<>> /\ \A i \in 1..N : i - 1 \in 0..N /\ made[i] = next(i, made[i - 1])
  <2> HIDE DEF made, next
  <2>1. QED
    BY <1>1, <1>7
<1> HIDE DEF made, step
<1>9. 0 \in P
  <2>1. ToSet(<<>>) = {} /\ {all[j] : j \in 1..0} = {} /\ Once(<<>>)
    BY DEF ToSet, Once
  <2>2. Good(0, made[0])
    BY <1>1, <1>8, <2>1
  <2> HIDE DEF Good
  <2>3. QED
    BY <1>1, <2>2
<1>10. ASSUME NEW i \in 1..N, i - 1 \in P PROVE i \in P
  <2>1. Good(i - 1, made[i - 1])
    <3> HIDE DEF Good
    <3>1. QED
      BY <1>10
  <2>2. {all[j] : j \in 1..i} = {all[j] : j \in 1..(i - 1)} \cup {all[i]}
    <3>1. 1..i = 1..(i - 1) \cup {i}
      BY <1>1
    <3>2. QED
      BY <3>1
  <2> DEFINE s == made[i - 1]
  <2>3. all[i] \in Name /\ s \in Seq(Name)
    BY <1>1, <2>1
  <2>4. ASSUME all[i] \in Listed \cup ToSet(s) PROVE Good(i, next(i, s))
    <3>1. next(i, s) = s
      BY <2>4
    <3> HIDE DEF next, s
    <3>2. QED
      BY <2>1, <2>2, <2>4, <3>1 DEF s
  <2>5. ASSUME all[i] \notin Listed \cup ToSet(s) PROVE Good(i, next(i, s))
    <3>1. next(i, s) = Append(s, all[i])
      BY <2>5
    <3> HIDE DEF next, s
    <3>2. /\ Append(s, all[i]) \in Seq(Name) /\ Once(Append(s, all[i]))
          /\ ToSet(Append(s, all[i])) = ToSet(s) \cup {all[i]}
      BY <2>1, <2>3, <2>5, AppendedOnce DEF s
    <3>3. QED
      BY <2>1, <2>2, <2>5, <3>1, <3>2 DEF s
  <2>6. Good(i, made[i])
    <3> HIDE DEF next, Good
    <3>1. QED
      BY <1>8, <2>4, <2>5
  <2> HIDE DEF Good
  <2>7. QED
    BY <1>1, <2>6
<1>11. N \in P
  <2> HIDE DEF P
  <2>1. \A i \in 1..N : i - 1 \in P => i \in P
    BY <1>10
  <2>2. \A i \in 0..N : i \in P
    BY <1>1, <1>9, <2>1, Induction
  <2>3. QED
    BY <1>1, <2>2
<1>12. QED
  BY <1>2, <1>3, <1>11

-----------------------------------------------------------------------------
(* The invariant.                                                          *)

LEMMA FamiliesInitially == FamiliesInit => FamiliesInv
<1> SUFFICES ASSUME FamiliesInit PROVE FamiliesInv
  OBVIOUS
<1>1. ToSet(array) = {} /\ <<>> \in Seq(Name) /\ <<>> \in Seq(Handle) /\ Len(<<>>) = 0
  BY DEF FamiliesInit, ToSet
<1>2. Listed = {}
  BY DEF FamiliesInit, Listed
<1>3. FamiliesTypeOK
  BY <1>1, BoundAssumption DEF FamiliesInit, FamiliesTypeOK, NoCall
<1>4. QED
  BY <1>1, <1>2, <1>3 DEF FamiliesInit, FamiliesInv, Told

\* New families get new numbers, and leave the others theirs.
LEMMA CreatesKeeps ==
  ASSUME FamiliesInv, NEW ns \in Seq(Name), Once(ns), ToSet(ns) \cap Listed = {},
         Creates(ns), UNCHANGED <<filled, wrote>>
  PROVE  /\ Numbered' /\ Told' /\ created <= created'
         /\ Listed' = Listed \cup ToSet(ns)
         /\ \A n \in Listed : catalog'[n] = catalog[n]
         /\ \A h \in Handle : Reaches(h) => Reaches(h)'
<1> DEFINE position(n) == CHOOSE i \in 1..Len(ns) : ns[i] = n
<1>1. PICK l \in Nat : l = Len(ns)
  OBVIOUS
<1>2. ToSet(ns) = {ns[i] : i \in 1..l} /\ ToSet(ns) \subseteq Name
  BY <1>1 DEF ToSet
<1>3. \A n \in Name : Contains(ns, n) <=> n \in ToSet(ns)
  BY <1>1, <1>2 DEF Contains
<1>4. \A n \in ToSet(ns) : position(n) \in 1..l /\ ns[position(n)] = n
  BY <1>1, <1>2
<1>5. /\ created' = created + l /\ created' <= MaxFamilies
      /\ catalog' = [n \in Name |-> IF n \in ToSet(ns) THEN created + position(n) ELSE catalog[n]]
  BY <1>1, <1>3 DEF Creates
<1> HIDE DEF position
<1>6. /\ created \in Nat /\ MaxFamilies \in Nat /\ created <= MaxFamilies
      /\ \A n \in Name : catalog[n] \in 0..created
      /\ \A m, n \in Name : catalog[m] = catalog[n] /\ m # n => catalog[m] = 0
      /\ Listed = {n \in Name : catalog[n] # 0}
  BY BoundAssumption DEF FamiliesInv, FamiliesTypeOK, Listed
<1>7. \A n \in ToSet(ns) : catalog'[n] \in (created + 1)..created'
  BY <1>2, <1>4, <1>5, <1>6, SMTT(60)
<1>8. \A n \in Name \ ToSet(ns) : catalog'[n] = catalog[n]
  BY <1>5
<1>9. Numbered'
  <2>1. catalog' \in [Name -> 0..created'] /\ created' \in 0..MaxFamilies
    BY <1>1, <1>4, <1>5, <1>6
  <2>2. ASSUME NEW m \in Name, NEW n \in Name, catalog'[m] = catalog'[n], m # n
        PROVE  catalog'[m] = 0
    <3>1. CASE m \in ToSet(ns) /\ n \in ToSet(ns)
      <4>1. position(m) = position(n)
        BY <1>4, <1>5, <1>6, <2>2, <3>1
      <4>2. QED
        BY <1>4, <2>2, <3>1, <4>1
    <3>2. CASE m \notin ToSet(ns) /\ n \notin ToSet(ns)
      BY <1>6, <1>8, <2>2, <3>2
    <3>3. CASE m \in ToSet(ns) /\ n \notin ToSet(ns)
      BY <1>6, <1>7, <1>8, <2>2, <3>3
    <3>4. CASE m \notin ToSet(ns) /\ n \in ToSet(ns)
      BY <1>6, <1>7, <1>8, <2>2, <3>4
    <3>5. QED
      BY <3>1, <3>2, <3>3, <3>4
  <2>3. QED
    BY <2>1, <2>2 DEF Numbered
<1>10. Listed' = Listed \cup ToSet(ns)
  BY <1>2, <1>6, <1>7, <1>8 DEF Listed
<1>11. \A n \in Listed : catalog'[n] = catalog[n]
  BY <1>6, <1>8
<1>12. Told'
  <2>1. filled \subseteq 1..created /\ wrote \subseteq Listed
        /\ \A n \in Listed : catalog[n] \in filled <=> n \in wrote
    BY DEF FamiliesInv, Told
  <2>2. 1..created \subseteq 1..created'
    BY <1>1, <1>5, <1>6
  <2>3. \A n \in ToSet(ns) : catalog'[n] \notin filled /\ n \notin wrote
    BY <1>6, <1>7, <2>1
  <2>4. QED
    BY <1>10, <1>11, <2>1, <2>2, <2>3 DEF Told
<1>13. ASSUME NEW h \in Handle, Reaches(h) PROVE Reaches(h)'
  <2>1. h.id \in 1..MaxFamilies /\ h.name \in Name /\ h.id <= created
    BY <1>13 DEF Handle, Reaches
  <2>2. ASSUME h.id \in Live' PROVE catalog'[h.name] = h.id
    <3>1. PICK n \in Listed' : catalog'[n] = h.id
      BY <2>2 DEF Live
    <3>2. n \in Listed /\ catalog[n] = h.id
      BY <1>1, <1>6, <1>7, <1>10, <1>11, <2>1, <3>1
    <3>3. catalog[h.name] = h.id
      BY <1>13, <3>2 DEF Reaches, Live
    <3>4. QED
      BY <1>6, <1>11, <2>1, <3>3
  <2>3. QED
    BY <1>1, <1>5, <1>6, <2>1, <2>2 DEF Reaches
<1>14. QED
  BY <1>1, <1>5, <1>6, <1>9, <1>10, <1>11, <1>12, <1>13

\* Every handle the application has, the default one included.
LEMMA HandlesReach ==
  ASSUME FamiliesInv, NEW h \in Handles
  PROVE  h \in Handle /\ Reaches(h)
<1>1. open # "no"
  BY DEF Handles
<1>2. CASE h \in held \cup ToSet(array)
  <2>1. array \in Seq(Handle) /\ held \subseteq Handle
    BY DEF FamiliesInv, FamiliesTypeOK
  <2>2. QED
    BY <1>2, <2>1 DEF FamiliesInv, ToSet
<1>3. CASE h = DefaultHandle
  <2>1. catalog[Default] \in 1..created /\ created <= MaxFamilies /\ created \in Nat
    BY <1>1, NameAssumption, BoundAssumption DEF FamiliesInv, FamiliesTypeOK, Listed
  <2>2. QED
    BY <1>3, <2>1, NameAssumption, BoundAssumption DEF DefaultHandle, Handle, Reaches
<1>4. QED
  BY <1>1, <1>2, <1>3 DEF Handles

\* Dropping takes the families of the handles given, and no other.
LEMMA DropsKeep ==
  ASSUME FamiliesInv, open # "no", NEW hs \in SUBSET Handles, \A h \in hs : CanDrop(h), Drops(hs)
  PROVE  /\ Numbered' /\ Told' /\ Default \in Listed'
         /\ \A h \in Handle : Reaches(h) => Reaches(h)'
         /\ Live' = Live \ {h.id : h \in hs}
<1>1. /\ created \in Nat /\ created <= MaxFamilies
      /\ \A n \in Name : catalog[n] \in 0..created
      /\ \A m, n \in Name : catalog[m] = catalog[n] /\ m # n => catalog[m] = 0
      /\ Listed = {n \in Name : catalog[n] # 0} /\ Live = {catalog[n] : n \in Listed}
  BY BoundAssumption DEF FamiliesInv, FamiliesTypeOK, Listed, Live
<1>2. \A h \in hs : /\ h.id \in Live /\ h.name \in Name /\ catalog[h.name] = h.id
                    /\ h.id # catalog[Default]
  BY HandlesReach DEF Reaches, CanDrop, Handle
<1>3. \A n \in Name : (\E h \in hs : h.id = catalog[n]) <=> n \in {h.name : h \in hs}
  <2>1. \A n \in Listed : (\E h \in hs : h.id = catalog[n]) <=> n \in {h.name : h \in hs}
    BY <1>1, <1>2
  <2>2. \A h \in hs : h.id # 0 /\ h.name \in Listed
    BY <1>1, <1>2
  <2>3. QED
    BY <1>1, <2>1, <2>2
<1>4. /\ created' = created /\ filled' = filled
      /\ catalog' = [n \in Name |-> IF n \in {h.name : h \in hs} THEN 0 ELSE catalog[n]]
      /\ wrote' = wrote \ {h.name : h \in hs}
  BY <1>3 DEF Drops
<1>5. Listed' = Listed \ {h.name : h \in hs}
  BY <1>1, <1>4 DEF Listed
<1>6. \A n \in Listed' : catalog'[n] = catalog[n]
  BY <1>1, <1>4, <1>5
<1>7. Numbered'
  <2>1. catalog' \in [Name -> 0..created'] /\ created' \in 0..MaxFamilies
    BY <1>1, <1>4, BoundAssumption
  <2>2. \A m, n \in Name : catalog'[m] = catalog'[n] /\ m # n => catalog'[m] = 0
    BY <1>1, <1>4
  <2>3. QED
    BY <2>1, <2>2 DEF Numbered
<1>8. Told'
  BY <1>4, <1>5, <1>6 DEF FamiliesInv, Told
<1>9. Default \in Listed'
  BY <1>1, <1>2, <1>5 DEF FamiliesInv
<1>10. Live' = Live \ {h.id : h \in hs}
  <2>1. Live' = {catalog[n] : n \in Listed \ {h.name : h \in hs}}
    BY <1>5, <1>6 DEF Live
  <2>2. \A n \in Listed : n \in {h.name : h \in hs} <=> catalog[n] \in {h.id : h \in hs}
    BY <1>1, <1>3
  <2>3. QED
    BY <1>1, <2>1, <2>2
<1>11. ASSUME NEW h \in Handle, Reaches(h) PROVE Reaches(h)'
  <2>1. h.id <= created'
    BY <1>4, <1>11 DEF Reaches
  <2>2. ASSUME h.id \in Live' PROVE catalog'[h.name] = h.id
    <3>1. PICK n \in Listed' : catalog'[n] = h.id
      BY <2>2 DEF Live
    <3>2. n \in Listed /\ catalog[n] = h.id /\ h.id # 0
      BY <1>1, <1>5, <1>6, <3>1
    <3>3. catalog[h.name] = h.id /\ h.name \in Name
      BY <1>1, <1>11, <3>2 DEF Reaches, Handle
    <3>4. h.name = n
      BY <1>1, <3>2, <3>3
    <3>5. QED
      BY <3>1, <3>4
  <2>3. QED
    BY <2>1, <2>2 DEF Reaches
<1>12. QED
  BY <1>7, <1>8, <1>9, <1>10, <1>11

\* What is dropped are the first families asked for, and could be dropped.
LEMMA DroppedAreFirst ==
  ASSUME NEW hs \in Seq(Handle), DropColumnFamilies(hs)
  PROVE  \E k \in 0..Len(hs) :
           /\ Drops({hs[i] : i \in 1..k}) /\ answer' = [asked |-> hs, told |-> k = Len(hs)]
           /\ \A i \in 1..k : CanDrop(hs[i])
<1>1. PICK result \in DroppedInOrder(hs) :
        Drops(result.dropped) /\ answer' = [asked |-> hs, told |-> result.ok]
  BY DEF DropColumnFamilies
<1>2. PICK k \in 0..Len(hs) :
        /\ result = [dropped |-> {hs[i] : i \in 1..k}, ok |-> k = Len(hs)]
        /\ \A i \in 1..k : CanDrop(hs[i])
  BY DEF DroppedInOrder
<1>3. result.dropped = {hs[i] : i \in 1..k} /\ result.ok = (k = Len(hs))
  BY <1>2
<1>4. QED
  BY <1>1, <1>2, <1>3

\* While the database is closed the application has no handle.
LEMMA ClosedHasNone ==
  ASSUME FamiliesInv, open = "no"
  PROVE  held = {} /\ ToSet(array) = {}
BY DEF FamiliesInv, FamiliesTypeOK

\* Opening makes the families there are to be, and a handle for each name.
Opened(ns) ==
  /\ open = "no" /\ open' \in {"read-write", "read-only"}
  /\ \/ Creates(Missing(ns))
     \/ OpensReadOnly(ns) /\ UNCHANGED <<catalog, created>>
  /\ \/ array' = array
     \/ array' = HandlesFor(ns) /\ Len(ns) <= MaxDescribed
  /\ descriptor' = <<>> /\ answer' = NoCall /\ UNCHANGED <<filled, wrote, held>>

LEMMA OpeningKeeps ==
  ASSUME FamiliesInv, NEW ns \in Seq(Name), Opened(ns)
  PROVE  FamiliesInv'
<1> USE DEF Opened
<1>1. Missing(ns) \in Seq(Name) /\ Once(Missing(ns)) /\ ToSet(Missing(ns)) \cap Listed = {}
      /\ {Default} \cup ToSet(ns) \subseteq Listed \cup ToSet(Missing(ns))
  BY MissingOnce
<1>2. /\ Numbered' /\ Told' /\ {Default} \cup ToSet(ns) \subseteq Listed'
  <2>1. CASE Creates(Missing(ns))
    BY <1>1, <2>1, CreatesKeeps
  <2>2. CASE OpensReadOnly(ns) /\ UNCHANGED <<catalog, created>>
    BY <2>2 DEF OpensReadOnly, FamiliesInv, FamiliesTypeOK, Numbered, Told, Listed
  <2>3. QED
    BY <2>1, <2>2
<1>3. /\ array' \in Seq(Handle) /\ Len(array') <= MaxDescribed
      /\ \A h \in ToSet(array') : Reaches(h)'
  <2>1. CASE array' = array
    BY <2>1, ClosedHasNone DEF FamiliesInv, FamiliesTypeOK
  <2>2. CASE array' = HandlesFor(ns) /\ Len(ns) <= MaxDescribed
    <3>1. PICK n \in Nat : n = Len(ns)
      OBVIOUS
    <3>2. \A i \in 1..n : ns[i] \in Name /\ ns[i] \in Listed'
      BY <1>2, <3>1 DEF ToSet
    <3>3. created' \in Nat /\ created' <= MaxFamilies
          /\ \A m \in Listed' : catalog'[m] \in 1..created'
      BY <1>2, BoundAssumption DEF Numbered, Listed
    <3>4. array' = [i \in 1..n |-> [name |-> ns[i], id |-> catalog'[ns[i]]]]
      BY <2>2, <3>1 DEF HandlesFor
    <3>5. ASSUME NEW i \in 1..n, NEW h, h = array'[i] PROVE h \in Handle /\ Reaches(h)'
      <4>1. /\ h = [name |-> ns[i], id |-> catalog'[ns[i]]]
            /\ h.name = ns[i] /\ h.id = catalog'[ns[i]]
        BY <3>4, <3>5
      <4>2. ns[i] \in Name /\ catalog'[ns[i]] \in 1..created'
        BY <3>2, <3>3
      <4>3. catalog'[ns[i]] \in 1..MaxFamilies /\ catalog'[ns[i]] <= created'
        BY <3>3, <4>2, BoundAssumption
      <4>4. h \in Handle
        BY <4>1, <4>2, <4>3 DEF Handle
      <4>5. Reaches(h)'
        BY <4>1, <4>3 DEF Reaches
      <4>6. QED
        BY <4>4, <4>5
    <3>6. array' \in Seq(Handle) /\ Len(array') = n
      <4>1. array' \in [1..n -> Handle]
        BY <3>4, <3>5
      <4>2. QED
        BY <4>1
    <3>7. ToSet(array') = {array'[i] : i \in 1..n}
      BY <3>4 DEF ToSet
    <3>8. QED
      BY <2>2, <3>1, <3>5, <3>6, <3>7
  <2>3. QED
    BY <2>1, <2>2
<1>4. held' = {}
  BY ClosedHasNone
<1>5. FamiliesTypeOK'
  <2>1. <<>> \in Seq(Name) /\ <<>> \in Seq(Handle) /\ Len(<<>>) = 0
    OBVIOUS
  <2>2. wrote' \subseteq Name /\ filled' \subseteq 1..created'
    BY <1>2 DEF Told, Listed
  <2>3. \A h \in held' \cup ToSet(array') : open' # "no" /\ h.id <= created'
    BY <1>3, <1>4 DEF Reaches
  <2>4. QED
    BY <1>2, <1>3, <1>4, <2>1, <2>2, <2>3, BoundAssumption DEF FamiliesTypeOK, Numbered, NoCall
<1>6. QED
  BY <1>2, <1>3, <1>4, <1>5 DEF FamiliesInv

LEMMA FamiliesStep ==
  ASSUME FamiliesInv, [FamiliesNext]_familiesVars
  PROVE  FamiliesInv'
<1> USE DEF familyVars, handleVars
<1>1. <<>> \in Seq(Handle) /\ <<>> \in Seq(Name) /\ Len(<<>>) = 0
  OBVIOUS
<1>2. ASSUME UNCHANGED familyVars
      PROVE  Numbered' /\ Told' /\ Listed' = Listed /\ \A h : Reaches(h)' <=> Reaches(h)
  BY <1>2 DEF FamiliesInv, FamiliesTypeOK, Numbered, Told, Listed, Reaches, Live
<1>3. CASE UNCHANGED familiesVars
  BY <1>3 DEF familiesVars, FamiliesInv, FamiliesTypeOK, Told, Listed, Reaches, Live
<1>4. ASSUME NEW n \in Name, AddColumnFamilyWithName(n) PROVE FamiliesInv'
  <2>1. descriptor' \in Seq(Name) /\ Len(descriptor') <= MaxDescribed
    BY <1>4, BoundAssumption DEF AddColumnFamilyWithName, FamiliesInv, FamiliesTypeOK
  <2>2. FamiliesTypeOK'
    BY <1>1, <1>4, <2>1 DEF AddColumnFamilyWithName, FamiliesInv, FamiliesTypeOK, NoCall
  <2>3. QED
    BY <1>2, <1>4, <2>2 DEF AddColumnFamilyWithName, FamiliesInv
<1>5. CASE NewDescriptor
  <2>1. FamiliesTypeOK'
    BY <1>1, <1>5, BoundAssumption DEF NewDescriptor, FamiliesInv, FamiliesTypeOK, NoCall
  <2>2. QED
    BY <1>2, <1>5, <2>1 DEF NewDescriptor, FamiliesInv
<1>6. CASE DatabaseAtPath
  <2>1. <<Default>> \in Seq(Name)
    BY NameAssumption
  <2> DEFINE ns == <<Default>>
  <2>2. Opened(ns)
    <3>1. /\ open = "no" /\ open' \in {"read-write", "read-only"}
          /\ \/ Creates(Missing(ns))
             \/ OpensReadOnly(ns) /\ UNCHANGED <<catalog, created>>
          /\ descriptor' = <<>> /\ answer' = NoCall /\ UNCHANGED <<filled, wrote, array, held>>
      BY <1>6 DEF DatabaseAtPath
    <3> HIDE DEF ns
    <3>2. QED
      BY <3>1 DEF Opened
  <2>3. QED
    BY <2>1, <2>2, OpeningKeeps
<1>7. CASE DatabaseAtPathColumnFamilies
  <2>1. descriptor \in Seq(Name) /\ Len(descriptor) <= MaxDescribed
    BY DEF FamiliesInv, FamiliesTypeOK
  <2>2. Opened(descriptor)
    BY <1>7, <2>1 DEF DatabaseAtPathColumnFamilies, Opened
  <2>3. QED
    BY <2>1, <2>2, OpeningKeeps
<1>8. CASE OpenFails
  <2>1. PICK ns \in Seq(Name) : Once(ns) /\ ToSet(ns) \cap Listed = {} /\ Creates(ns)
    <3>1. CASE Listed = {} /\ Creates(<<Default>>)
      <4>1. <<Default>> \in Seq(Name) /\ Once(<<Default>>)
        BY NameAssumption DEF Once
      <4>2. QED
        BY <3>1, <4>1
    <3>2. ASSUME NEW k \in 1..Len(Missing(descriptor)),
                 Creates(SubSeq(Missing(descriptor), 1, k))
          PROVE  \E ns \in Seq(Name) : Once(ns) /\ ToSet(ns) \cap Listed = {} /\ Creates(ns)
      <4> DEFINE m == Missing(descriptor)  s == SubSeq(m, 1, k)
      <4>1. m \in Seq(Name) /\ Once(m) /\ ToSet(m) \cap Listed = {}
        BY MissingOnce DEF FamiliesInv, FamiliesTypeOK
      <4> HIDE DEF m
      <4>2. s \in Seq(Name) /\ Len(s) = k /\ \A i \in 1..k : i \in 1..Len(m) /\ s[i] = m[i]
        BY <4>1 DEF m
      <4> HIDE DEF s
      <4>3. ToSet(s) \subseteq ToSet(m)
        BY <4>1, <4>2 DEF ToSet
      <4>4. Once(s)
        BY <4>1, <4>2 DEF Once
      <4>5. Creates(s)
        BY <3>2 DEF s, m
      <4>6. QED
        BY <4>1, <4>2, <4>3, <4>4, <4>5
    <3>3. QED
      BY <1>8, <3>1, <3>2 DEF OpenFails
  <2>2. UNCHANGED <<filled, wrote, handleVars, descriptor>> /\ answer' = NoCall /\ open = "no"
    BY <1>8 DEF OpenFails
  <2>3. Numbered' /\ Told'
    BY <2>1, <2>2, CreatesKeeps
  <2>4. FamiliesTypeOK'
    <3>1. wrote' \subseteq Name /\ filled' \subseteq 1..created'
      BY <2>3 DEF Told, Listed
    <3>2. held' = {} /\ ToSet(array)' = {}
      BY <2>2, ClosedHasNone
    <3>3. QED
      BY <1>1, <2>2, <2>3, <3>1, <3>2 DEF FamiliesInv, FamiliesTypeOK, Numbered, NoCall
  <2>5. QED
    BY <2>2, <2>3, <2>4, ClosedHasNone DEF FamiliesInv
<1>9. CASE CloseDatabase
  <2>1. ToSet(<<>>) = {}
    BY DEF ToSet
  <2>2. FamiliesTypeOK'
    BY <1>1, <1>9, <2>1, BoundAssumption DEF CloseDatabase, FamiliesInv, FamiliesTypeOK, NoCall
  <2>3. QED
    BY <1>2, <1>9, <2>1, <2>2 DEF CloseDatabase, FamiliesInv
<1>10. CASE DestroyDatabase
  <2>1. Listed' = {} /\ open' = "no" /\ held' = {} /\ ToSet(array)' = {}
    BY <1>10, ClosedHasNone DEF DestroyDatabase, Listed
  <2>2. FamiliesTypeOK'
    BY <1>1, <1>10, <2>1, BoundAssumption
    DEF DestroyDatabase, FamiliesInv, FamiliesTypeOK, NoCall
  <2>3. QED
    BY <1>10, <2>1, <2>2 DEF DestroyDatabase, FamiliesInv, Told
<1>11. ASSUME NEW n \in Name, CreateColumnFamilyWithName(n) PROVE FamiliesInv'
  <2>1. <<n>> \in Seq(Name) /\ Once(<<n>>) /\ ToSet(<<n>>) = {n} /\ Len(<<n>>) = 1
    BY DEF Once, ToSet
  <2>2. /\ n \notin Listed /\ Creates(<<n>>) /\ held' = held \cup {[name |-> n, id |-> created']}
        /\ UNCHANGED <<filled, wrote, open, array, descriptor>> /\ answer' = NoCall
        /\ open # "no"
    BY <1>11 DEF CreateColumnFamilyWithName
  <2>3. /\ Numbered' /\ Told' /\ created <= created' /\ Listed' = Listed \cup {n}
        /\ \A h \in Handle : Reaches(h) => Reaches(h)'
    BY <2>1, <2>2, CreatesKeeps
  <2>4. created' = created + 1 /\ catalog'[n] = created'
    <3>1. Contains(<<n>>, n) /\ \A i \in 1..1 : i = 1
      BY <2>1 DEF Contains
    <3>2. (CHOOSE i \in 1..Len(<<n>>) : <<n>>[i] = n) = 1
      BY <2>1
    <3>3. QED
      BY <2>1, <2>2, <3>1, <3>2 DEF Creates
  <2>5. PICK new \in Handle : new = [name |-> n, id |-> created'] /\ Reaches(new)'
    <3>1. created' \in 1..MaxFamilies /\ created' <= created'
      BY <2>3, <2>4, BoundAssumption DEF Numbered, FamiliesInv, FamiliesTypeOK
    <3>2. ASSUME NEW h, h = [name |-> n, id |-> created'] PROVE h \in Handle /\ Reaches(h)'
      BY <2>4, <3>1, <3>2 DEF Handle, Reaches
    <3>3. QED
      BY <3>2
  <2>6. held \subseteq Handle /\ array \in Seq(Handle) /\ ToSet(array) \subseteq Handle
    BY DEF FamiliesInv, FamiliesTypeOK, ToSet
  <2>7. \A h \in held' \cup ToSet(array') : Reaches(h)'
    <3>1. held' = held \cup {new} /\ ToSet(array') = ToSet(array)
      BY <2>2, <2>5
    <3>2. \A h \in held \cup ToSet(array) : h \in Handle /\ Reaches(h)
      BY <2>6 DEF FamiliesInv
    <3>3. QED
      BY <2>3, <2>5, <3>1, <3>2
  <2>8. FamiliesTypeOK'
    <3>1. wrote' \subseteq Name /\ filled' \subseteq 1..created' /\ held' \subseteq Handle
      BY <2>2, <2>3, <2>5, <2>6 DEF Told, Listed
    <3>2. \A h \in held' \cup ToSet(array') : open' # "no" /\ h.id <= created'
      BY <2>2, <2>7 DEF Reaches
    <3>3. QED
      BY <1>1, <2>2, <2>3, <3>1, <3>2 DEF FamiliesInv, FamiliesTypeOK, Numbered, NoCall
  <2>9. QED
    BY <2>2, <2>3, <2>7, <2>8 DEF FamiliesInv
<1>12. ASSUME open = "read-write", NEW hs \in SUBSET Handles, \A h \in hs : CanDrop(h), Drops(hs),
              answer'.asked \in Seq(Handle), answer'.told \in BOOLEAN
       PROVE  FamiliesInv'
  <2>1. /\ Numbered' /\ Told' /\ Default \in Listed'
        /\ \A h \in Handle : Reaches(h) => Reaches(h)'
    BY <1>12, DropsKeep
  <2>2. UNCHANGED <<open, array, held, descriptor>>
    BY <1>12 DEF Drops
  <2>3. held \subseteq Handle /\ array \in Seq(Handle) /\ ToSet(array) \subseteq Handle
    BY DEF FamiliesInv, FamiliesTypeOK, ToSet
  <2>4. \A h \in held' \cup ToSet(array') : Reaches(h)'
    BY <2>1, <2>2, <2>3 DEF FamiliesInv
  <2>5. FamiliesTypeOK'
    <3>1. wrote' \subseteq Name /\ filled' \subseteq 1..created'
      BY <2>1 DEF Told, Listed
    <3>2. \A h \in held' \cup ToSet(array') : open' # "no" /\ h.id <= created'
      BY <1>12, <2>2, <2>4 DEF Reaches
    <3>3. QED
      BY <1>12, <2>1, <2>2, <3>1, <3>2 DEF FamiliesInv, FamiliesTypeOK, Numbered
  <2>6. QED
    BY <2>1, <2>4, <2>5 DEF FamiliesInv
<1>13. ASSUME NEW h \in Handles, DropColumnFamily(h) PROVE FamiliesInv'
  <2>1. open = "read-write" /\ CanDrop(h) /\ Drops({h}) /\ answer' = NoCall
    BY <1>13 DEF DropColumnFamily
  <2>2. QED
    BY <1>1, <1>12, <2>1 DEF NoCall
<1>14. ASSUME NEW h \in Handles, Write(h) PROVE FamiliesInv'
  <2>1. h \in Handle /\ h.id \in Live /\ catalog[h.name] = h.id /\ h.name \in Name
    BY <1>14, HandlesReach DEF Write, Reaches, Handle
  <2>2. h.id \in 1..created /\ h.name \in Listed
    BY <2>1 DEF FamiliesInv, FamiliesTypeOK, Live, Listed
  <2>3. /\ filled' = filled \cup {h.id} /\ wrote' = wrote \cup {h.name} /\ answer' = NoCall
        /\ UNCHANGED <<catalog, created, open, array, held, descriptor>>
    BY <1>14 DEF Write
  <2>4. Listed' = Listed /\ \A g : Reaches(g)' <=> Reaches(g)
    BY <2>3 DEF Listed, Live, Reaches
  <2>5. \A n \in Listed : catalog[n] = h.id <=> n = h.name
    BY <2>1, <2>2 DEF FamiliesInv, FamiliesTypeOK, Listed
  <2>6. Told'
    BY <2>2, <2>3, <2>4, <2>5 DEF FamiliesInv, Told
  <2>7. FamiliesTypeOK'
    BY <1>1, <2>1, <2>2, <2>3 DEF FamiliesInv, FamiliesTypeOK, NoCall
  <2>8. QED
    BY <2>3, <2>4, <2>6, <2>7 DEF FamiliesInv
<1>15. ASSUME NEW g \in Handles, NEW h \in Handles, DropColumnFamilies(<<g, h>>) PROVE FamiliesInv'
  <2> DEFINE hs == <<g, h>>
  <2>1. hs \in Seq(Handle) /\ Len(hs) = 2 /\ \A i \in 1..2 : hs[i] \in Handles
    BY HandlesReach
  <2> HIDE DEF hs
  <2>2. PICK k \in 0..2 :
          /\ Drops({hs[i] : i \in 1..k}) /\ answer' = [asked |-> hs, told |-> k = 2]
          /\ \A i \in 1..k : CanDrop(hs[i])
    BY <1>15, <2>1, DroppedAreFirst DEF hs
  <2> DEFINE gone == {hs[i] : i \in 1..k}
  <2>3. /\ open = "read-write" /\ Drops(gone) /\ answer' = [asked |-> hs, told |-> k = 2]
    BY <1>15, <2>2 DEF DropColumnFamilies
  <2>4. gone \in SUBSET Handles /\ \A x \in gone : CanDrop(x)
    BY <2>1, <2>2
  <2> HIDE DEF gone
  <2>5. QED
    BY <1>12, <2>1, <2>3, <2>4
<1>16. QED
  BY <1>3, <1>4, <1>5, <1>6, <1>7, <1>8, <1>9, <1>10, <1>11, <1>13, <1>14, <1>15, NameAssumption
  DEF FamiliesNext, AddDefaultColumnFamilyWithOptions

LEMMA FamiliesInvariant == FamiliesSpec => []FamiliesInv
BY FamiliesInitially, FamiliesStep, PTL DEF FamiliesSpec

\* Numbers, names, handles and descriptors keep their types: in particular no
\* two names have one family, and a closed database has left no handle.
THEOREM FamiliesTypes == FamiliesSpec => []FamiliesTypeOK
BY FamiliesInvariant, PTL DEF FamiliesInv

\* Whatever was opened, dropped and created anew: a handle reaches the family
\* of its name, which holds what was written under it, or one that is gone.
THEOREM HandlesReachFamilies == FamiliesSpec => []HandlesReachTheirFamily
<1>1. ASSUME FamiliesInv PROVE HandlesReachTheirFamily
  <2>1. SUFFICES ASSUME NEW h \in Handles, h.id \in Live
                 PROVE  catalog[h.name] = h.id /\ (h.id \in filled <=> h.name \in wrote)
    BY DEF HandlesReachTheirFamily
  <2>2. h \in Handle /\ catalog[h.name] = h.id /\ h.name \in Name
    BY <1>1, <2>1, HandlesReach DEF Reaches, Handle
  <2>3. h.name \in Listed
    BY <1>1, <2>1, <2>2 DEF Live, Listed
  <2>4. QED
    BY <1>1, <2>2, <2>3 DEF FamiliesInv, Told
<1>2. QED
  BY <1>1, FamiliesInvariant, PTL

\* What is answered to the drop of several families tells which are gone.
THEOREM BulkDropsTell == FamiliesSpec => BulkDropTells
<1> DEFINE Accounts ==
      answer'.asked # <<>> =>
        LET asked == answer'.asked
            gone  == Live \ Live'
        IN IF answer'.told
             THEN \A i \in 1..Len(asked) : asked[i].id \in gone
             ELSE \E k \in 0..(Len(asked) - 1) :
                    gone = {asked[i].id : i \in 1..k}
<1>1. ASSUME FamiliesInv, [FamiliesNext]_familiesVars PROVE [Accounts]_familiesVars
  <2>1. CASE answer'.asked = <<>> \/ UNCHANGED familiesVars
    BY <2>1
  <2>2. ASSUME NEW g \in Handles, NEW h \in Handles, DropColumnFamilies(<<g, h>>) PROVE Accounts
    <3> DEFINE hs == <<g, h>>
    <3>1. hs \in Seq(Handle) /\ Len(hs) = 2 /\ \A i \in 1..2 : hs[i] \in Handles
      BY <1>1, HandlesReach
    <3> HIDE DEF hs
    <3>2. PICK k \in 0..2 :
            /\ Drops({hs[i] : i \in 1..k}) /\ answer' = [asked |-> hs, told |-> k = 2]
            /\ \A i \in 1..k : CanDrop(hs[i])
      BY <2>2, <3>1, DroppedAreFirst DEF hs
    <3> DEFINE dropped == {hs[i] : i \in 1..k}
    <3>3. open = "read-write" /\ Drops(dropped) /\ answer' = [asked |-> hs, told |-> k = 2]
      BY <2>2, <3>2 DEF DropColumnFamilies
    <3>4. dropped \in SUBSET Handles /\ \A x \in dropped : CanDrop(x)
      BY <3>1, <3>2
    <3>5. Live' = Live \ {x.id : x \in dropped}
      <4> HIDE DEF dropped
      <4>1. QED
        BY <1>1, <3>3, <3>4, DropsKeep
    <3>6. {x.id : x \in dropped} = {hs[i].id : i \in 1..k}
      OBVIOUS
    <3>7. {hs[i].id : i \in 1..k} \subseteq Live
      BY <3>2 DEF CanDrop
    <3>8. Live \ Live' = {hs[i].id : i \in 1..k}
      BY <3>5, <3>6, <3>7
    <3>9. CASE k = 2
      BY <3>1, <3>3, <3>8, <3>9
    <3>10. CASE k # 2
      <4>1. k \in 0..1
        BY <3>10
      <4>2. Len(hs) = 2 /\ answer'.asked = hs /\ answer'.told = FALSE /\ k \in 0..(Len(hs) - 1)
        <5>1. answer'.asked = hs /\ answer'.told = (k = 2)
          BY <3>3
        <5>2. 0..1 = 0..(Len(hs) - 1)
          BY <3>1
        <5>3. QED
          BY <3>1, <3>10, <4>1, <5>1, <5>2
      <4>3. Live \ Live' = {hs[i].id : i \in 1..k}
        BY <3>8
      <4> HIDE DEF dropped
      <4>4. QED
        BY <4>2, <4>3, Zenon
    <3>11. QED
      BY <3>9, <3>10
  <2>3. QED
    <3> HIDE DEF Accounts
    <3>1. CASE FamiliesNext /\ ~\E g, h \in Handles : DropColumnFamilies(<<g, h>>)
      <4>1. answer' = NoCall
        BY <3>1
        DEF FamiliesNext, AddColumnFamilyWithName, CreateColumnFamilyWithName, NewDescriptor,
          AddDefaultColumnFamilyWithOptions, DatabaseAtPath, DatabaseAtPathColumnFamilies,
          OpenFails, CloseDatabase, DestroyDatabase, DropColumnFamily, Write
      <4>2. QED
        BY <2>1, <4>1 DEF NoCall
    <3>2. QED
      BY <1>1, <2>1, <2>2, <3>1
<1>2. QED
  BY <1>1, FamiliesInvariant, PTL DEF FamiliesSpec, BulkDropTells
=============================================================================
