------------------------ MODULE RocksDBLifecycleProofs ------------------------
(***************************************************************************)
(* Proofs about RocksDBLifecycle, for any number of threads, handles,      *)
(* iterators and snapshots.  CloseInv is inductive for every application,  *)
(* CarefulInv for one that keeps the rules.                                *)
(***************************************************************************)
EXTENDS RocksDBLifecycle, TLAPS

\* @synchronized(self) admits one thread, and only -close: moves _db on.
LockInv ==
  /\ \A t \in Thread : owner = t <=> pc[t] \in LockedPc
  /\ \A t \in Thread : pc[t] = "delete" => db = "shut"
  /\ phase \in {"new", "failed"} <=> db = "none"

CloseInv == TypeOK /\ LockInv /\ ClosedIsFinal /\ DeletedOnce

\* Before the database is open there is nothing to use, and nobody uses it.
Unopened ==
  phase \in {"new", "failed"} =>
    /\ \A t \in Thread : pc[t] = "idle"
    /\ \A o \in Native : native[o] = "none"
    /\ ~made

\* A close has the object to itself, and leaves nothing that needs the database.
CloseAlone ==
  /\ Closing => Quiet /\ ChildrenClosed
  /\ db \in {"shut", "freed"} => Quiet /\ ~Live(Child) /\ ~Live(Snapshot)

\* What an operation in flight works on exists, and is its own when released.
UsesLive ==
  \A t \in Thread :
    /\ pc[t] \in UsingPc => db = "open"
    /\ pc[t] \in UsingPc /\ using[t] # Nothing => native[using[t]] # "freed"
    /\ pc[t] = "release" =>
         /\ using[t] \in Snapshot /\ native[using[t]] = "live"
         /\ \A u \in Thread \ {t} : pc[u] \in UsingPc => using[u] # using[t]

\* The pointer in a wrapper and the native handle tell the same story.
WrapperTruth ==
  /\ \A w \in Wrapper : wrap[w] = "held" => native[HandleOf(w)] = "live"
  /\ \A w \in Wrapper : wrap[w] = "nil" => native[HandleOf(w)] = "freed"
  /\ \A v, w \in Wrapper :
       HandleOf(v) = HandleOf(w) /\ wrap[v] # "none" /\ wrap[w] # "none" => v = w
  /\ vector => \A w \in Wrapper : wrap[w] # "none" => w \in array
  /\ vector => \A f \in Family :
       (\A w \in Wrapper : HandleOf(w) = f => wrap[w] = "none") => native[f] = "live"

\* One thread fills the array at a time, with the handles not yet wrapped.
AccessorInv ==
  /\ \A t, u \in Thread : pc[t] \in FillingPc /\ pc[u] \in FillingPc => t = u
  /\ \A t \in Thread : pc[t] \in FillingPc => vector
  /\ \A t \in Thread : pc[t] = "looked" => ~made
  /\ \A t \in Thread : pc[t] = "fill" =>
       /\ made
       /\ \A w \in Wrapper : HandleOf(w) \in todo[t] => wrap[w] = "none"
  /\ ~made => \A w \in Wrapper : wrap[w] = "none"
  /\ made => \A f \in Family :
       \/ \E t \in Thread : pc[t] = "fill" /\ f \in todo[t]
       \/ \E w \in Wrapper : HandleOf(w) = f /\ wrap[w] # "none"

\* How far the thread inside -close: has come with the wrappers.
DropInv ==
  /\ \A t \in Thread : pc[t] = "handles" =>
       \A w \in Wrapper : wrap[w] = "held" => w \in pending
  /\ \A t \in Thread : pc[t] \in {"native", "delete"} => ~vector
  /\ db \in {"shut", "freed"} => ~vector
  /\ ~vector => \A w \in Wrapper : wrap[w] # "held"

Orderly ==
  /\ NoMisuse /\ Unopened /\ CloseAlone /\ UsesLive
  /\ WrapperTruth /\ AccessorInv /\ DropInv

CarefulInv == CloseInv /\ Orderly

-----------------------------------------------------------------------------
(* Type correctness.                                                       *)

LEMMA WrapperParts ==
  /\ \A w \in Wrapper : MakerOf(w) \in Thread /\ HandleOf(w) \in Family
  /\ \A t \in Thread, f \in Family :
       <<t, f>> \in Wrapper /\ HandleOf(<<t, f>>) = f
BY DEF Wrapper, MakerOf, HandleOf

LEMMA MisuseType ==
  ASSUME faults \subseteq Fault,
         NEW kind \in {"use after free", "double free"},
         NEW o \in Native \cup {"db", "vector"},
         Misuse(kind, o)
  PROVE  faults' \subseteq Fault
<1>1. <<kind, o>> \in Fault
  BY DEF Fault
<1>2. QED BY <1>1 DEF Misuse

LEMMA CloseHandleOfType ==
  ASSUME TypeOK, NEW w \in Wrapper, CloseHandleOf(w)
  PROVE  /\ wrap' \in [Wrapper -> {"none", "held", "nil"}]
         /\ native' \in [Native -> {"none", "live", "freed"}]
         /\ faults' \subseteq Fault
<1>1. HandleOf(w) \in Native
  BY WrapperParts DEF Native
<1>2. faults' \subseteq Fault
  BY <1>1, MisuseType DEF TypeOK, CloseHandleOf
<1>3. QED BY <1>1, <1>2 DEF TypeOK, CloseHandleOf

LEMMA InitType == Init => TypeOK
BY ThreadAssumption, ZenonT(60) DEF Init, TypeOK

LEMMA OpenType == TypeOK /\ Open => TypeOK'
BY DEF TypeOK, Open, OpenDatabase, OpenColumnFamilies, OpenFails,
       arrayVars, lockVars, callVars

LEMMA CallType ==
  ASSUME TypeOK, NEW t \in Thread, Call(t)
  PROVE  TypeOK'
<1> USE DEF TypeOK, arrayVars, lockVars, callVars, Returns,
            ClosingPc, UsingPc, FillingPc
<1>1. ASSUME NEW o \in Native \cup {Nothing}, BeginUse(t, o) PROVE TypeOK'
  BY <1>1 DEF BeginUse
<1>2. ASSUME NEW s \in Snapshot, BeginRelease(t, s) PROVE TypeOK'
  BY <1>2 DEF BeginRelease, Native
<1>3. ASSUME NEW o \in Child, CloseChild(t, o) PROVE TypeOK'
  <2>1. o \in Native
    BY DEF Native, Child
  <2>2. faults' \subseteq Fault
    BY <1>3, MisuseType DEF CloseChild
  <2>3. QED BY <1>3, <2>1, <2>2 DEF CloseChild
<1>4. ASSUME NEW w \in Wrapper, CloseWrapper(t, w) PROVE TypeOK'
  BY <1>4, CloseHandleOfType DEF CloseWrapper
<1>5. CASE AskWithoutVector(t) \/ AskCached(t) \/ AskUncached(t)
  BY <1>5, ZenonT(60) DEF AskWithoutVector, AskCached, AskUncached
<1>6. CASE CallClose(t) \/ Dealloc(t) \/ IsClosed(t)
  BY <1>6, ZenonT(60) DEF CallClose, Dealloc, IsClosed
<1>7. QED BY <1>1, <1>2, <1>3, <1>4, <1>5, <1>6, Zenon DEF Call

LEMMA StepType ==
  ASSUME TypeOK, NEW t \in Thread, Step(t)
  PROVE  TypeOK'
<1> USE DEF TypeOK, arrayVars, lockVars, callVars, Returns, LeavesClose,
            ClosingPc, UsingPc, FillingPc
<1>1. CASE EndUse(t)
  <2>1. faults' \subseteq Fault
    <3>1. (IF db = "freed" \/ using[t] = Nothing THEN "db" ELSE using[t])
            \in Native \cup {"db", "vector"}
      OBVIOUS
    <3>2. QED BY <1>1, <3>1, MisuseType DEF EndUse
  <2>2. using[t] # Nothing => using[t] \in Native
    OBVIOUS
  <2>3. QED BY <1>1, <2>1, <2>2 DEF EndUse
<1>2. CASE EndRelease(t)
  <2>1. using[t] \in Snapshot /\ Snapshot \subseteq Native
    BY <1>2 DEF EndRelease, Native
  <2>2. faults' \subseteq Fault
    BY <1>2, <2>1, MisuseType DEF EndRelease
  <2>3. QED BY <1>2, <2>1, <2>2 DEF EndRelease
<1>3. CASE MakeArray(t) \/ ReturnArray(t)
  BY <1>3, ZenonT(60) DEF MakeArray, ReturnArray
<1>4. ASSUME NEW f \in Family, AddHandle(t, f) PROVE TypeOK'
  <2>1. faults' \subseteq Fault
    BY <1>4, MisuseType DEF AddHandle
  <2>2. <<t, f>> \in Wrapper
    BY WrapperParts
  <2>3. array' \subseteq Wrapper /\ wrap' \in [Wrapper -> {"none", "held", "nil"}]
    BY <1>4, <2>2 DEF AddHandle
  <2>4. todo' \in [Thread -> SUBSET Family]
    BY <1>4 DEF AddHandle
  <2>5. QED BY <1>4, <2>1, <2>3, <2>4 DEF AddHandle
<1>5. CASE EnterClose(t) \/ DropHandles(t)
  BY <1>5, ZenonT(60) DEF EnterClose, DropHandles
<1>6. ASSUME NEW w \in Wrapper, CloseHandle(t, w) PROVE TypeOK'
  BY <1>6, CloseHandleOfType DEF CloseHandle
<1>7. CASE CloseFindsNull(t) \/ CloseRefused(t) \/ CloseFails(t) \/ CloseNative(t)
  BY <1>7, ZenonT(60) DEF CloseFindsNull, CloseRefused, CloseFails, CloseNative
<1>8. CASE DeleteDb(t)
  <2>1. faults' \subseteq Fault
    BY <1>8, MisuseType DEF DeleteDb
  <2>2. QED BY <1>8, <2>1 DEF DeleteDb
<1>9. QED
  BY <1>1, <1>2, <1>3, <1>4, <1>5, <1>6, <1>7, <1>8, Zenon DEF Step

LEMMA NextType == TypeOK /\ [Next]_vars => TypeOK'
<1> SUFFICES ASSUME TypeOK, [Next]_vars PROVE TypeOK'
  OBVIOUS
<1>1. CASE UNCHANGED vars
  BY <1>1 DEF vars, TypeOK, arrayVars, lockVars, callVars
<1>2. CASE Next
  BY <1>2, OpenType, CallType, StepType DEF Next
<1>3. QED BY <1>1, <1>2

\* Every variable keeps its type, whatever the application does.
THEOREM TypeCorrect == Spec => []TypeOK
BY InitType, NextType, PTL DEF Spec

-----------------------------------------------------------------------------
(* The lock alone makes the close safe, whatever the application does.     *)

\* Only DeleteDb can record a second deletion of the database.
LEMMA OtherMisuse ==
  ASSUME DeletedOnce,
         NEW kind, NEW o \in Native \cup {"db", "vector"},
         kind = "use after free" \/ o \in Native,
         Misuse(kind, o)
  PROVE  DeletedOnce'
<1>1. <<kind, o>> # <<"double free", "db">>
  BY NativeAssumption
<1>2. QED BY <1>1 DEF DeletedOnce, Misuse

LEMMA CloseHandleOfDeletedOnce ==
  ASSUME DeletedOnce, NEW w \in Wrapper, CloseHandleOf(w)
  PROVE  DeletedOnce'
<1>1. HandleOf(w) \in Native
  BY WrapperParts DEF Native
<1>2. CASE UNCHANGED faults
  BY <1>2 DEF DeletedOnce
<1>3. CASE Misuse("double free", HandleOf(w))
  BY <1>1, <1>3, OtherMisuse
<1>4. CASE Misuse("use after free", "db")
  BY <1>4, OtherMisuse
<1>5. QED BY <1>2, <1>3, <1>4 DEF CloseHandleOf

LEMMA OpenClose == CloseInv /\ Open => LockInv' /\ ClosedIsFinal' /\ DeletedOnce'
<1> SUFFICES ASSUME CloseInv, Open
             PROVE  LockInv' /\ ClosedIsFinal' /\ DeletedOnce'
  OBVIOUS
<1>1. UNCHANGED <<owner, pc, answer, faults>> /\ phase \in {"new", "failed"}
  BY DEF Open, OpenDatabase, OpenColumnFamilies, OpenFails, lockVars, callVars
<1>2. db = "none"
  BY <1>1 DEF CloseInv, LockInv
<1>3. \A t \in Thread : pc[t] # "delete" /\ answer[t] # "closed"
  BY <1>2 DEF CloseInv, LockInv, ClosedIsFinal
<1>4. phase' \in {"new", "failed"} <=> db' = "none"
  BY <1>2 DEF Open, OpenDatabase, OpenColumnFamilies, OpenFails
<1>5. LockInv'
  BY <1>1, <1>3, <1>4 DEF CloseInv, LockInv
<1>6. QED BY <1>1, <1>3, <1>5 DEF CloseInv, ClosedIsFinal, DeletedOnce

\* A step that leaves the lock and the database alone, and moves its thread
\* neither into nor out of the locked part of a close.
LEMMA Outside ==
  ASSUME CloseInv, NEW t \in Thread,
         UNCHANGED <<phase, db, owner>>, DeletedOnce',
         pc' = pc \/ \E p \in {"idle", "wait"} \cup UsingPc \cup FillingPc :
                      pc' = [pc EXCEPT ![t] = p],
         pc'[t] = pc[t] \/ pc[t] \notin LockedPc,
         answer' = answer \/ \E a : answer' = [answer EXCEPT ![t] = a]
                                   /\ (a = "closed" => db = "freed")
  PROVE  LockInv' /\ ClosedIsFinal' /\ DeletedOnce'
<1> USE DEF CloseInv, TypeOK
<1>1. \A u \in Thread : pc'[u] = pc[u] \/ (pc'[u] \notin LockedPc /\ pc[u] \notin LockedPc)
  BY DEF LockedPc, UsingPc, FillingPc
<1>2. LockInv'
  BY <1>1 DEF LockInv, LockedPc
<1>3. \A u \in Thread : answer'[u] = "closed" => db' = "freed"
  BY DEF ClosedIsFinal
<1>4. QED BY <1>2, <1>3 DEF ClosedIsFinal

LEMMA CallClosed ==
  ASSUME CloseInv, NEW t \in Thread, Call(t)
  PROVE  LockInv' /\ ClosedIsFinal' /\ DeletedOnce'
<1> USE DEF CloseInv, arrayVars, lockVars, callVars, Returns,
            LockedPc, UsingPc, FillingPc
<1>1. ASSUME NEW o \in Native \cup {Nothing}, BeginUse(t, o)
      PROVE  LockInv' /\ ClosedIsFinal' /\ DeletedOnce'
  BY <1>1, Outside DEF BeginUse, DeletedOnce
<1>2. ASSUME NEW s \in Snapshot, BeginRelease(t, s)
      PROVE  LockInv' /\ ClosedIsFinal' /\ DeletedOnce'
  BY <1>2, Outside DEF BeginRelease, DeletedOnce
<1>3. ASSUME NEW o \in Child, CloseChild(t, o)
      PROVE  LockInv' /\ ClosedIsFinal' /\ DeletedOnce'
  <2>1. DeletedOnce'
    BY <1>3, OtherMisuse DEF CloseChild, DeletedOnce
  <2>2. QED BY <1>3, <2>1, Outside DEF CloseChild
<1>4. ASSUME NEW w \in Wrapper, CloseWrapper(t, w)
      PROVE  LockInv' /\ ClosedIsFinal' /\ DeletedOnce'
  <2>1. DeletedOnce'
    BY <1>4, CloseHandleOfDeletedOnce DEF CloseWrapper
  <2>2. QED BY <1>4, <2>1, Outside DEF CloseWrapper
<1>5. CASE AskWithoutVector(t) \/ AskCached(t) \/ AskUncached(t)
  BY <1>5, Outside, ZenonT(60) DEF AskWithoutVector, AskCached, AskUncached, DeletedOnce
<1>6. CASE CallClose(t)
  BY <1>6, Outside DEF CallClose, DeletedOnce
<1>7. CASE Dealloc(t)
  <2>1. \A u \in Thread : pc[u] = "idle"
    BY <1>7 DEF Dealloc
  <2>2. \A u \in Thread : owner # u
    BY <2>1 DEF LockInv
  <2>3. LockInv'
    BY <1>7, <2>1, <2>2 DEF Dealloc, LockInv, TypeOK
  <2>4. QED BY <1>7, <2>3 DEF Dealloc, ClosedIsFinal, DeletedOnce
<1>8. CASE IsClosed(t)
  <2>1. DeletedOnce'
    BY <1>8 DEF IsClosed, DeletedOnce
  <2>2. CASE db = "freed"
    BY <1>8, <2>1, <2>2, Outside DEF IsClosed
  <2>3. CASE db # "freed"
    <3>1. "still open" # "closed"
      OBVIOUS
    <3>2. \E a : answer' = [answer EXCEPT ![t] = a] /\ (a = "closed" => db = "freed")
      BY <1>8, <2>3, <3>1 DEF IsClosed
    <3>3. QED BY <1>8, <2>1, <3>2, Outside DEF IsClosed
  <2>4. QED BY <2>2, <2>3
<1>9. QED
  BY <1>1, <1>2, <1>3, <1>4, <1>5, <1>6, <1>7, <1>8, Zenon DEF Call

LEMMA StepClosed ==
  ASSUME CloseInv, NEW t \in Thread, Step(t)
  PROVE  LockInv' /\ ClosedIsFinal' /\ DeletedOnce'
<1> USE DEF CloseInv, arrayVars, lockVars, callVars, Returns, LeavesClose,
            LockedPc, UsingPc, FillingPc
<1>1. CASE EndUse(t)
  <2>1. DeletedOnce'
    <3>1. (IF db = "freed" \/ using[t] = Nothing THEN "db" ELSE using[t])
            \in Native \cup {"db", "vector"}
      BY DEF TypeOK
    <3>2. QED BY <1>1, <3>1, OtherMisuse DEF EndUse, DeletedOnce
  <2>2. QED BY <1>1, <2>1, Outside DEF EndUse, TypeOK
<1>2. CASE EndRelease(t)
  <2>1. using[t] \in Native
    BY <1>2 DEF EndRelease, TypeOK, Native
  <2>2. DeletedOnce'
    BY <1>2, <2>1, OtherMisuse DEF EndRelease, DeletedOnce
  <2>3. QED BY <1>2, <2>2, Outside DEF EndRelease, TypeOK
<1>3. CASE MakeArray(t) \/ ReturnArray(t)
  BY <1>3, Outside DEF MakeArray, ReturnArray, DeletedOnce, TypeOK
<1>4. ASSUME NEW f \in Family, AddHandle(t, f)
      PROVE  LockInv' /\ ClosedIsFinal' /\ DeletedOnce'
  <2>1. DeletedOnce'
    BY <1>4, OtherMisuse DEF AddHandle, DeletedOnce
  <2>2. QED BY <1>4, <2>1, Outside DEF AddHandle
<1>5. CASE EnterClose(t)
  <2>1. \A u \in Thread : owner # u
    BY <1>5, ThreadAssumption DEF EnterClose
  <2>2. LockInv'
    BY <1>5, <2>1 DEF EnterClose, LockInv, TypeOK
  <2>3. QED BY <1>5, <2>2 DEF EnterClose, ClosedIsFinal, DeletedOnce
<1>6. ASSUME NEW w \in Wrapper, CloseHandle(t, w)
      PROVE  LockInv' /\ ClosedIsFinal' /\ DeletedOnce'
  <2>1. DeletedOnce'
    BY <1>6, CloseHandleOfDeletedOnce DEF CloseHandle
  <2>2. QED BY <1>6, <2>1 DEF CloseHandle, LockInv, ClosedIsFinal
<1>7. CASE DropHandles(t)
  BY <1>7 DEF DropHandles, LockInv, ClosedIsFinal, DeletedOnce, TypeOK
<1>8. CASE CloseFindsNull(t) \/ CloseRefused(t) \/ CloseFails(t)
  <2>1. owner = t /\ owner' = NoThread /\ \A u \in Thread \ {t} : pc[u] \notin LockedPc
    BY <1>8 DEF CloseFindsNull, CloseRefused, CloseFails, LockInv
  <2>2. UNCHANGED <<phase, faults>> /\ pc' = [pc EXCEPT ![t] = "idle"]
    BY <1>8 DEF CloseFindsNull, CloseRefused, CloseFails
  <2>3. db' = db \/ (db = "open" /\ db' = "shut")
    BY <1>8 DEF CloseFindsNull, CloseRefused, CloseFails
  <2>4. LockInv'
    BY <2>1, <2>2, <2>3, ThreadAssumption DEF LockInv, TypeOK
  <2>5. ClosedIsFinal'
    BY <1>8, <2>3 DEF CloseFindsNull, CloseRefused, CloseFails, ClosedIsFinal, TypeOK
  <2>6. QED BY <2>2, <2>4, <2>5 DEF DeletedOnce
<1>9. CASE CloseNative(t)
  BY <1>9 DEF CloseNative, LockInv, ClosedIsFinal, DeletedOnce, TypeOK
<1>10. CASE DeleteDb(t)
  <2>1. owner = t /\ db = "shut" /\ \A u \in Thread \ {t} : pc[u] \notin LockedPc
    BY <1>10 DEF DeleteDb, LockInv
  <2>2. LockInv'
    BY <1>10, <2>1, ThreadAssumption DEF DeleteDb, LockInv, TypeOK
  <2>3. QED BY <1>10, <2>1, <2>2 DEF DeleteDb, ClosedIsFinal, DeletedOnce, TypeOK
<1>11. QED
  BY <1>1, <1>2, <1>3, <1>4, <1>5, <1>6, <1>7, <1>8, <1>9, <1>10, Zenon DEF Step

LEMMA CloseInvInductive ==
  /\ Init => CloseInv
  /\ CloseInv /\ [Next]_vars => CloseInv'
<1>1. Init => CloseInv
  BY InitType, ThreadAssumption
  DEF Init, CloseInv, LockInv, LockedPc, ClosedIsFinal, DeletedOnce
<1>2. ASSUME CloseInv, [Next]_vars PROVE CloseInv'
  <2>1. TypeOK'
    BY <1>2, NextType DEF CloseInv
  <2>2. CASE UNCHANGED vars
    BY <1>2, <2>1, <2>2
    DEF vars, arrayVars, lockVars, callVars, CloseInv, LockInv, LockedPc,
        ClosedIsFinal, DeletedOnce
  <2>3. CASE Next
    BY <1>2, <2>1, <2>3, OpenClose, CallClosed, StepClosed DEF Next, CloseInv
  <2>4. QED BY <1>2, <2>2, <2>3
<1>3. QED BY <1>1, <1>2

\* However closes race with each other and with operations, the database is
\* deleted at most once.
THEOREM DatabaseDeletedOnce == Spec => []DeletedOnce
BY CloseInvInductive, PTL DEF Spec, CloseInv

\* A close that answered YES, or isClosed that did, is never contradicted.
THEOREM ClosedForGood == Spec => []ClosedIsFinal
BY CloseInvInductive, PTL DEF Spec, CloseInv

-----------------------------------------------------------------------------
(* A careful application: what a step leaves alone.                        *)

\* No thread moves into, out of or inside the program points of P.
Keeps(P) == \A u \in Thread : pc'[u] = pc[u] \/ (pc[u] \notin P /\ pc'[u] \notin P)

LEMMA KeepsMove ==
  ASSUME TypeOK, NEW t \in Thread, NEW q, NEW P,
         pc' = [pc EXCEPT ![t] = q], pc[t] \notin P, q \notin P
  PROVE  Keeps(P)
BY DEF Keeps, TypeOK

LEMMA UsesFrame ==
  ASSUME UsesLive, Keeps(UsingPc), UNCHANGED <<db, native, using>>
  PROVE  UsesLive'
BY DEF UsesLive, Keeps, UsingPc

LEMMA WrapperFrame ==
  ASSUME WrapperTruth, UNCHANGED <<native, arrayVars>>
  PROVE  WrapperTruth'
BY DEF WrapperTruth, arrayVars

\* Natives other than the handles of the database may come and go.
LEMMA WrapperFrameNative ==
  ASSUME WrapperTruth, UNCHANGED arrayVars,
         \A f \in Family : native'[f] = native[f]
  PROVE  WrapperTruth'
<1>1. \A w \in Wrapper : HandleOf(w) \in Family
  BY WrapperParts
<1>2. QED BY <1>1 DEF WrapperTruth, arrayVars

LEMMA AccessorFrame ==
  ASSUME AccessorInv, Keeps(FillingPc), UNCHANGED <<vector, made, wrap, todo>>
  PROVE  AccessorInv'
BY DEF AccessorInv, Keeps, FillingPc

LEMMA DropFrame ==
  ASSUME DropInv, Keeps(LockedPc), UNCHANGED <<db, vector, wrap, pending>>
  PROVE  DropInv'
BY DEF DropInv, Keeps, LockedPc

\* No thread begins anything that a close excludes, or begins a close.
LEMMA AloneFrame ==
  ASSUME CloseAlone, db' = db,
         \A u \in Thread : pc'[u] = pc[u] \/ pc'[u] = "idle",
         \A o \in Native : native'[o] = "live" => native[o] = "live"
  PROVE  CloseAlone'
<1>1. Closing' => Closing
  BY DEF Closing, ClosingPc
<1>2. Quiet => Quiet'
  BY DEF Quiet, UsingPc, FillingPc
<1>3. (Live(Child)' => Live(Child)) /\ (Live(Snapshot)' => Live(Snapshot))
  BY DEF Live, Native, Child
<1>4. QED BY <1>1, <1>2, <1>3 DEF CloseAlone, ChildrenClosed

\* While an operation or the accessor runs, nobody closes.
LEMMA BusyAlone ==
  ASSUME CloseAlone, NEW t \in Thread, pc[t] \in UsingPc \cup FillingPc
  PROVE  ~Closing /\ db \notin {"shut", "freed"}
BY DEF CloseAlone, Quiet

LEMMA OpenAlone ==
  ASSUME TypeOK, ~Closing, db \notin {"shut", "freed"}, NEW t \in Thread, NEW q,
         pc' = [pc EXCEPT ![t] = q], q \notin ClosingPc, db' = db
  PROVE  CloseAlone'
<1>1. ~Closing'
  BY DEF Closing, TypeOK
<1>2. QED BY <1>1 DEF CloseAlone

\* Calls and their steps happen on an object that has been opened.
LEMMA Opened ==
  ASSUME CarefulInv, NEW t \in Thread, Call(t) \/ Step(t)
  PROVE  phase \notin {"new", "failed"}
<1> USE DEF CarefulInv, Orderly, Unopened
<1>1. CASE pc[t] # "idle"
  BY <1>1
<1>2. CASE \E o \in Native : native[o] # "none"
  BY <1>2
<1>3. CASE phase = "open"
  BY <1>3
<1>4. CASE \E w \in Wrapper : wrap[w] # "none"
  BY <1>4 DEF AccessorInv
<1>5. CASE Call(t)
  BY <1>1, <1>2, <1>3, <1>4, <1>5
  DEF Call, BeginUse, BeginRelease, CloseChild, CloseWrapper, AskWithoutVector,
      AskCached, AskUncached, CallClose, Dealloc, IsClosed, Native, Child
<1>6. CASE Step(t)
  BY <1>1, <1>6
  DEF Step, EndUse, EndRelease, MakeArray, AddHandle, ReturnArray, EnterClose,
      CloseHandle, DropHandles, CloseFindsNull, CloseRefused, CloseFails,
      CloseNative, DeleteDb
<1>7. QED BY <1>5, <1>6

-----------------------------------------------------------------------------
(* A careful application: operations.                                      *)

LEMMA OrderlyBeginUse ==
  ASSUME Careful, CarefulInv, NEW t \in Thread,
         NEW o \in Native \cup {Nothing}, BeginUse(t, o)
  PROVE  CloseAlone' /\ UsesLive' /\ WrapperTruth' /\ AccessorInv' /\ DropInv' /\ NoMisuse'
<1> USE DEF CarefulInv, CloseInv, Orderly
<1>1. /\ pc[t] = "idle" /\ pc' = [pc EXCEPT ![t] = "use"]
      /\ using' = [using EXCEPT ![t] = o]
      /\ UNCHANGED <<phase, db, native, arrayVars, lockVars, todo, faults>>
  BY DEF BeginUse
<1>2. /\ ~Closing /\ db = "open"
      /\ o # Nothing => /\ native[o] # "freed"
                        /\ \A u \in Thread : ~(pc[u] = "release" /\ using[u] = o)
  BY DEF BeginUse, MayUseDb, MayUse
<1>3. CloseAlone'
  BY <1>1, <1>2, OpenAlone DEF ClosingPc
<1>4. UsesLive'
  <2>1. \A u \in Thread \ {t} : pc'[u] = pc[u] /\ using'[u] = using[u]
    BY <1>1 DEF TypeOK
  <2>2. pc'[t] = "use" /\ using'[t] = o
    BY <1>1 DEF TypeOK
  <2>3. \A u \in Thread \ {t} : pc[u] = "release" => using[u] # o
    <3>1. \A u \in Thread : pc[u] = "release" => using[u] \in Native
      BY DEF TypeOK, Native
    <3>2. QED BY <1>2, <3>1, NativeAssumption
  <2>4. QED BY <1>1, <1>2, <2>1, <2>2, <2>3 DEF UsesLive, UsingPc
<1>5. WrapperTruth' /\ NoMisuse'
  BY <1>1, WrapperFrame DEF arrayVars, NoMisuse
<1>6. AccessorInv'
  BY <1>1, KeepsMove, AccessorFrame DEF FillingPc, arrayVars
<1>7. DropInv'
  BY <1>1, KeepsMove, DropFrame DEF LockedPc, arrayVars, lockVars
<1>8. QED BY <1>3, <1>4, <1>5, <1>6, <1>7

LEMMA OrderlyEndUse ==
  ASSUME Careful, CarefulInv, NEW t \in Thread, EndUse(t)
  PROVE  CloseAlone' /\ UsesLive' /\ WrapperTruth' /\ AccessorInv' /\ DropInv' /\ NoMisuse'
<1> USE DEF CarefulInv, CloseInv, Orderly
<1>1. /\ pc[t] = "use" /\ pc' = [pc EXCEPT ![t] = "idle"]
      /\ using' = [using EXCEPT ![t] = Nothing]
      /\ UNCHANGED <<phase, db, arrayVars, lockVars, todo>>
  BY DEF EndUse
<1>2. ~Closing /\ db \notin {"shut", "freed"}
  BY <1>1, BusyAlone DEF UsingPc
<1>3. using[t] # Nothing => native[using[t]] # "freed"
  BY <1>1 DEF UsesLive, UsingPc
<1>4. /\ UNCHANGED faults
      /\ \/ UNCHANGED native
         \/ /\ using[t] \in Native /\ native[using[t]] = "none"
            /\ native' = [native EXCEPT ![using[t]] = "live"]
  BY <1>2, <1>3 DEF EndUse, TypeOK
<1>5. \A o \in Native : native'[o] = native[o] \/ (native[o] = "none" /\ native'[o] = "live")
  BY <1>4 DEF TypeOK
<1>6. CloseAlone'
  BY <1>1, <1>2, OpenAlone DEF ClosingPc
<1>7. UsesLive'
  <2>1. \A u \in Thread \ {t} : pc'[u] = pc[u] /\ using'[u] = using[u]
    BY <1>1 DEF TypeOK
  <2>2. pc'[t] = "idle"
    BY <1>1 DEF TypeOK
  <2>3. \A u \in Thread : using[u] \in Native \cup {Nothing}
    BY DEF TypeOK
  <2>4. \A o \in Native : /\ native[o] # "freed" => native'[o] # "freed"
                          /\ native[o] = "live" => native'[o] = "live"
    BY <1>5
  <2>5. Snapshot \subseteq Native
    BY DEF Native
  <2>6. QED BY <1>1, <2>1, <2>2, <2>3, <2>4, <2>5 DEF UsesLive, UsingPc
<1>8. WrapperTruth'
  <2>1. \A w \in Wrapper : HandleOf(w) \in Native
    BY WrapperParts DEF Native
  <2>2. \A f \in Family : f \in Native
    BY DEF Native
  <2>3. QED BY <1>1, <1>5, <2>1, <2>2 DEF WrapperTruth, arrayVars
<1>9. AccessorInv'
  BY <1>1, KeepsMove, AccessorFrame DEF FillingPc, arrayVars
<1>10. DropInv' /\ NoMisuse'
  BY <1>1, <1>4, KeepsMove, DropFrame DEF LockedPc, arrayVars, lockVars, NoMisuse
<1>11. QED BY <1>6, <1>7, <1>8, <1>9, <1>10

LEMMA OrderlyCloseChild ==
  ASSUME Careful, CarefulInv, NEW t \in Thread, NEW o \in Child, CloseChild(t, o)
  PROVE  CloseAlone' /\ UsesLive' /\ WrapperTruth' /\ AccessorInv' /\ DropInv' /\ NoMisuse'
<1> USE DEF CarefulInv, CloseInv, Orderly
<1>1. o \in Native /\ o # Nothing /\ o \notin Family
  BY NativeAssumption DEF Native, Child
<1>2. /\ UNCHANGED <<phase, db, arrayVars, lockVars, callVars>>
      /\ ~UsedBy(o)
      /\ native' = native \/ (native[o] = "live" /\ native' = [native EXCEPT ![o] = "freed"])
  BY DEF CloseChild, MayCloseIt
<1>3. \A p \in Native : native'[p] = native[p] \/ (p = o /\ native'[p] = "freed")
  BY <1>1, <1>2 DEF TypeOK
<1>4. NoMisuse'
  <2>1. native[o] = "live" => db # "freed"
    BY DEF CloseAlone, Live
  <2>2. QED BY <2>1 DEF CloseChild, NoMisuse
<1>5. CloseAlone'
  BY <1>2, <1>3, AloneFrame DEF callVars
<1>6. UsesLive'
  <2>1. \A u \in Thread : pc[u] \in UsingPc => using[u] # o
    BY <1>2 DEF UsedBy
  <2>2. \A u \in Thread : using[u] \in Native \cup {Nothing}
    BY DEF TypeOK
  <2>3. "release" \in UsingPc /\ Snapshot \subseteq Native
    BY DEF UsingPc, Native
  <2>4. QED BY <1>2, <1>3, <2>1, <2>2, <2>3 DEF UsesLive, callVars
<1>7. WrapperTruth'
  <2>1. \A f \in Family : native'[f] = native[f]
    BY <1>1, <1>3 DEF Native
  <2>2. QED BY <1>2, <2>1, WrapperFrameNative
<1>8. AccessorInv' /\ DropInv'
  BY <1>2, AccessorFrame, DropFrame DEF Keeps, callVars, arrayVars, lockVars
<1>9. QED BY <1>4, <1>5, <1>6, <1>7, <1>8

LEMMA OrderlyBeginRelease ==
  ASSUME Careful, CarefulInv, NEW t \in Thread, NEW s \in Snapshot, BeginRelease(t, s)
  PROVE  CloseAlone' /\ UsesLive' /\ WrapperTruth' /\ AccessorInv' /\ DropInv' /\ NoMisuse'
<1> USE DEF CarefulInv, CloseInv, Orderly
<1>1. /\ pc[t] = "idle" /\ pc' = [pc EXCEPT ![t] = "release"]
      /\ using' = [using EXCEPT ![t] = s]
      /\ UNCHANGED <<phase, db, native, arrayVars, lockVars, todo, faults>>
  BY DEF BeginRelease
<1>2. /\ ~Closing /\ db = "open"
      /\ native[s] = "live"
      /\ \A u \in Thread : pc[u] \in UsingPc => using[u] # s
  BY DEF BeginRelease, MayUseDb, MayUse, MayCloseIt, UsedBy, TypeOK, Native
<1>3. CloseAlone'
  BY <1>1, <1>2, OpenAlone DEF ClosingPc
<1>4. UsesLive'
  <2>1. \A u \in Thread \ {t} : pc'[u] = pc[u] /\ using'[u] = using[u]
    BY <1>1 DEF TypeOK
  <2>2. pc'[t] = "release" /\ using'[t] = s
    BY <1>1 DEF TypeOK
  <2>3. QED BY <1>1, <1>2, <2>1, <2>2 DEF UsesLive, UsingPc
<1>5. WrapperTruth' /\ NoMisuse'
  BY <1>1, WrapperFrame DEF arrayVars, NoMisuse
<1>6. AccessorInv'
  BY <1>1, KeepsMove, AccessorFrame DEF FillingPc, arrayVars
<1>7. DropInv'
  BY <1>1, KeepsMove, DropFrame DEF LockedPc, arrayVars, lockVars
<1>8. QED BY <1>3, <1>4, <1>5, <1>6, <1>7

LEMMA OrderlyEndRelease ==
  ASSUME Careful, CarefulInv, NEW t \in Thread, EndRelease(t)
  PROVE  CloseAlone' /\ UsesLive' /\ WrapperTruth' /\ AccessorInv' /\ DropInv' /\ NoMisuse'
<1> USE DEF CarefulInv, CloseInv, Orderly
<1> DEFINE s == using[t]
<1>1. /\ pc[t] = "release" /\ pc' = [pc EXCEPT ![t] = "idle"]
      /\ using' = [using EXCEPT ![t] = Nothing]
      /\ native' = [native EXCEPT ![s] = "freed"]
      /\ UNCHANGED <<phase, db, arrayVars, lockVars, todo>>
  BY DEF EndRelease
<1>2. s \in Snapshot /\ s \in Native /\ s \notin Family
  BY <1>1, NativeAssumption DEF TypeOK, Native
<1>3. /\ ~Closing /\ db = "open" /\ native[s] = "live"
      /\ \A u \in Thread \ {t} : pc[u] \in UsingPc => using[u] # s
  BY <1>1, BusyAlone DEF UsesLive, UsingPc
<1>4. \A p \in Native : native'[p] = native[p] \/ (p = s /\ native'[p] = "freed")
  BY <1>1, <1>2 DEF TypeOK
<1>5. NoMisuse'
  BY <1>3 DEF EndRelease, NoMisuse
<1>6. CloseAlone'
  BY <1>1, <1>3, OpenAlone DEF ClosingPc
<1>7. UsesLive'
  <2>1. \A u \in Thread \ {t} : pc'[u] = pc[u] /\ using'[u] = using[u]
    BY <1>1 DEF TypeOK
  <2>2. pc'[t] = "idle"
    BY <1>1 DEF TypeOK
  <2>3. \A u \in Thread : using[u] \in Native \cup {Nothing}
    BY DEF TypeOK
  <2>4. "release" \in UsingPc /\ "idle" \notin UsingPc /\ Snapshot \subseteq Native
    BY DEF UsingPc, Native
  <2>5. QED BY <1>1, <1>3, <1>4, <2>1, <2>2, <2>3, <2>4 DEF UsesLive
<1>8. WrapperTruth'
  <2>1. \A f \in Family : native'[f] = native[f]
    BY <1>2, <1>4 DEF Native
  <2>2. QED BY <1>1, <2>1, WrapperFrameNative
<1>9. AccessorInv'
  BY <1>1, KeepsMove, AccessorFrame DEF FillingPc, arrayVars
<1>10. DropInv'
  BY <1>1, KeepsMove, DropFrame DEF LockedPc, arrayVars, lockVars
<1>11. QED BY <1>5, <1>6, <1>7, <1>8, <1>9, <1>10

-----------------------------------------------------------------------------
(* A careful application: the accessor.                                    *)

LEMMA OrderlyAnswer ==
  ASSUME Careful, CarefulInv, NEW t \in Thread,
         AskWithoutVector(t) \/ AskCached(t) \/ IsClosed(t) \/ ReturnArray(t)
  PROVE  CloseAlone' /\ UsesLive' /\ WrapperTruth' /\ AccessorInv' /\ DropInv' /\ NoMisuse'
<1> USE DEF CarefulInv, CloseInv, Orderly
<1>1. /\ pc[t] \in {"idle", "fill"} /\ pc' = [pc EXCEPT ![t] = "idle"]
      /\ pc[t] = "fill" => todo[t] = {}
      /\ UNCHANGED <<phase, db, native, arrayVars, lockVars, todo, using, faults>>
  BY DEF AskWithoutVector, AskCached, IsClosed, ReturnArray, Returns
<1>2. \A u \in Thread : pc'[u] = IF u = t THEN "idle" ELSE pc[u]
  BY <1>1 DEF TypeOK
<1>3. CloseAlone'
  BY <1>1, <1>2, AloneFrame
<1>4. UsesLive'
  BY <1>1, KeepsMove, UsesFrame, ZenonT(60) DEF UsingPc
<1>5. WrapperTruth' /\ NoMisuse'
  BY <1>1, WrapperFrame DEF NoMisuse
<1>6. AccessorInv'
  BY <1>1, <1>2 DEF AccessorInv, FillingPc, arrayVars
<1>7. DropInv'
  BY <1>1, KeepsMove, DropFrame DEF LockedPc, arrayVars, lockVars
<1>8. QED BY <1>3, <1>4, <1>5, <1>6, <1>7

LEMMA OrderlyAskUncached ==
  ASSUME Careful, CarefulInv, NEW t \in Thread, AskUncached(t)
  PROVE  CloseAlone' /\ UsesLive' /\ WrapperTruth' /\ AccessorInv' /\ DropInv' /\ NoMisuse'
<1> USE DEF CarefulInv, CloseInv, Orderly
<1>1. /\ pc[t] = "idle" /\ pc' = [pc EXCEPT ![t] = "looked"]
      /\ vector /\ ~made
      /\ UNCHANGED <<phase, db, native, arrayVars, lockVars, todo, using, faults>>
  BY DEF AskUncached
<1>2. ~Closing /\ db = "open" /\ \A u \in Thread : pc[u] \notin FillingPc
  BY DEF AskUncached, MayUseDb, MayAsk
<1>3. \A u \in Thread : pc'[u] = IF u = t THEN "looked" ELSE pc[u]
  BY <1>1 DEF TypeOK
<1>4. CloseAlone'
  BY <1>1, <1>2, OpenAlone DEF ClosingPc
<1>5. UsesLive'
  BY <1>1, KeepsMove, UsesFrame DEF UsingPc
<1>6. WrapperTruth' /\ NoMisuse'
  BY <1>1, WrapperFrame DEF NoMisuse
<1>7. AccessorInv'
  BY <1>1, <1>2, <1>3 DEF AccessorInv, FillingPc, arrayVars
<1>8. DropInv'
  BY <1>1, KeepsMove, DropFrame DEF LockedPc, arrayVars, lockVars
<1>9. QED BY <1>4, <1>5, <1>6, <1>7, <1>8

LEMMA OrderlyMakeArray ==
  ASSUME Careful, CarefulInv, NEW t \in Thread, MakeArray(t)
  PROVE  CloseAlone' /\ UsesLive' /\ WrapperTruth' /\ AccessorInv' /\ DropInv' /\ NoMisuse'
<1> USE DEF CarefulInv, CloseInv, Orderly
<1>1. /\ pc[t] = "looked" /\ pc' = [pc EXCEPT ![t] = "fill"]
      /\ made' /\ array' = {} /\ todo' = [todo EXCEPT ![t] = Family]
      /\ UNCHANGED <<phase, db, native, vector, wrap, lockVars, using, faults>>
  BY DEF MakeArray
<1>2. ~Closing /\ db \notin {"shut", "freed"}
  BY <1>1, BusyAlone DEF FillingPc
<1>3. \A u \in Thread : pc'[u] = IF u = t THEN "fill" ELSE pc[u]
  BY <1>1 DEF TypeOK
<1>4. /\ \A u \in Thread \ {t} : pc[u] \notin FillingPc
      /\ vector /\ ~made /\ \A w \in Wrapper : wrap[w] = "none"
  BY <1>1 DEF AccessorInv, FillingPc
<1>5. CloseAlone'
  BY <1>1, <1>2, OpenAlone DEF ClosingPc
<1>6. UsesLive'
  BY <1>1, KeepsMove, UsesFrame DEF UsingPc
<1>7. WrapperTruth' /\ NoMisuse'
  BY <1>1, <1>4 DEF WrapperTruth, NoMisuse
<1>8. AccessorInv'
  <2>1. todo'[t] = Family
    BY <1>1 DEF TypeOK
  <2>2. QED BY <1>1, <1>3, <1>4, <2>1 DEF AccessorInv, FillingPc
<1>9. DropInv'
  BY <1>1, KeepsMove, DropFrame DEF LockedPc, lockVars
<1>10. QED BY <1>5, <1>6, <1>7, <1>8, <1>9

LEMMA OrderlyAddHandle ==
  ASSUME Careful, CarefulInv, NEW t \in Thread, NEW f \in Family, AddHandle(t, f)
  PROVE  CloseAlone' /\ UsesLive' /\ WrapperTruth' /\ AccessorInv' /\ DropInv' /\ NoMisuse'
<1> USE DEF CarefulInv, CloseInv, Orderly
<1> DEFINE new == <<t, f>>
<1>1. /\ pc[t] = "fill" /\ f \in todo[t]
      /\ todo' = [todo EXCEPT ![t] = @ \ {f}]
      /\ wrap' = [wrap EXCEPT ![new] = "held"]
      /\ array' = array \cup {new}
      /\ UNCHANGED <<phase, db, native, vector, made, lockVars, pc, using>>
  BY DEF AddHandle
<1>2. /\ ~Closing /\ db \notin {"shut", "freed"}
      /\ vector /\ made
      /\ \A u \in Thread \ {t} : pc[u] \notin FillingPc
      /\ \A w \in Wrapper : HandleOf(w) \in todo[t] => wrap[w] = "none"
  BY <1>1, BusyAlone DEF AccessorInv, FillingPc
<1>3. /\ new \in Wrapper /\ HandleOf(new) = f
      /\ \A w \in Wrapper : wrap'[w] = IF w = new THEN "held" ELSE wrap[w]
  BY <1>1, WrapperParts DEF TypeOK
<1>4. /\ \A w \in Wrapper : HandleOf(w) = f => wrap[w] = "none"
      /\ native[f] = "live"
  BY <1>1, <1>2 DEF WrapperTruth
<1>5. \A u \in Thread : todo'[u] = IF u = t THEN todo[t] \ {f} ELSE todo[u]
  BY <1>1 DEF TypeOK
<1>6. CloseAlone'
  BY <1>1, AloneFrame
<1>7. UsesLive'
  BY <1>1, UsesFrame DEF Keeps
<1>8. WrapperTruth'
  BY <1>1, <1>2, <1>3, <1>4 DEF WrapperTruth
<1>9. AccessorInv'
  <2>1. \A w \in Wrapper : HandleOf(w) \in todo'[t] => wrap'[w] = "none"
    BY <1>2, <1>3, <1>5
  <2>2. \A g \in Family :
          \/ \E u \in Thread : pc'[u] = "fill" /\ g \in todo'[u]
          \/ \E w \in Wrapper : HandleOf(w) = g /\ wrap'[w] # "none"
    <3> SUFFICES ASSUME NEW g \in Family
                 PROVE  \/ \E u \in Thread : pc'[u] = "fill" /\ g \in todo'[u]
                        \/ \E w \in Wrapper : HandleOf(w) = g /\ wrap'[w] # "none"
      OBVIOUS
    <3>1. CASE g = f
      BY <1>3, <3>1
    <3>2. CASE g # f /\ \E u \in Thread : pc[u] = "fill" /\ g \in todo[u]
      BY <1>1, <1>5, <3>2
    <3>3. CASE \E w \in Wrapper : HandleOf(w) = g /\ wrap[w] # "none"
      BY <1>3, <3>3
    <3>4. QED BY <1>2, <3>1, <3>2, <3>3 DEF AccessorInv
  <2>3. QED BY <1>1, <1>2, <2>1, <2>2 DEF AccessorInv, FillingPc
<1>10. DropInv'
  <2>1. \A u \in Thread : pc[u] # "handles"
    BY <1>2 DEF Closing, ClosingPc
  <2>2. QED BY <1>1, <1>2, <2>1 DEF DropInv
<1>11. NoMisuse'
  BY <1>2 DEF AddHandle, NoMisuse
<1>12. QED BY <1>6, <1>7, <1>8, <1>9, <1>10, <1>11

-----------------------------------------------------------------------------
(* A careful application: closing.                                         *)

\* Closing a wrapper nobody uses, by hand or from within -close:.
LEMMA OrderlyCloseHandleOf ==
  ASSUME CarefulInv, NEW w \in Wrapper, CloseHandleOf(w), ~UsedBy(HandleOf(w)),
         UNCHANGED <<db, vector, made, array, callVars>>
  PROVE  /\ CloseAlone' /\ UsesLive' /\ WrapperTruth' /\ AccessorInv' /\ NoMisuse'
         /\ \A v \in Wrapper : wrap'[v] = "held" => wrap[v] = "held" /\ v # w
<1> USE DEF CarefulInv, CloseInv, Orderly
<1> DEFINE f == HandleOf(w)
<1>1. f \in Family /\ f \in Native /\ f \notin Child /\ f \notin Snapshot /\ f # Nothing
  BY WrapperParts, NativeAssumption DEF Native, Child
<1>2. CASE wrap[w] # "held"
  <2>1. UNCHANGED <<wrap, native, faults>>
    BY <1>2 DEF CloseHandleOf
  <2>2. CloseAlone' /\ UsesLive'
    BY <1>2, <2>1, AloneFrame, UsesFrame DEF Keeps, callVars
  <2>3. WrapperTruth' /\ AccessorInv' /\ NoMisuse'
    BY <2>1, WrapperFrame, AccessorFrame DEF Keeps, callVars, arrayVars, NoMisuse
  <2>4. QED BY <1>2, <2>1, <2>2, <2>3
<1>3. CASE wrap[w] = "held"
  <2>1. native[f] = "live" /\ db # "freed"
    BY <1>3 DEF WrapperTruth, DropInv
  <2>2. /\ wrap' = [wrap EXCEPT ![w] = "nil"]
        /\ native' = [native EXCEPT ![f] = "freed"]
        /\ UNCHANGED faults
    BY <1>3, <2>1 DEF CloseHandleOf
  <2>3. /\ \A v \in Wrapper : wrap'[v] = IF v = w THEN "nil" ELSE wrap[v]
        /\ \A o \in Native : native'[o] = IF o = f THEN "freed" ELSE native[o]
    BY <1>1, <2>2 DEF TypeOK
  <2>4. CloseAlone'
    BY <2>3, AloneFrame DEF callVars
  <2>5. UsesLive'
    <3>1. \A u \in Thread : pc[u] \in UsingPc => using[u] # f
      BY DEF UsedBy
    <3>2. \A u \in Thread : using[u] \in Native \cup {Nothing}
      BY DEF TypeOK
    <3>3. "release" \in UsingPc /\ Snapshot \subseteq Native
      BY DEF UsingPc, Native
    <3>4. QED BY <2>3, <3>1, <3>2, <3>3 DEF UsesLive, callVars
  <2>6. WrapperTruth'
    <3>1. \A v \in Wrapper : HandleOf(v) \in Native
      BY WrapperParts DEF Native
    <3>2. \A v \in Wrapper : HandleOf(v) = f /\ wrap[v] # "none" => v = w
      BY <1>3 DEF WrapperTruth
    <3>3. \A v \in Wrapper : wrap'[v] = "none" <=> wrap[v] = "none"
      BY <1>3, <2>3
    <3>4. \A g \in Family : g \in Native
      BY DEF Native
    <3>5. /\ \A v \in Wrapper : wrap'[v] = "held" => native'[HandleOf(v)] = "live"
          /\ \A v \in Wrapper : wrap'[v] = "nil" => native'[HandleOf(v)] = "freed"
      BY <2>3, <3>1, <3>2 DEF WrapperTruth
    <3>6. vector => \A g \in Family :
            (\A v \in Wrapper : HandleOf(v) = g => wrap'[v] = "none") => native'[g] = "live"
      BY <1>3, <2>3, <3>3, <3>4 DEF WrapperTruth
    <3>7. QED BY <3>3, <3>5, <3>6 DEF WrapperTruth
  <2>7. AccessorInv'
    <3>1. \A v \in Wrapper : wrap'[v] = "none" <=> wrap[v] = "none"
      BY <1>3, <2>3
    <3>2. QED BY <3>1 DEF AccessorInv, FillingPc, callVars
  <2>8. QED BY <2>2, <2>3, <2>4, <2>5, <2>6, <2>7 DEF NoMisuse
<1>4. QED BY <1>2, <1>3

LEMMA OrderlyCloseWrapper ==
  ASSUME Careful, CarefulInv, NEW t \in Thread, NEW w \in Wrapper, CloseWrapper(t, w)
  PROVE  CloseAlone' /\ UsesLive' /\ WrapperTruth' /\ AccessorInv' /\ DropInv' /\ NoMisuse'
<1>1. /\ CloseHandleOf(w) /\ ~UsedBy(HandleOf(w))
      /\ UNCHANGED <<phase, db, vector, made, array, lockVars, callVars>>
  BY DEF CloseWrapper, MayCloseIt
<1>2. /\ CloseAlone' /\ UsesLive' /\ WrapperTruth' /\ AccessorInv' /\ NoMisuse'
      /\ \A v \in Wrapper : wrap'[v] = "held" => wrap[v] = "held"
  BY <1>1, OrderlyCloseHandleOf
<1>3. DropInv'
  BY <1>1, <1>2 DEF CarefulInv, Orderly, DropInv, lockVars, callVars
<1>4. QED BY <1>2, <1>3

LEMMA OrderlyCloseHandle ==
  ASSUME Careful, CarefulInv, NEW t \in Thread, NEW w \in Wrapper, CloseHandle(t, w)
  PROVE  CloseAlone' /\ UsesLive' /\ WrapperTruth' /\ AccessorInv' /\ DropInv' /\ NoMisuse'
<1>1. /\ CloseHandleOf(w) /\ pc[t] = "handles" /\ pending' = pending \ {w}
      /\ UNCHANGED <<phase, db, vector, made, array, owner, callVars>>
  BY DEF CloseHandle
<1>2. ~UsedBy(HandleOf(w))
  BY <1>1 DEF CarefulInv, Orderly, CloseAlone, Closing, ClosingPc, Quiet, UsedBy
<1>3. /\ CloseAlone' /\ UsesLive' /\ WrapperTruth' /\ AccessorInv' /\ NoMisuse'
      /\ \A v \in Wrapper : wrap'[v] = "held" => wrap[v] = "held" /\ v # w
  BY <1>1, <1>2, OrderlyCloseHandleOf
<1>4. DropInv'
  BY <1>1, <1>3 DEF CarefulInv, Orderly, DropInv, callVars
<1>5. QED BY <1>3, <1>4

LEMMA OrderlyBeginClose ==
  ASSUME Careful, CarefulInv, NEW t \in Thread, CallClose(t) \/ Dealloc(t)
  PROVE  CloseAlone' /\ UsesLive' /\ WrapperTruth' /\ AccessorInv' /\ DropInv' /\ NoMisuse'
<1> USE DEF CarefulInv, CloseInv, Orderly
<1>1. /\ pc[t] = "idle"
      /\ \E q \in {"wait", "handles"} : pc' = [pc EXCEPT ![t] = q]
      /\ Quiet /\ ChildrenClosed
      /\ UNCHANGED <<db, native, arrayVars, todo, using, faults>>
  BY DEF CallClose, Dealloc, MayClose
<1>2. PICK q \in {"wait", "handles"} : pc' = [pc EXCEPT ![t] = q]
  BY <1>1
<1>3. \A u \in Thread : pc'[u] = IF u = t THEN q ELSE pc[u]
  BY <1>2 DEF TypeOK
<1>4. CloseAlone'
  <2>1. Quiet'
    BY <1>1, <1>3 DEF Quiet, UsingPc, FillingPc
  <2>2. QED BY <1>1, <2>1 DEF CloseAlone, ChildrenClosed, Live
<1>5. UsesLive'
  BY <1>1, <1>2, KeepsMove, UsesFrame DEF UsingPc
<1>6. WrapperTruth' /\ NoMisuse'
  BY <1>1, WrapperFrame DEF NoMisuse
<1>7. AccessorInv'
  BY <1>1, <1>2, KeepsMove, AccessorFrame DEF FillingPc, arrayVars
<1>8. DropInv'
  <2>1. CASE CallClose(t)
    <3>1. pc' = [pc EXCEPT ![t] = "wait"] /\ UNCHANGED lockVars
      BY <2>1 DEF CallClose
    <3>2. QED BY <1>1, <3>1, KeepsMove, DropFrame DEF LockedPc, arrayVars, lockVars
  <2>2. CASE Dealloc(t)
    <3>1. pending' = array /\ \A u \in Thread : pc[u] = "idle"
      BY <2>2 DEF Dealloc
    <3>2. \A v \in Wrapper : wrap[v] = "held" => v \in array
      BY DEF DropInv, WrapperTruth
    <3>3. QED BY <1>1, <1>3, <3>1, <3>2 DEF DropInv, arrayVars
  <2>3. QED BY <2>1, <2>2
<1>9. QED BY <1>4, <1>5, <1>6, <1>7, <1>8

\* What a step of the thread that closes leaves in place.
LEMMA ClosingFrame ==
  ASSUME CarefulInv, NEW t \in Thread, pc[t] \in ClosingPc,
         NEW q \in {"idle"} \cup ClosingPc, pc' = [pc EXCEPT ![t] = q],
         UNCHANGED <<native, made, wrap, todo, using>>
  PROVE  /\ \A u \in Thread : pc'[u] = IF u = t THEN q ELSE pc[u]
         /\ Quiet' /\ ChildrenClosed' /\ UsesLive' /\ AccessorInv'
<1> USE DEF CarefulInv, CloseInv, Orderly
<1>1. \A u \in Thread : pc'[u] = IF u = t THEN q ELSE pc[u]
  BY DEF TypeOK
<1>2. Quiet /\ ChildrenClosed
  BY DEF CloseAlone, Closing
<1>3. Quiet'
  BY <1>1, <1>2 DEF Quiet, ClosingPc, UsingPc, FillingPc
<1>4. ChildrenClosed'
  BY <1>2 DEF ChildrenClosed, Live
<1>5. UsesLive'
  BY <1>3 DEF UsesLive, Quiet, UsingPc
<1>6. \A u \in Thread : pc[u] \notin FillingPc /\ pc'[u] \notin FillingPc
  BY <1>2, <1>3 DEF Quiet
<1>7. AccessorInv'
  BY <1>6 DEF AccessorInv, FillingPc
<1>8. QED BY <1>1, <1>3, <1>4, <1>5, <1>7

LEMMA OrderlyEnterClose ==
  ASSUME Careful, CarefulInv, NEW t \in Thread, EnterClose(t)
  PROVE  CloseAlone' /\ UsesLive' /\ WrapperTruth' /\ AccessorInv' /\ DropInv' /\ NoMisuse'
<1> USE DEF CarefulInv, CloseInv, Orderly
<1>1. /\ pc[t] = "wait" /\ pc' = [pc EXCEPT ![t] = "handles"]
      /\ owner = NoThread /\ pending' = array
      /\ UNCHANGED <<phase, db, native, arrayVars, todo, using, answer, faults>>
  BY DEF EnterClose
<1>2. /\ \A u \in Thread : pc'[u] = IF u = t THEN "handles" ELSE pc[u]
      /\ Quiet' /\ ChildrenClosed' /\ UsesLive' /\ AccessorInv'
  BY <1>1, ClosingFrame DEF ClosingPc, arrayVars
<1>3. CloseAlone'
  BY <1>1, <1>2 DEF CloseAlone, Live
<1>4. \A u \in Thread : pc[u] \notin LockedPc
  BY <1>1, ThreadAssumption DEF LockInv
<1>5. \A v \in Wrapper : wrap[v] = "held" => v \in array
  BY DEF DropInv, WrapperTruth
<1>6. DropInv'
  BY <1>1, <1>2, <1>4, <1>5 DEF DropInv, LockedPc, arrayVars
<1>7. WrapperTruth' /\ NoMisuse'
  BY <1>1, WrapperFrame DEF NoMisuse
<1>8. QED BY <1>2, <1>3, <1>6, <1>7

LEMMA OrderlyDropHandles ==
  ASSUME Careful, CarefulInv, NEW t \in Thread, DropHandles(t)
  PROVE  CloseAlone' /\ UsesLive' /\ WrapperTruth' /\ AccessorInv' /\ DropInv' /\ NoMisuse'
<1> USE DEF CarefulInv, CloseInv, Orderly
<1>1. /\ pc[t] = "handles" /\ pc' = [pc EXCEPT ![t] = "native"]
      /\ pending = {} /\ ~vector'
      /\ UNCHANGED <<phase, db, native, made, wrap, lockVars, todo, using, faults>>
  BY DEF DropHandles
<1>2. /\ \A u \in Thread : pc'[u] = IF u = t THEN "native" ELSE pc[u]
      /\ Quiet' /\ ChildrenClosed' /\ UsesLive' /\ AccessorInv'
  BY <1>1, ClosingFrame DEF ClosingPc
<1>3. CloseAlone'
  BY <1>1, <1>2 DEF CloseAlone, Live
<1>4. \A v \in Wrapper : wrap[v] # "held"
  BY <1>1 DEF DropInv
<1>5. DropInv' /\ WrapperTruth' /\ NoMisuse'
  BY <1>1, <1>2, <1>4 DEF DropInv, WrapperTruth, NoMisuse, lockVars
<1>6. QED BY <1>2, <1>3, <1>5

\* The steps that find out about the database, close it and delete it.
LEMMA OrderlyLeaveClose ==
  ASSUME Careful, CarefulInv, NEW t \in Thread,
         \/ CloseFindsNull(t) \/ CloseRefused(t) \/ CloseFails(t)
         \/ CloseNative(t) \/ DeleteDb(t)
  PROVE  CloseAlone' /\ UsesLive' /\ WrapperTruth' /\ AccessorInv' /\ DropInv' /\ NoMisuse'
<1> USE DEF CarefulInv, CloseInv, Orderly
<1>1. /\ pc[t] \in {"native", "delete"}
      /\ \E q \in {"idle", "delete"} : pc' = [pc EXCEPT ![t] = q]
      /\ UNCHANGED <<phase, native, arrayVars, pending, todo, using>>
  BY DEF CloseFindsNull, CloseRefused, CloseFails, CloseNative, DeleteDb,
         LeavesClose, Returns, lockVars, callVars
<1>2. PICK q \in {"idle", "delete"} : pc' = [pc EXCEPT ![t] = q]
  BY <1>1
<1>3. /\ \A u \in Thread : pc'[u] = IF u = t THEN q ELSE pc[u]
      /\ Quiet' /\ ChildrenClosed' /\ UsesLive' /\ AccessorInv'
  BY <1>1, <1>2, ClosingFrame DEF ClosingPc, arrayVars
<1>4. UNCHANGED db \/ ~Live(Snapshot)
  <2>1. ChildrenClosed
    BY <1>1 DEF CloseAlone, Closing, ClosingPc
  <2>2. CASE DeleteDb(t)
    BY <2>2 DEF DeleteDb, LockInv, CloseAlone
  <2>3. CASE CloseFindsNull(t) \/ CloseRefused(t)
    BY <2>3 DEF CloseFindsNull, CloseRefused
  <2>4. CASE CloseFails(t)
    BY <2>1, <2>4 DEF CloseFails, ChildrenClosed
  <2>5. CASE CloseNative(t)
    BY <2>1, <2>5 DEF CloseNative, ChildrenClosed
  <2>6. QED BY <2>2, <2>3, <2>4, <2>5
<1>5. CloseAlone'
  BY <1>1, <1>3, <1>4 DEF CloseAlone, ChildrenClosed, Live
<1>6. ~vector /\ ~vector' /\ UNCHANGED wrap
  BY <1>1 DEF DropInv, arrayVars
<1>7. DropInv'
  BY <1>1, <1>2, <1>3, <1>6 DEF DropInv
<1>8. WrapperTruth'
  BY <1>1, WrapperFrame
<1>9. NoMisuse'
  BY DEF CloseFindsNull, CloseRefused, CloseFails, CloseNative, DeleteDb,
         LockInv, NoMisuse
<1>10. QED BY <1>3, <1>5, <1>7, <1>8, <1>9

LEMMA OrderlyOpen ==
  ASSUME CarefulInv, Open, CloseInv'
  PROVE  Orderly'
<1> USE DEF CarefulInv, CloseInv, Orderly
<1>1. /\ phase \in {"new", "failed"} /\ db = "none"
      /\ \A t \in Thread : pc[t] = "idle"
      /\ \A o \in Native : native[o] = "none"
      /\ ~made
  BY DEF Open, OpenDatabase, OpenColumnFamilies, OpenFails, Unopened, LockInv
<1>2. \A w \in Wrapper : wrap[w] = "none"
  BY <1>1 DEF AccessorInv
<1>3. UNCHANGED <<made, array, wrap, owner, pending, pc, todo, using, faults>>
  BY DEF Open, OpenDatabase, OpenColumnFamilies, OpenFails, arrayVars, lockVars, callVars
<1>4. /\ db' \in {"none", "open"}
      /\ phase' \in {"new", "failed"} => UNCHANGED native
      /\ vector' => \/ UNCHANGED <<native, vector>>
                    \/ \A f \in Family : native'[f] = "live"
  BY <1>1 DEF Open, OpenDatabase, OpenColumnFamilies, OpenFails, arrayVars, TypeOK, Native
<1>5. NoMisuse' /\ Unopened' /\ CloseAlone'
  BY <1>1, <1>3, <1>4
  DEF NoMisuse, Unopened, CloseAlone, Closing, ClosingPc
<1>6. UsesLive' /\ AccessorInv' /\ DropInv'
  BY <1>1, <1>2, <1>3, <1>4
  DEF UsesLive, UsingPc, AccessorInv, FillingPc, DropInv
<1>7. WrapperTruth'
  BY <1>2, <1>3, <1>4 DEF WrapperTruth
<1>8. QED BY <1>5, <1>6, <1>7

LEMMA CarefulInvInductive ==
  ASSUME Careful
  PROVE  /\ Init => CarefulInv
         /\ CarefulInv /\ [Next]_vars => CarefulInv'
<1>1. ASSUME Init PROVE CarefulInv
  <2>1. CloseInv
    BY <1>1, CloseInvInductive
  <2>2. NoMisuse /\ Unopened /\ CloseAlone /\ UsesLive
    BY <1>1 DEF Init, NoMisuse, Unopened, CloseAlone, Closing, ClosingPc, UsesLive, UsingPc
  <2>3. WrapperTruth /\ AccessorInv /\ DropInv
    BY <1>1 DEF Init, WrapperTruth, AccessorInv, FillingPc, DropInv
  <2>4. QED BY <2>1, <2>2, <2>3 DEF CarefulInv, Orderly
<1>2. ASSUME CarefulInv, [Next]_vars PROVE CarefulInv'
  <2>1. CloseInv'
    BY <1>2, CloseInvInductive DEF CarefulInv
  <2>2. CASE UNCHANGED vars
    <3>1. UNCHANGED <<phase, db, native, arrayVars, lockVars, callVars, faults>>
      BY <2>2 DEF vars
    <3>2. NoMisuse' /\ Unopened' /\ CloseAlone' /\ UsesLive'
      BY <1>2, <3>1 DEF CarefulInv, Orderly, callVars, arrayVars, NoMisuse, Unopened,
         CloseAlone, Closing, Quiet, ChildrenClosed, Live, UsesLive
    <3>3. WrapperTruth' /\ AccessorInv' /\ DropInv'
      BY <1>2, <3>1, WrapperFrame, AccessorFrame, DropFrame
      DEF CarefulInv, Orderly, Keeps, callVars, arrayVars, lockVars
    <3>4. QED BY <2>1, <3>2, <3>3 DEF CarefulInv, Orderly
  <2>3. CASE Open
    BY <1>2, <2>1, <2>3, OrderlyOpen DEF CarefulInv
  <2>4. ASSUME NEW t \in Thread, Call(t) \/ Step(t) PROVE CarefulInv'
    <3>1. Unopened'
      <4>1. phase \notin {"new", "failed"}
        BY <1>2, <2>4, Opened
      <4>2. db # "none" /\ (db' # "none" => phase' \notin {"new", "failed"})
        BY <1>2, <2>1, <4>1 DEF CarefulInv, CloseInv, LockInv
      <4>3. phase' = phase \/ phase' = "gone"
        BY <2>4 DEF Call, Step, BeginUse, BeginRelease, CloseChild, CloseWrapper,
           AskWithoutVector, AskCached, AskUncached, CallClose, Dealloc, IsClosed,
           EndUse, EndRelease, MakeArray, AddHandle, ReturnArray, EnterClose,
           CloseHandle, DropHandles, CloseFindsNull, CloseRefused, CloseFails,
           CloseNative, DeleteDb
      <4>4. QED BY <4>1, <4>3 DEF Unopened
    <3>2. CloseAlone' /\ UsesLive' /\ WrapperTruth' /\ AccessorInv' /\ DropInv' /\ NoMisuse'
      <4>1. CASE Call(t)
        BY <1>2, <4>1, OrderlyBeginUse, OrderlyBeginRelease, OrderlyCloseChild,
           OrderlyCloseWrapper, OrderlyAnswer, OrderlyAskUncached,
           OrderlyBeginClose, Zenon DEF Call
      <4>2. CASE Step(t)
        BY <1>2, <4>2, OrderlyEndUse, OrderlyEndRelease, OrderlyMakeArray,
           OrderlyAddHandle, OrderlyAnswer, OrderlyEnterClose, OrderlyCloseHandle,
           OrderlyDropHandles, OrderlyLeaveClose, Zenon DEF Step
      <4>3. QED BY <2>4, <4>1, <4>2
    <3>3. QED BY <2>1, <3>1, <3>2 DEF CarefulInv, Orderly
  <2>5. QED BY <1>2, <2>2, <2>3, <2>4 DEF Next
<1>3. QED BY <1>1, <1>2

LEMMA CarefulImplies ==
  ASSUME CarefulInv
  PROVE  NoMisuse /\ OneWrapperPerHandle /\ NothingOutlivesDb /\ HandlesDeletedWithDb
<1> USE DEF CarefulInv, Orderly
<1>1. OneWrapperPerHandle
  BY DEF OneWrapperPerHandle, WrapperTruth, AccessorInv, FillingPc
<1>2. NothingOutlivesDb
  BY DEF NothingOutlivesDb, CloseAlone, DropInv
<1>3. HandlesDeletedWithDb
  <2> SUFFICES ASSUME db = "freed", made, NEW f \in Family PROVE native[f] = "freed"
    BY DEF HandlesDeletedWithDb
  <2>1. Quiet /\ \A w \in Wrapper : wrap[w] # "held"
    BY DEF CloseAlone, DropInv
  <2>2. PICK w \in Wrapper : HandleOf(w) = f /\ wrap[w] # "none"
    BY <2>1 DEF AccessorInv, Quiet, FillingPc
  <2>3. wrap[w] = "nil"
    BY <2>1, <2>2 DEF CloseInv, TypeOK
  <2>4. QED BY <2>2, <2>3 DEF WrapperTruth
<1>4. QED BY <1>1, <1>2, <1>3

\* For an application that keeps the rules, no native object is deleted twice
\* or touched once deleted, in whatever order closes, operations, iterators,
\* snapshots and the accessor interleave.
THEOREM NeverMisused == ASSUME Careful PROVE Spec => []NoMisuse
BY CarefulInvInductive, CarefulImplies, PTL DEF Spec

\* The columnFamilies array has one wrapper for every handle.
THEOREM OneWrapper == ASSUME Careful PROVE Spec => []OneWrapperPerHandle
BY CarefulInvInductive, CarefulImplies, PTL DEF Spec

\* No native object outlives the database, whether or not RocksDB itself
\* refuses to close while there are snapshots.
THEOREM NothingOutlives == ASSUME Careful PROVE Spec => []NothingOutlivesDb
BY CarefulInvInductive, CarefulImplies, PTL DEF Spec

\* Closing deletes every handle that columnFamilies ever wrapped.
THEOREM HandlesDeleted == ASSUME Careful PROVE Spec => []HandlesDeletedWithDb
BY CarefulInvInductive, CarefulImplies, PTL DEF Spec

-----------------------------------------------------------------------------
(* The abstract database object.                                           *)

LEMMA SameObjects == Promised!Object = Native
BY DEF Promised!Object, Native, Child

LEMMA FatesFrame ==
  ASSUME UNCHANGED <<native, wrap>>
  PROVE  UNCHANGED Fates
BY DEF Fates, Fate, HandedOut

\* One object meets its fate.
LEMMA OneFate ==
  ASSUME NEW o \in Native, \A p \in Native \ {o} : Fate(p)' = Fate(p)
  PROVE  Fates' = [Fates EXCEPT ![o] = Fate(o)']
BY DEF Fates

\* Objects the application creates are not wrapped: their fate is their native's.
LEMMA CreatedFate ==
  ASSUME TypeOK, UNCHANGED wrap, NEW o \in Native,
         native' = [native EXCEPT ![o] = "live"] \/ native' = [native EXCEPT ![o] = "freed"]
  PROVE  /\ \A p \in Native \ {o} : Fate(p)' = Fate(p)
         /\ o \notin Family => /\ Fate(o) = "live" <=> native[o] = "live"
                               /\ native'[o] = "live" => Fate(o)' = "live"
                               /\ native'[o] = "freed" => Fate(o)' = "closed"
BY DEF Fate, HandedOut, TypeOK

LEMMA Handing ==
  ASSUME NEW o \in Native, State = "open", UNCHANGED <<State, answer>>,
         Fate(o) = "none", Fate(o)' = "live",
         \A p \in Native \ {o} : Fate(p)' = Fate(p)
  PROVE  Promised!Next
<1>1. Fates' = [Fates EXCEPT ![o] = "live"] /\ Fates[o] = "none"
  BY OneFate DEF Fates
<1>2. Promised!HandOut(o)
  BY <1>1 DEF Promised!HandOut
<1>3. QED
  BY <1>2 DEF Promised!Next, Promised!NewIterator, Promised!NewSnapshot,
     Promised!CreateColumnFamily, Promised!HandleOfColumnFamily, Native, Child

LEMMA Discarding ==
  ASSUME NEW o \in Native, State = "open", UNCHANGED <<State, answer>>,
         Fate(o) = "live", Fate(o)' = "closed",
         \A p \in Native \ {o} : Fate(p)' = Fate(p)
  PROVE  Promised!Next
<1>1. Fates' = [Fates EXCEPT ![o] = "closed"] /\ Fates[o] = "live"
  BY OneFate DEF Fates
<1>2. Promised!Discard(o)
  BY <1>1 DEF Promised!Discard
<1>3. QED
  BY <1>2 DEF Promised!Next, Promised!CloseIterator, Promised!CloseSnapshot,
     Promised!CloseColumnFamily, Native, Child

LEMMA OpenRefines ==
  ASSUME CarefulInv, Open
  PROVE  Promised!Next \/ UNCHANGED <<State, Fates, answer>>
<1> USE DEF CarefulInv, CloseInv, Orderly
<1>1. /\ db = "none" /\ \A w \in Wrapper : wrap[w] = "none"
      /\ \A o \in Native : native[o] = "none"
  BY DEF Open, OpenDatabase, OpenColumnFamilies, OpenFails, Unopened, LockInv, AccessorInv
<1>2. UNCHANGED <<wrap, answer>>
  BY DEF Open, OpenDatabase, OpenColumnFamilies, OpenFails, arrayVars, callVars
<1>3. \A o \in Native : native'[o] = "none" \/ (o \in Family /\ native'[o] = "live")
  BY <1>1 DEF Open, OpenDatabase, OpenColumnFamilies, OpenFails, TypeOK
<1>4. \A o \in Native : Fate(o) = "none" /\ Fate(o)' = "none"
  BY <1>1, <1>2, <1>3 DEF Fate, HandedOut
<1>5. UNCHANGED Fates
  BY <1>4 DEF Fates
<1>6. (State = "unopened" /\ State' = "open") \/ UNCHANGED State
  BY <1>1 DEF Open, OpenDatabase, OpenColumnFamilies, OpenFails, State
<1>7. QED BY <1>2, <1>5, <1>6 DEF Promised!Next, Promised!DatabaseAtPath

LEMMA EndUseRefines ==
  ASSUME CarefulInv, NEW t \in Thread, EndUse(t)
  PROVE  Promised!Next \/ UNCHANGED <<State, Fates, answer>>
<1> USE DEF CarefulInv, CloseInv, Orderly
<1>0. PICK o : o = using[t]
  OBVIOUS
<1>1. /\ db = "open" /\ UNCHANGED <<db, answer, wrap>> /\ State = "open" /\ UNCHANGED State
  BY DEF EndUse, UsesLive, UsingPc, State, arrayVars
<1>2. CASE UNCHANGED native
  BY <1>1, <1>2, FatesFrame
<1>3. CASE o # Nothing /\ native[o] = "none" /\ native' = [native EXCEPT ![o] = "live"]
  <2>1. o \in Native
    BY <1>0, <1>3 DEF TypeOK
  <2>2. \A p \in Native \ {o} : Fate(p)' = Fate(p)
    BY <1>1, <1>3, <2>1, CreatedFate
  <2>3. Fate(o) = "none"
    BY <1>3 DEF Fate, HandedOut
  <2>4. CASE o \notin Family
    <3>1. Fate(o)' = "live"
      BY <1>1, <1>3, <2>1, <2>4, CreatedFate DEF TypeOK
    <3>2. QED BY <1>1, <2>1, <2>2, <2>3, <3>1, Handing
  <2>5. CASE o \in Family
    <3>1. \A w \in Wrapper : HandleOf(w) = o => wrap[w] # "held"
      BY <1>3 DEF WrapperTruth
    <3>2. Fate(o)' = "none"
      BY <1>1, <1>3, <2>1, <2>5, <3>1 DEF Fate, HandedOut, TypeOK
    <3>3. UNCHANGED Fates
      BY <2>2, <2>3, <3>2 DEF Fates
    <3>4. QED BY <1>1, <3>3
  <2>6. QED BY <2>4, <2>5
<1>4. QED BY <1>0, <1>1, <1>2, <1>3 DEF EndUse

LEMMA ReleaseRefines ==
  ASSUME CarefulInv, NEW t \in Thread,
         EndRelease(t) \/ \E o \in Child : CloseChild(t, o)
  PROVE  Promised!Next \/ UNCHANGED <<State, Fates, answer>>
<1> USE DEF CarefulInv, CloseInv, Orderly
<1>1. UNCHANGED <<db, answer, wrap, State>>
  BY DEF EndRelease, CloseChild, arrayVars, callVars, State
<1>2. ASSUME NEW o \in Child \cup Snapshot, native[o] = "live", State = "open",
             native' = [native EXCEPT ![o] = "freed"]
      PROVE  Promised!Next
  <2>1. o \in Native /\ o \notin Family
    BY NativeAssumption DEF Native, Child
  <2>2. \A p \in Native \ {o} : Fate(p)' = Fate(p)
    BY <1>1, <1>2, <2>1, CreatedFate
  <2>3. Fate(o) = "live" /\ Fate(o)' = "closed"
    BY <1>1, <1>2, <2>1, CreatedFate DEF TypeOK
  <2>4. QED BY <1>1, <1>2, <2>1, <2>2, <2>3, Discarding
<1>3. CASE EndRelease(t)
  <2>1. using[t] \in Snapshot /\ native[using[t]] = "live" /\ db = "open"
    BY <1>3 DEF EndRelease, UsesLive, UsingPc
  <2>2. native' = [native EXCEPT ![using[t]] = "freed"]
    BY <1>3 DEF EndRelease
  <2>3. QED BY <1>2, <2>1, <2>2 DEF State
<1>4. ASSUME NEW o \in Child, CloseChild(t, o)
      PROVE  Promised!Next \/ UNCHANGED <<State, Fates, answer>>
  <2>1. CASE native[o] = "live"
    <3>1. db \notin {"none", "freed"}
      BY <2>1 DEF CloseAlone, Live, Unopened, LockInv, Native
    <3>2. QED BY <1>2, <1>4, <2>1, <3>1 DEF CloseChild, State
  <2>2. CASE native[o] # "live"
    BY <1>1, <1>4, <2>2, FatesFrame DEF CloseChild
  <2>3. QED BY <2>1, <2>2
<1>5. QED BY <1>3, <1>4

LEMMA AddHandleRefines ==
  ASSUME CarefulInv, NEW t \in Thread, NEW f \in Family, AddHandle(t, f),
         phase \notin {"new", "failed"}
  PROVE  Promised!Next
<1> USE DEF CarefulInv, CloseInv, Orderly
<1> DEFINE w == <<t, f>>
<1>1. w \in Wrapper /\ HandleOf(w) = f /\ f \in Native
  BY WrapperParts DEF Native
<1>2. /\ pc[t] = "fill" /\ f \in todo[t] /\ wrap' = [wrap EXCEPT ![w] = "held"]
      /\ UNCHANGED <<db, native, vector, answer>>
  BY DEF AddHandle
<1>3. db \notin {"none", "shut", "freed"}
  BY <1>2, BusyAlone DEF FillingPc, LockInv
<1>4. \A v \in Wrapper : HandleOf(v) = f => wrap[v] = "none"
  BY <1>2 DEF AccessorInv
<1>5. native[f] = "live"
  BY <1>2, <1>4 DEF AccessorInv, FillingPc, WrapperTruth
<1>6. Fate(f) = "none" /\ Fate(f)' = "live"
  BY <1>1, <1>2, <1>4, <1>5 DEF Fate, HandedOut, TypeOK
<1>7. \A p \in Native \ {f} : Fate(p)' = Fate(p)
  BY <1>1, <1>2 DEF Fate, HandedOut, TypeOK
<1>8. QED BY <1>1, <1>2, <1>3, <1>6, <1>7, Handing DEF State

LEMMA CloseHandleOfRefines ==
  ASSUME CarefulInv, NEW w \in Wrapper, CloseHandleOf(w), UNCHANGED <<db, answer>>
  PROVE  Promised!Next \/ UNCHANGED <<State, Fates, answer>>
<1> USE DEF CarefulInv, CloseInv, Orderly
<1>0. PICK f \in Family : f = HandleOf(w)
  BY WrapperParts
<1>1. CASE wrap[w] # "held"
  BY <1>1, FatesFrame DEF CloseHandleOf, State
<1>2. CASE wrap[w] = "held"
  <2>1. f \in Family /\ f \in Native
    BY DEF Native
  <2>2. native[f] = "live" /\ db \notin {"none", "freed"}
    BY <1>0, <1>2, <2>1 DEF WrapperTruth, DropInv, Unopened, LockInv
  <2>3. wrap' = [wrap EXCEPT ![w] = "nil"] /\ native' = [native EXCEPT ![f] = "freed"]
    BY <1>0, <1>2 DEF CloseHandleOf
  <2>4. Fate(f) = "live"
    BY <1>0, <1>2, <2>1, <2>2 DEF Fate, HandedOut
  <2>5. native'[f] = "freed" /\ Fate(f)' = "closed"
    <3>1. native'[f] = "freed"
      BY <2>1, <2>3 DEF TypeOK
    <3>2. QED BY <3>1 DEF Fate, HandedOut
  <2>6. \A p \in Native \ {f} : Fate(p)' = Fate(p)
    BY <1>0, <2>1, <2>3 DEF Fate, HandedOut, TypeOK
  <2>7. QED BY <2>1, <2>2, <2>4, <2>5, <2>6, Discarding DEF State
<1>3. QED BY <1>1, <1>2

LEMMA AnswerRefines ==
  ASSUME Careful, CarefulInv, NEW t \in Thread, phase \notin {"new", "failed"},
         \/ AskWithoutVector(t) \/ AskCached(t) \/ ReturnArray(t)
         \/ IsClosed(t) \/ CloseFindsNull(t) \/ CloseRefused(t) \/ CloseFails(t)
  PROVE  Promised!Next
<1> USE DEF CarefulInv, CloseInv, Orderly
<1>1. UNCHANGED Fates
  BY FatesFrame DEF AskWithoutVector, AskCached, ReturnArray, IsClosed,
     CloseFindsNull, CloseRefused, CloseFails, arrayVars
<1>2. UNCHANGED State
  BY DEF AskWithoutVector, AskCached, ReturnArray, IsClosed, CloseFindsNull,
     CloseRefused, CloseFails, State
<1>3. db # "none"
  BY DEF LockInv
<1>4. CASE AskWithoutVector(t) \/ AskCached(t) \/ ReturnArray(t)
  <2>1. State = "open"
    BY <1>3, <1>4, BusyAlone
    DEF AskWithoutVector, AskCached, ReturnArray, MayUseDb, FillingPc, State
  <2>2. \E a \in {"array", "class object"} : Promised!Tell(t, a)
    BY <1>4 DEF AskWithoutVector, AskCached, ReturnArray, Returns, Promised!Tell
  <2>3. Promised!AnswerColumnFamilies(t)
    BY <1>1, <1>2, <2>1, <2>2 DEF Promised!AnswerColumnFamilies
  <2>4. QED BY <2>3 DEF Promised!Next
<1>5. CASE CloseFindsNull(t) \/ (IsClosed(t) /\ db = "freed")
  <2>1. State = "closed" /\ Promised!Tell(t, "closed")
    BY <1>5 DEF CloseFindsNull, LeavesClose, IsClosed, Returns, Promised!Tell, State
  <2>2. Promised!AnswerClosed(t)
    BY <1>1, <1>2, <2>1 DEF Promised!AnswerClosed
  <2>3. QED BY <2>2 DEF Promised!Next
<1>6. CASE CloseRefused(t) \/ CloseFails(t) \/ (IsClosed(t) /\ db # "freed")
  <2>1. State = "open"
    BY <1>3, <1>6 DEF CloseRefused, CloseFails, State
  <2>2. \E a \in {"refused", "still open"} : Promised!Tell(t, a)
    BY <1>6 DEF CloseRefused, CloseFails, LeavesClose, IsClosed, Returns, Promised!Tell
  <2>3. Promised!AnswerOpen(t)
    BY <1>1, <1>2, <2>1, <2>2 DEF Promised!AnswerOpen
  <2>4. QED BY <2>3 DEF Promised!Next
<1>7. QED BY <1>4, <1>5, <1>6

LEMMA DeleteRefines ==
  ASSUME CarefulInv, NEW t \in Thread, DeleteDb(t)
  PROVE  Promised!Next
<1> USE DEF CarefulInv, CloseInv, Orderly
<1>1. db = "shut" /\ db' = "freed" /\ UNCHANGED Fates
  BY FatesFrame DEF DeleteDb, LockInv, arrayVars
<1>2. \A w \in Wrapper : wrap[w] # "held"
  BY <1>1 DEF DropInv
<1>3. \A o \in Child \cup Snapshot : native[o] # "live"
  BY <1>1 DEF CloseAlone, Live
<1>4. \A o \in Native : Fates[o] # "live"
  BY <1>2, <1>3 DEF Fates, Fate, HandedOut, Native, TypeOK
<1>5. Promised!Tell(t, "closed")
  BY DEF DeleteDb, LeavesClose, Returns, Promised!Tell
<1>6. Promised!Close(t)
  BY <1>1, <1>4, <1>5, SameObjects DEF Promised!Close, State
<1>7. QED BY <1>6 DEF Promised!Next

\* Steps that only the threads and the lock can see.
LEMMA SilentRefines ==
  ASSUME NEW t \in Thread,
         \/ \E o \in Native \cup {Nothing} : BeginUse(t, o)
         \/ \E s \in Snapshot : BeginRelease(t, s)
         \/ AskUncached(t) \/ MakeArray(t)
         \/ CallClose(t) \/ Dealloc(t) \/ EnterClose(t) \/ DropHandles(t)
         \/ CloseNative(t)
  PROVE  UNCHANGED <<State, Fates, answer>>
<1>1. UNCHANGED <<native, wrap, answer>>
  BY DEF BeginUse, BeginRelease, AskUncached, MakeArray, CallClose, Dealloc,
     EnterClose, DropHandles, CloseNative, arrayVars
<1>2. UNCHANGED State
  BY DEF BeginUse, BeginRelease, AskUncached, MakeArray, CallClose, Dealloc,
     EnterClose, DropHandles, CloseNative, State
<1>3. QED BY <1>1, <1>2, FatesFrame

LEMMA StepRefines ==
  ASSUME Careful, CarefulInv, [Next]_vars
  PROVE  Promised!Next \/ UNCHANGED <<State, Fates, answer>>
<1>1. CASE UNCHANGED vars
  BY <1>1, FatesFrame DEF vars, arrayVars, callVars, State
<1>2. CASE Open
  BY <1>2, OpenRefines
<1>3. ASSUME NEW t \in Thread, Call(t) \/ Step(t)
      PROVE  Promised!Next \/ UNCHANGED <<State, Fates, answer>>
  <2>1. phase \notin {"new", "failed"}
    BY <1>3, Opened
  <2>2. ASSUME NEW w \in Wrapper, CloseWrapper(t, w) \/ CloseHandle(t, w)
        PROVE  Promised!Next \/ UNCHANGED <<State, Fates, answer>>
    BY <2>2, CloseHandleOfRefines DEF CloseWrapper, CloseHandle, callVars
  <2>3. ASSUME NEW f \in Family, AddHandle(t, f) PROVE Promised!Next
    BY <2>1, <2>3, AddHandleRefines
  <2>4. CASE Call(t)
    BY <2>1, <2>2, <2>4, SilentRefines, ReleaseRefines, AnswerRefines, Zenon DEF Call
  <2>5. CASE Step(t)
    BY <2>1, <2>2, <2>3, <2>5, SilentRefines, EndUseRefines, ReleaseRefines,
       AnswerRefines, DeleteRefines, Zenon DEF Step
  <2>6. QED BY <1>3, <2>4, <2>5
<1>4. QED BY <1>1, <1>2, <1>3 DEF Next

LEMMA InitRefines == Init => Promised!Init
<1> SUFFICES ASSUME Init PROVE Promised!Init
  OBVIOUS
<1>1. Fates = [o \in Native |-> "none"]
  BY DEF Init, Fates, Fate, HandedOut
<1>2. QED BY <1>1, SameObjects DEF Init, Promised!Init, State

\* To a careful application the object is the abstract one of DatabaseObject:
\* each call takes effect at one moment, in spite of the steps it consists of.
THEOREM ImplementsDatabaseObject == ASSUME Careful PROVE Spec => IsDatabaseObject
<1>1. CarefulInv /\ [Next]_vars => [Promised!Next]_<<State, Fates, answer>>
  BY StepRefines
<1>2. QED
  BY <1>1, InitRefines, CarefulInvInductive, PTL
  DEF Spec, IsDatabaseObject, Promised!DatabaseObjectSpec
=============================================================================
