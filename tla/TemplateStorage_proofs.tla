----------------------- MODULE TemplateStorage_proofs ------------------------
(***************************************************************************)
(* Proofs about TemplateStorage for every number of slots, ids, groups and *)
(* templates and every set of faults.                                      *)
(*                                                                         *)
(* There is always a free id because there are more ids than slots         *)
(* (FreeId); Emptied, Filled and Amended are the three ways a step changes *)
(* an index.  IInv adds to TypeOK what the positions of the two threads    *)
(* say of their locals: above all that the id the worker is about to store *)
(* is not in use.                                                          *)
(***************************************************************************)
EXTENDS TemplateStorage, FiniteSetTheorems, WellFoundedInduction, TLAPS

USE StorageOK

-----------------------------------------------------------------------------
(* Least and greatest elements, and slots                                  *)
-----------------------------------------------------------------------------
Less == {p \in Nat \X Nat : p[1] < p[2]}

\* A non-empty set of natural numbers has a least element.
LEMMA LeastOf ==
  ASSUME NEW S \in SUBSET Nat, S # {}
  PROVE  \E x \in S : \A y \in S : x <= y
<1>1. IsWellFoundedOn(Less, Nat)
  BY NatLessThanWellFounded DEF OpToRel, Less
<1>2. PICK x \in S : \A y \in S : <<y, x>> \notin Less
  BY <1>1, WFMin
<1>3. \A y \in S : <<y, x>> \in Less <=> y < x
  BY DEF Less
<1>4. \A y \in S : ~(y < x)
  BY <1>2, <1>3, Zenon
<1>5. x \in Nat /\ S \subseteq Nat
  OBVIOUS
<1>6. \A y \in S : x <= y
  BY <1>4, <1>5
<1> QED BY <1>6

\* Min names it.
LEMMA MinOf ==
  ASSUME NEW S \in SUBSET Nat, S # {}
  PROVE  Min(S) \in S /\ \A y \in S : Min(S) <= y
BY LeastOf DEF Min

\* Max names an element of a set of naturals below a bound.
LEMMA MaxOf ==
  ASSUME NEW b \in Nat, NEW S \in SUBSET (0 .. b), S # {}
  PROVE  Max(S) \in S
<1> DEFINE T == {i \in Nat : b - i \in S}
<1>1. T # {}
  <2>1. PICK x \in S : x \in 0 .. b
    OBVIOUS
  <2>2. b - (b - x) = x /\ b - x \in Nat
    BY <2>1
  <2> QED BY <2>1, <2>2
<1>2. PICK i \in T : \A j \in T : i <= j
  BY <1>1, LeastOf
<1>3. \A y \in S : b - y \in T /\ y <= b - i
  <2> TAKE y \in S
  <2>1. b - (b - y) = y /\ b - y \in Nat
    OBVIOUS
  <2> QED BY <1>2, <2>1
<1>4. b - i \in S
  BY <1>2
<1> QED BY <1>3, <1>4 DEF Max

\* The ids in a set of slots are valid ones, or 0 for a slot that is empty.
LEMMA UsedIds ==
  ASSUME NEW t \in Sets
  PROVE  /\ UsedIn(t) \subseteq Ids \cup {0}
         /\ UsedIn(t) # {}
         /\ \A s \in Slots : t[s].id \in UsedIn(t) /\ (t[s].id \in Ids \/ t[s] = Empty)
BY DEF Sets, Slot, Empty, UsedIn, Slots, Ids

LEMMA LastOf ==
  ASSUME NEW t \in Sets
  PROVE  Max(UsedIn(t)) \in Ids \cup {0}
<1>1. UsedIn(t) \subseteq 0 .. EndId
  BY UsedIds DEF Ids
<1> QED BY <1>1, MaxOf, UsedIds

\* There are more ids than slots, so one is free.
LEMMA FreeId ==
  ASSUME NEW t \in Sets
  PROVE  Ids \ UsedIn(t) # {}
<1>1. IsFiniteSet(Slots) /\ Cardinality(Slots) = TplMax
  BY FS_Interval DEF Slots
<1>2. IsFiniteSet(Ids) /\ Cardinality(Ids) = EndId - FirstId
  BY FS_Interval DEF Ids
<1> DEFINE f == [s \in Slots |-> t[s].id]
<1>3. f \in Surjection(Slots, UsedIn(t))
  BY DEF Surjection, UsedIn
<1>4. IsFiniteSet(UsedIn(t)) /\ Cardinality(UsedIn(t)) <= TplMax
  BY <1>1, <1>3, FS_Surjection
<1>5. CASE Ids \subseteq UsedIn(t)
  <2>1. Cardinality(Ids) <= Cardinality(UsedIn(t))
    BY <1>4, <1>5, FS_Subset
  <2> QED BY <1>2, <1>4, <2>1, FS_CardinalityType
<1> QED BY <1>5

\* What the allocation returns is a valid id that no template has.
LEMMA NextFidFree ==
  ASSUME tpls \in Sets
  PROVE  NextFid \in Ids \ UsedIn(tpls)
<1> DEFINE free  == Ids \ UsedIn(tpls)
           above == {i \in free : i > lastId}
<1>1. free \in SUBSET Nat /\ above \in SUBSET Nat /\ free # {}
  BY FreeId DEF Ids
<1>2. Min(free) \in free /\ (above # {} => Min(above) \in above)
  BY <1>1, MinOf
<1> QED BY <1>2 DEF NextFid
-----------------------------------------------------------------------------
(* The parts of a step                                                     *)
-----------------------------------------------------------------------------
\* Emptying a slot keeps an index in order and gives out no id.
LEMMA Emptied ==
  ASSUME NEW t, IndexOK(t), NEW s \in Slots
  PROVE  /\ IndexOK([t EXCEPT ![s] = Empty])
         /\ UsedIn([t EXCEPT ![s] = Empty]) \subseteq UsedIn(t) \cup {0}
<1> DEFINE u == [t EXCEPT ![s] = Empty]
<1>1. u \in Sets
  BY DEF IndexOK, Sets, Slot
<1>2. \A r \in Slots : u[r] = IF r = s THEN Empty ELSE t[r]
  BY DEF IndexOK, Sets
<1>3. DistinctIn(u)
  BY <1>2 DEF IndexOK, DistinctIn, Empty
<1>4. UsedIn(u) \subseteq UsedIn(t) \cup {0}
  BY <1>2 DEF UsedIn, Empty
<1> HIDE DEF u
<1>5. IndexOK(u)
  BY <1>1, <1>3 DEF IndexOK
<1> QED BY <1>4, <1>5 DEF u

\* So does filling one with an id that is not in use.
LEMMA Filled ==
  ASSUME NEW t, IndexOK(t), NEW s \in Slots,
         NEW i \in Ids \ UsedIn(t), NEW d \in Templates
  PROVE  IndexOK([t EXCEPT ![s] = [id |-> i, sum |-> d, fails |-> 0]])
<1> DEFINE u == [t EXCEPT ![s] = [id |-> i, sum |-> d, fails |-> 0]]
<1>1. u \in Sets
  BY DEF IndexOK, Sets, Slot
<1>2. \A r \in Slots : u[r] = IF r = s THEN [id |-> i, sum |-> d, fails |-> 0] ELSE t[r]
  BY DEF IndexOK, Sets
<1>3. \A r \in Slots : t[r].id # i
  BY DEF UsedIn
<1>4. DistinctIn(u)
  BY <1>2, <1>3 DEF IndexOK, DistinctIn
<1> HIDE DEF u
<1>5. IndexOK(u)
  BY <1>1, <1>4 DEF IndexOK
<1> QED BY <1>5 DEF u

\* So does a change of the checksum or the count of failures in a slot in use.
LEMMA Amended ==
  ASSUME NEW t, IndexOK(t), NEW s \in Slots, t[s].id \in Ids,
         NEW u, u = [t EXCEPT ![s] = u[s]],
         u[s].id = t[s].id, u[s] \in Slot
  PROVE  IndexOK(u) /\ UsedIn(u) \subseteq UsedIn(t)
<1>1. u \in Sets
  BY DEF IndexOK, Sets
<1>2. \A r \in Slots : u[r].id = t[r].id
  BY DEF IndexOK, Sets
<1>3. DistinctIn(u)
  BY <1>2 DEF IndexOK, DistinctIn
<1> QED BY <1>1, <1>2, <1>3 DEF IndexOK, UsedIn

\* A file is written or deleted where files may be.
LEMMA FileSet ==
  ASSUME FilesOK, path \in Groups, NEW i \in Ids
  PROVE  /\ \A d \in Templates \cup {0} : SetFile(i, d) => FilesOK'
         /\ Unlink(i) => FilesOK'
BY DEF FilesOK, SetFile, Unlink

\* Reading the index of the group, or creating it.
LEMMA IndexRead ==
  ASSUME MemoryOK, DiskOK, ReadIndex
  PROVE  /\ IndexOK(tpls') /\ lastId' \in Ids \cup {0} /\ opened' = TRUE
         /\ DOMAIN index' = Groups
         /\ \A g \in Groups : index'[g] = NoIndex \/ IndexOK(index'[g])
<1>1. IndexOK(Blank)
  BY DEF IndexOK, Blank, Sets, Slot, DistinctIn, Empty
<1>2. CASE index[path] = NoIndex
  BY <1>1, <1>2 DEF ReadIndex, MemoryOK, DiskOK, IndexOK, SaveSets, SaveSetsFails, SaveSetsLies
<1>3. CASE index[path] # NoIndex
  BY <1>3, LastOf DEF ReadIndex, MemoryOK, DiskOK, IndexOK
<1> QED BY <1>2, <1>3

\* Saving an index that is in order.
LEMMA IndexSaved ==
  ASSUME DiskOK, path \in Groups, NEW t, IndexOK(t), SaveSets(t) \/ UNCHANGED index
  PROVE  /\ DOMAIN index' = Groups
         /\ \A g \in Groups : index'[g] = NoIndex \/ IndexOK(index'[g])
BY DEF DiskOK, IndexOK, SaveSets

\* Counting a failure, up to dropping the template.
LEMMA FailedOnce ==
  ASSUME IndexOK(tpls), FilesOK, path \in Groups,
         acked \subseteq Groups \X Ids,
         NEW s \in Slots, tpls[s].id \in Ids, FailOnce(s)
  PROVE  /\ IndexOK(tpls') /\ UsedIn(tpls') \subseteq UsedIn(tpls) \cup {0}
         /\ FilesOK' /\ acked' \subseteq Groups \X Ids
<1>1. CASE tpls[s].fails + 1 < MaxFail
  <2>1. tpls[s] \in [id : Ids, sum : Templates, fails : 0 .. MaxFail - 1]
    BY DEF IndexOK, Sets, Slot, Empty, Ids
  <2>2. /\ tpls'[s] = [tpls[s] EXCEPT !.fails = @ + 1]
        /\ tpls' = [tpls EXCEPT ![s] = tpls'[s]]
    BY <1>1 DEF FailOnce, IndexOK, Sets
  <2>3. tpls'[s].id = tpls[s].id /\ tpls'[s] \in Slot
    BY <1>1, <2>1, <2>2 DEF Slot
  <2>4. IndexOK(tpls') /\ UsedIn(tpls') \subseteq UsedIn(tpls)
    BY <2>2, <2>3, Amended
  <2> QED BY <1>1, <2>4 DEF FailOnce, FilesOK
<1>2. CASE ~(tpls[s].fails + 1 < MaxFail)
  BY <1>2, Emptied, FileSet DEF FailOnce
<1> QED BY <1>1, <1>2
-----------------------------------------------------------------------------
(* The inductive invariant                                                 *)
-----------------------------------------------------------------------------
\* What the positions of the worker and the caller say of their locals.
Steady ==
  /\ wpc # "idle" => wbuf \in Templates
  /\ wpc \in {"place", "write"} => opened /\ wid \in Ids \ UsedIn(tpls)
  /\ wpc \in {"index", "enrolled", "update", "update_index"} => wid \in Ids
  /\ cpc \notin {"idle", "init", "read", "load", "remove"} => cid \in Ids
  /\ cpc \in {"init", "read"} => wpc = "idle"

IInv == TypeOK /\ Steady

\* A slot in use.
Used == [id : Ids, sum : Templates, fails : 0 .. MaxFail - 1]

\* The slots that hold an id; a slot with a count of failures holds one.
LEMMA SlotsOfIn ==
  ASSUME IndexOK(tpls), NEW i \in Ids, NEW s \in SlotsOf(i)
  PROVE  s \in Slots /\ tpls[s].id \in Ids /\ tpls[s] \in Used
BY DEF Used, SlotsOf, IndexOK, Sets, Slot, Empty, Ids

LEMMA VictimIn ==
  ASSUME IndexOK(tpls), Worst # {}
  PROVE  Victim \in Slots /\ tpls[Victim].id \in Ids
<1>1. Worst \in SUBSET Nat
  BY DEF Worst, Slots
<1>2. Victim \in Worst
  BY <1>1, MinOf DEF Victim
<1> QED BY <1>2 DEF Worst, IndexOK, Sets, Slot, Empty

LEMMA FirstOf ==
  ASSUME NEW i, SlotsOf(i) # {}
  PROVE  Min(SlotsOf(i)) \in SlotsOf(i) /\ Min(SlotsOf(i)) \in Slots
<1>1. SlotsOf(i) \in SUBSET Nat
  BY DEF SlotsOf, Slots
<1> QED BY <1>1, MinOf DEF SlotsOf

\* The parts of the invariant that a step can read, in one place.
LEMMA Facts ==
  ASSUME IInv
  PROVE  /\ MemoryOK /\ DiskOK /\ WorkerOK /\ CallerOK /\ HistoryOK /\ Steady
         /\ IndexOK(tpls) /\ FilesOK /\ path \in Groups
         /\ acked \subseteq Groups \X Ids /\ todo \subseteq Ids
BY DEF IInv, TypeOK, MemoryOK, DiskOK, CallerOK, HistoryOK

LEMMA InitIInv == Init => IInv
<1> SUFFICES ASSUME Init PROVE IInv
  OBVIOUS
<1>1. IndexOK(Blank)
  BY DEF IndexOK, Blank, Sets, Slot, DistinctIn, Empty
<1>2. MemoryOK
  BY <1>1 DEF Init, MemoryOK
<1>3. DiskOK
  BY DEF Init, DiskOK, FilesOK
<1>4. WorkerOK
  BY DEF Init, WorkerOK, WorkerPcs, Slots
<1>5. CallerOK
  BY DEF Init, CallerOK, CallerPcs
<1>6. HistoryOK
  BY DEF Init, HistoryOK, Templates
<1> QED BY <1>2, <1>3, <1>4, <1>5, <1>6 DEF IInv, TypeOK, Steady, Init

-----------------------------------------------------------------------------
(* The steps of the worker, and opening the store                          *)
-----------------------------------------------------------------------------
LEMMA Open_IInv ==
  ASSUME IInv, GroupIdle, Open
  PROVE  IInv'
<1> USE DEF Open, memory, disk, wvars, cvars, reports, history
<1>1. MemoryOK'
  BY Facts, IndexRead DEF MemoryOK
<1>2. DiskOK'
  BY Facts, IndexRead DEF DiskOK, FilesOK
<1>3. WorkerOK'
  BY DEF IInv, TypeOK, WorkerOK, WorkerPcs, Steady
<1>4. CallerOK'
  BY DEF IInv, TypeOK, CallerOK, CallerPcs, WorkerOK, Steady
<1>5. HistoryOK'
  BY DEF IInv, TypeOK, HistoryOK
<1>6. Steady'
  BY Facts DEF Steady
<1> QED BY <1>1, <1>2, <1>3, <1>4, <1>5, <1>6 DEF IInv, TypeOK

LEMMA Make_IInv ==
  ASSUME IInv, GroupIdle, NEW id \in Ids \cup {0}, NEW p \in {"fid", "update"},
         p = "update" => id \in Ids, Make(id, p)
  PROVE  IInv'
<1> USE DEF Make, memory, disk, wvars, cvars, reports, history
<1>1. made + 1 \in Templates /\ wbuf' = made + 1
  BY Facts DEF HistoryOK, Templates
<1>2. MemoryOK'
  BY DEF IInv, TypeOK, MemoryOK, Steady
<1>3. DiskOK'
  BY DEF IInv, TypeOK, DiskOK, FilesOK
<1>4. WorkerOK'
  BY <1>1, Facts DEF WorkerOK, WorkerPcs
<1>5. CallerOK'
  BY DEF IInv, TypeOK, CallerOK, CallerPcs, WorkerOK, Steady
<1>6. HistoryOK'
  BY <1>1, Facts DEF HistoryOK, Templates
<1>7. Steady'
  BY <1>1, Facts DEF Steady, CallerOK, CallerPcs
<1> QED BY <1>2, <1>3, <1>4, <1>5, <1>6, <1>7 DEF IInv, TypeOK

LEMMA EnrollEnd_IInv == IInv /\ GroupIdle /\ EnrollEnd => IInv'
  BY Make_IInv DEF EnrollEnd

LEMMA AuthEnd_IInv == IInv /\ GroupIdle /\ AuthEnd => IInv'
  BY Make_IInv, Facts DEF AuthEnd, CallerOK

LEMMA AllocateFid_IInv ==
  ASSUME IInv, GroupIdle, AllocateFid
  PROVE  IInv'
<1> USE DEF AllocateFid, memory, disk, wvars, cvars, reports, history
<1>1. NextFid \in Ids \ UsedIn(tpls)
  BY Facts, NextFidFree DEF IndexOK
<1>2. MemoryOK'
  BY <1>1, Facts DEF MemoryOK
<1>3. DiskOK'
  BY DEF IInv, TypeOK, DiskOK, FilesOK
<1>4. WorkerOK'
  BY <1>1, Facts DEF WorkerOK, WorkerPcs
<1>5. CallerOK'
  BY DEF IInv, TypeOK, CallerOK, CallerPcs, WorkerOK, Steady
<1>6. HistoryOK'
  BY DEF IInv, TypeOK, HistoryOK
<1>7. Steady'
  BY <1>1, Facts DEF Steady, UsedIn
<1> QED BY <1>2, <1>3, <1>4, <1>5, <1>6, <1>7 DEF IInv, TypeOK

LEMMA PlaceTemplate_IInv ==
  ASSUME IInv, GroupIdle, PlaceTemplate
  PROVE  IInv'
<1> USE DEF PlaceTemplate, WorkerDone, memory, disk, wvars, cvars, reports, history
<1>1. Worst # {} => Victim \in Slots /\ tpls[Victim].id \in Ids
  BY Facts, VictimIn
<1>2. /\ IndexOK(tpls') /\ UsedIn(tpls') \subseteq UsedIn(tpls) \cup {0}
      /\ FilesOK' /\ acked' \subseteq acked
  <2>1. CASE UNCHANGED <<tpls, file, acked>>
    BY <2>1, Facts DEF FilesOK
  <2>2. CASE /\ Worst # {} /\ tpls' = [tpls EXCEPT ![Victim] = Empty]
             /\ Unlink(tpls[Victim].id) /\ acked' \subseteq acked
    BY <1>1, <2>2, Facts, Emptied, FileSet
  <2> QED BY <2>1, <2>2
<1>3. SlotsOf(0) # {} => Min(SlotsOf(0)) \in Slots
  BY FirstOf
<1>4. MemoryOK'
  BY <1>2, Facts DEF MemoryOK
<1>5. DiskOK'
  BY <1>2, Facts DEF DiskOK
<1>6. WorkerOK'
  BY <1>1, <1>3, Facts DEF WorkerOK, WorkerPcs
<1>7. CallerOK'
  BY DEF IInv, TypeOK, CallerOK, CallerPcs, WorkerOK, Steady
<1>8. HistoryOK'
  BY <1>2, Facts DEF HistoryOK
<1>9. Steady'
  <2>1. 0 \notin Ids
    BY DEF Ids
  <2> QED BY <1>2, <2>1, Facts DEF Steady
<1> QED BY <1>4, <1>5, <1>6, <1>7, <1>8, <1>9 DEF IInv, TypeOK

LEMMA WriteTemplate_IInv ==
  ASSUME IInv, GroupIdle, WriteTemplate
  PROVE  IInv'
<1> USE DEF WriteTemplate, WorkerDone, memory, disk, wvars, cvars, reports, history
<1>1. IndexOK(tpls')
  BY Facts, Filled DEF Steady, WorkerOK
<1>2. FilesOK'
  BY Facts, FileSet DEF Steady, FilesOK
<1>3. MemoryOK'
  BY <1>1, Facts DEF MemoryOK
<1>4. DiskOK'
  BY <1>2, Facts DEF DiskOK
<1>5. WorkerOK'
  BY Facts DEF WorkerOK, WorkerPcs
<1>6. CallerOK'
  BY DEF IInv, TypeOK, CallerOK, CallerPcs, WorkerOK, Steady
<1>7. HistoryOK'
  BY Facts DEF HistoryOK
<1>8. Steady'
  BY Facts DEF Steady
<1> QED BY <1>3, <1>4, <1>5, <1>6, <1>7, <1>8 DEF IInv, TypeOK

LEMMA IndexTemplate_IInv ==
  ASSUME IInv, GroupIdle, IndexTemplate
  PROVE  IInv'
<1> USE DEF IndexTemplate, memory, disk, wvars, cvars, reports, history
<1>1. IndexOK(tpls')
  BY Facts, Emptied DEF WorkerOK
<1>2. FilesOK'
  BY Facts, FileSet DEF Steady, FilesOK
<1>3. MemoryOK'
  BY <1>1, Facts DEF MemoryOK
<1>4. DiskOK'
  BY <1>2, Facts, IndexSaved DEF DiskOK, SaveSetsFails, SaveSetsLies
<1>5. WorkerOK'
  BY Facts DEF WorkerOK, WorkerPcs
<1>6. CallerOK'
  BY DEF IInv, TypeOK, CallerOK, CallerPcs, WorkerOK, Steady
<1>7. HistoryOK'
  BY DEF IInv, TypeOK, HistoryOK
<1>8. Steady'
  BY Facts DEF Steady
<1> QED BY <1>3, <1>4, <1>5, <1>6, <1>7, <1>8 DEF IInv, TypeOK

LEMMA Enrolled_IInv ==
  ASSUME IInv, GroupIdle, Enrolled
  PROVE  IInv'
<1> USE DEF Enrolled, memory, disk, wvars, cvars, reports, history
<1>1. MemoryOK'
  BY DEF IInv, TypeOK, MemoryOK, Steady
<1>2. DiskOK'
  BY DEF IInv, TypeOK, DiskOK, FilesOK
<1>3. WorkerOK'
  BY DEF IInv, TypeOK, WorkerOK, WorkerPcs, Steady
<1>4. CallerOK'
  BY Facts DEF CallerOK, Steady
<1>5. HistoryOK'
  BY Facts DEF HistoryOK, Steady, WorkerOK, Templates
<1>6. Steady'
  BY DEF IInv, TypeOK, Steady, MemoryOK, WorkerOK, CallerOK, HistoryOK, UsedIn
<1> QED BY <1>1, <1>2, <1>3, <1>4, <1>5, <1>6 DEF IInv, TypeOK

LEMMA UpdateTemplate_IInv ==
  ASSUME IInv, GroupIdle, UpdateTemplate
  PROVE  IInv'
<1> USE DEF UpdateTemplate, WorkerDone, memory, disk, wvars, cvars, reports, history
<1>1. wid \in Ids /\ wbuf \in Templates
  BY Facts DEF Steady
<1>2. IndexOK(tpls')
  <2> DEFINE s == Min(SlotsOf(wid))
  <2>1. CASE UNCHANGED tpls
    BY <2>1, Facts DEF IndexOK, Sets, DistinctIn
  <2>2. CASE SlotsOf(wid) # {} /\ tpls' = [tpls EXCEPT ![s].sum = wbuf]
    <3>1. s \in Slots /\ tpls[s].id \in Ids /\ tpls[s] \in Used
      BY <1>1, <2>2, Facts, FirstOf, SlotsOfIn
    <3> HIDE DEF s
    <3>2. tpls'[s] = [tpls[s] EXCEPT !.sum = wbuf] /\ tpls' = [tpls EXCEPT ![s] = tpls'[s]]
      BY <2>2, <3>1, Facts DEF IndexOK, Sets
    <3>3. tpls'[s].id = tpls[s].id /\ tpls'[s] \in Slot
      BY <1>1, <3>1, <3>2 DEF Slot, Used
    <3> QED BY <3>1, <3>2, <3>3, Facts, Amended
  <2> QED BY <2>1, <2>2
<1>3. FilesOK'
  BY <1>1, Facts, FileSet DEF FilesOK
<1>4. MemoryOK'
  BY <1>2, Facts DEF MemoryOK
<1>5. DiskOK'
  BY <1>3, Facts DEF DiskOK
<1>6. WorkerOK'
  BY Facts DEF WorkerOK, WorkerPcs
<1>7. CallerOK'
  BY Facts DEF CallerOK
<1>8. HistoryOK'
  BY Facts DEF HistoryOK
<1>9. Steady'
  BY Facts DEF Steady
<1> QED BY <1>4, <1>5, <1>6, <1>7, <1>8, <1>9 DEF IInv, TypeOK

LEMMA UpdateIndex_IInv ==
  ASSUME IInv, GroupIdle, UpdateIndex
  PROVE  IInv'
<1> USE DEF UpdateIndex, WorkerDone, memory, disk, wvars, cvars, reports, history
<1>1. MemoryOK'
  BY Facts DEF MemoryOK
<1>2. DiskOK'
  BY Facts, IndexSaved DEF DiskOK, FilesOK, SaveSetsFails, SaveSetsLies
<1>3. WorkerOK'
  BY Facts DEF WorkerOK, WorkerPcs
<1>4. CallerOK'
  BY Facts DEF CallerOK
<1>5. HistoryOK'
  BY DEF IInv, TypeOK, HistoryOK
<1>6. Steady'
  BY Facts DEF Steady
<1> QED BY <1>1, <1>2, <1>3, <1>4, <1>5, <1>6 DEF IInv, TypeOK

-----------------------------------------------------------------------------
(* The steps of the caller, and a crash                                    *)
-----------------------------------------------------------------------------
LEMMA SetActiveGroup_IInv ==
  ASSUME IInv, GroupIdle, NEW g \in Groups, SetActiveGroup(g)
  PROVE  IInv'
<1> USE DEF SetActiveGroup, Enter, memory, disk, wvars, cvars, reports, history
<1>1. MemoryOK'
  BY Facts DEF MemoryOK
<1>2. DiskOK'
  BY DEF IInv, TypeOK, DiskOK, FilesOK
<1>3. WorkerOK'
  BY Facts DEF WorkerOK
<1>4. CallerOK'
  BY Facts DEF CallerOK, CallerPcs
<1>5. HistoryOK'
  BY DEF IInv, TypeOK, HistoryOK
<1>6. Steady'
  BY Facts DEF Steady
<1> QED BY <1>1, <1>2, <1>3, <1>4, <1>5, <1>6 DEF IInv, TypeOK

LEMMA InitLock_IInv ==
  ASSUME IInv, GroupIdle, InitLock
  PROVE  IInv'
<1> USE DEF InitLock, memory, disk, wvars, cvars, reports, history
<1>1. MemoryOK'
  BY DEF IInv, TypeOK, MemoryOK, Steady
<1>2. DiskOK'
  BY DEF IInv, TypeOK, DiskOK, FilesOK
<1>3. WorkerOK'
  BY DEF IInv, TypeOK, WorkerOK, WorkerPcs, Steady
<1>4. CallerOK'
  BY DEF IInv, TypeOK, CallerOK, CallerPcs, WorkerOK, Steady
<1>5. HistoryOK'
  BY DEF IInv, TypeOK, HistoryOK
<1>6. Steady'
  BY Facts DEF Steady
<1> QED BY <1>1, <1>2, <1>3, <1>4, <1>5, <1>6 DEF IInv, TypeOK

LEMMA ListIds_IInv ==
  ASSUME IInv, GroupIdle, ListIds
  PROVE  IInv'
<1> USE DEF ListIds, memory, disk, wvars, cvars, reports, history
<1>1. MemoryOK'
  BY Facts, IndexRead DEF MemoryOK
<1>2. DiskOK'
  BY Facts, IndexRead DEF DiskOK, FilesOK
<1>3. WorkerOK'
  BY DEF IInv, TypeOK, WorkerOK, WorkerPcs, Steady
<1>4. CallerOK'
  <2>1. UsedIn(tpls') \ {0} \subseteq Ids
    BY Facts, IndexRead, UsedIds DEF IndexOK
  <2> QED BY <2>1, Facts DEF CallerOK, CallerPcs
<1>5. HistoryOK'
  BY DEF IInv, TypeOK, HistoryOK
<1>6. Steady'
  BY Facts DEF Steady
<1> QED BY <1>1, <1>2, <1>3, <1>4, <1>5, <1>6 DEF IInv, TypeOK

LEMMA LoadTemplate_IInv ==
  ASSUME IInv, GroupIdle, LoadTemplate
  PROVE  IInv'
<1> USE DEF LoadTemplate, memory, disk, wvars, cvars, reports, history
<1>1. cid' \in Ids /\ todo' \subseteq Ids /\ cpc' \in {"load", "ta_load", "good_index", "bad_index"}
  BY Facts
<1>2. /\ IndexOK(tpls') /\ UsedIn(tpls') \subseteq UsedIn(tpls) \cup {0}
      /\ FilesOK' /\ acked' \subseteq Groups \X Ids
  <2>1. CASE UNCHANGED <<tpls, file, acked>>
    BY <2>1, Facts DEF FilesOK
  <2>2. CASE \E id \in todo : \E s \in SlotsOf(id) :
               tpls' = [tpls EXCEPT ![s].fails = 0] /\ UNCHANGED <<file, acked>>
    <3>1. PICK id \in todo : \E s \in SlotsOf(id) :
            tpls' = [tpls EXCEPT ![s].fails = 0] /\ UNCHANGED <<file, acked>>
      BY <2>2
    <3>2. PICK s \in SlotsOf(id) :
            tpls' = [tpls EXCEPT ![s].fails = 0] /\ UNCHANGED <<file, acked>>
      BY <3>1
    <3>3. id \in Ids
      BY Facts
    <3>4. s \in Slots /\ tpls[s].id \in Ids /\ tpls[s] \in Used
      BY <3>3, Facts, SlotsOfIn
    <3>5. tpls'[s] = [tpls[s] EXCEPT !.fails = 0] /\ tpls' = [tpls EXCEPT ![s] = tpls'[s]]
      BY <3>2, <3>4, Facts DEF IndexOK, Sets
    <3>6. tpls'[s].id = tpls[s].id /\ tpls'[s] \in Slot
      BY <3>4, <3>5 DEF Slot, Used
    <3> QED BY <3>2, <3>4, <3>5, <3>6, Facts, Amended DEF FilesOK
  <2>3. CASE \E id \in todo : \E s \in SlotsOf(id) : FailOnce(s)
    <3>1. PICK id \in todo : \E s \in SlotsOf(id) : FailOnce(s)
      BY <2>3
    <3>2. PICK s \in SlotsOf(id) : FailOnce(s)
      BY <3>1
    <3>3. id \in Ids
      BY Facts
    <3> QED BY <3>2, <3>3, Facts, SlotsOfIn, FailedOnce
  <2> QED BY <2>1, <2>2, <2>3
<1>3. MemoryOK'
  BY <1>2, Facts DEF MemoryOK
<1>4. DiskOK'
  BY <1>2, Facts DEF DiskOK
<1>5. WorkerOK'
  BY DEF IInv, TypeOK, WorkerOK, WorkerPcs, Steady
<1>6. CallerOK'
  BY <1>1, Facts DEF CallerOK, CallerPcs
<1>7. HistoryOK'
  BY <1>2, Facts DEF HistoryOK
<1>8. Steady'
  <2>1. 0 \notin Ids
    BY DEF Ids
  <2> QED BY <1>1, <1>2, <2>1, Facts DEF Steady
<1> QED BY <1>3, <1>4, <1>5, <1>6, <1>7, <1>8 DEF IInv, TypeOK

LEMMA LoadIndex_IInv ==
  ASSUME IInv, GroupIdle, LoadIndex
  PROVE  IInv'
<1> USE DEF LoadIndex, memory, disk, wvars, cvars, reports, history
<1>1. MemoryOK'
  BY Facts DEF MemoryOK
<1>2. DiskOK'
  BY Facts, IndexSaved DEF DiskOK, FilesOK, SaveSetsFails, SaveSetsLies
<1>3. WorkerOK'
  BY DEF IInv, TypeOK, WorkerOK, WorkerPcs, Steady
<1>4. CallerOK'
  BY Facts DEF CallerOK, CallerPcs
<1>5. HistoryOK'
  BY DEF IInv, TypeOK, HistoryOK
<1>6. Steady'
  BY Facts DEF Steady
<1> QED BY <1>1, <1>2, <1>3, <1>4, <1>5, <1>6 DEF IInv, TypeOK

LEMMA TaLoad_IInv ==
  ASSUME IInv, GroupIdle, TaLoad
  PROVE  IInv'
<1> USE DEF TaLoad, memory, disk, wvars, cvars, reports, history
<1>1. MemoryOK'
  BY DEF IInv, TypeOK, MemoryOK, Steady
<1>2. DiskOK'
  BY DEF IInv, TypeOK, DiskOK, FilesOK
<1>3. WorkerOK'
  BY DEF IInv, TypeOK, WorkerOK, WorkerPcs, Steady
<1>4. CallerOK'
  BY Facts DEF CallerOK, CallerPcs, Steady
<1>5. HistoryOK'
  BY DEF IInv, TypeOK, HistoryOK
<1>6. Steady'
  BY Facts DEF Steady
<1> QED BY <1>1, <1>2, <1>3, <1>4, <1>5, <1>6 DEF IInv, TypeOK

LEMMA IncFailCount_IInv ==
  ASSUME IInv, GroupIdle, IncFailCount
  PROVE  IInv'
<1> USE DEF IncFailCount, memory, disk, wvars, cvars, reports, history
<1>1. cid \in Ids
  BY Facts DEF Steady
<1>2. /\ IndexOK(tpls') /\ UsedIn(tpls') \subseteq UsedIn(tpls) \cup {0}
      /\ FilesOK' /\ acked' \subseteq Groups \X Ids
  <2>1. CASE UNCHANGED <<tpls, file, acked>>
    BY <2>1, Facts DEF IndexOK, Sets, DistinctIn, UsedIn, FilesOK
  <2>2. CASE \E s \in SlotsOf(cid) : FailOnce(s)
    <3>1. PICK s \in SlotsOf(cid) : FailOnce(s)
      BY <2>2
    <3> QED BY <1>1, <3>1, Facts, SlotsOfIn, FailedOnce
  <2> QED BY <2>1, <2>2
<1>3. MemoryOK'
  BY <1>2, Facts DEF MemoryOK
<1>4. DiskOK'
  BY <1>2, Facts DEF DiskOK
<1>5. WorkerOK'
  BY DEF IInv, TypeOK, WorkerOK, WorkerPcs, Steady
<1>6. CallerOK'
  BY Facts DEF CallerOK, CallerPcs
<1>7. HistoryOK'
  BY <1>2, Facts DEF HistoryOK
<1>8. Steady'
  <2>1. 0 \notin Ids
    BY DEF Ids
  <2> QED BY <1>1, <1>2, <2>1, Facts DEF Steady
<1> QED BY <1>3, <1>4, <1>5, <1>6, <1>7, <1>8 DEF IInv, TypeOK

LEMMA LoadDone_IInv ==
  ASSUME IInv, GroupIdle, LoadDone
  PROVE  IInv'
<1> USE DEF LoadDone, memory, disk, wvars, cvars, reports, history
<1>1. MemoryOK'
  BY DEF IInv, TypeOK, MemoryOK, Steady
<1>2. DiskOK'
  BY DEF IInv, TypeOK, DiskOK, FilesOK
<1>3. WorkerOK'
  BY DEF IInv, TypeOK, WorkerOK, WorkerPcs, Steady
<1>4. CallerOK'
  BY DEF IInv, TypeOK, CallerOK, CallerPcs, WorkerOK, Steady
<1>5. HistoryOK'
  BY DEF IInv, TypeOK, HistoryOK
<1>6. Steady'
  BY Facts DEF Steady
<1> QED BY <1>1, <1>2, <1>3, <1>4, <1>5, <1>6 DEF IInv, TypeOK

LEMMA Remove_IInv ==
  ASSUME IInv, GroupIdle, Remove
  PROVE  IInv'
<1> USE DEF Remove, Enter, memory, disk, wvars, cvars, reports, history
<1>1. MemoryOK'
  BY Facts DEF MemoryOK
<1>2. DiskOK'
  BY DEF IInv, TypeOK, DiskOK, FilesOK
<1>3. WorkerOK'
  BY Facts DEF WorkerOK
<1>4. CallerOK'
  BY Facts DEF CallerOK, CallerPcs, HistoryOK
<1>5. HistoryOK'
  BY DEF IInv, TypeOK, HistoryOK
<1>6. Steady'
  BY Facts DEF Steady
<1> QED BY <1>1, <1>2, <1>3, <1>4, <1>5, <1>6 DEF IInv, TypeOK

LEMMA RemoveTemplate_IInv ==
  ASSUME IInv, GroupIdle, RemoveTemplate
  PROVE  IInv'
<1> USE DEF RemoveTemplate, GivenUp, memory, disk, wvars, cvars, reports, history
<1>1. /\ cid' \in Ids /\ todo' \subseteq todo
      /\ cpc' \in {"remove", "unlink", "ta_remove"}
      /\ acked' \subseteq acked /\ gone' \subseteq gone \cup {<<path, cid'>>}
      /\ misreported' \subseteq misreported \cup {<<path, cid'>>}
  BY Facts
<1>2. /\ IndexOK(tpls') /\ UsedIn(tpls') \subseteq UsedIn(tpls) \cup {0}
      /\ SaveSets(tpls') \/ UNCHANGED index
  <2>1. CASE UNCHANGED <<tpls, index>>
    BY <2>1, Facts
  <2>2. CASE /\ \E s \in Slots : tpls' = [tpls EXCEPT ![s] = Empty]
             /\ SaveSets(tpls') \/ UNCHANGED index
    <3>1. PICK s \in Slots : tpls' = [tpls EXCEPT ![s] = Empty]
      BY <2>2
    <3> QED BY <2>2, <3>1, Facts, Emptied
  <2>3. \A id : SlotsOf(id) \subseteq Slots
    BY DEF SlotsOf
  <2> QED BY <2>1, <2>2, <2>3 DEF SaveSetsFails, SaveSetsLies
<1>3. MemoryOK'
  BY <1>2, Facts DEF MemoryOK
<1>4. DiskOK'
  BY <1>2, Facts, IndexSaved DEF DiskOK, FilesOK
<1>5. WorkerOK'
  BY DEF IInv, TypeOK, WorkerOK, WorkerPcs, Steady
<1>6. CallerOK'
  BY <1>1, Facts DEF CallerOK, CallerPcs
<1>7. HistoryOK'
  BY <1>1, Facts DEF HistoryOK
<1>8. Steady'
  <2>1. 0 \notin Ids
    BY DEF Ids
  <2> QED BY <1>1, <1>2, <2>1, Facts DEF Steady
<1> QED BY <1>3, <1>4, <1>5, <1>6, <1>7, <1>8 DEF IInv, TypeOK

LEMMA UnlinkTemplate_IInv ==
  ASSUME IInv, GroupIdle, UnlinkTemplate
  PROVE  IInv'
<1> USE DEF UnlinkTemplate, memory, disk, wvars, cvars, reports, history
<1>1. MemoryOK'
  BY Facts DEF MemoryOK
<1>2. DiskOK'
  BY Facts, FileSet DEF DiskOK, Steady
<1>3. WorkerOK'
  BY DEF IInv, TypeOK, WorkerOK, WorkerPcs, Steady
<1>4. CallerOK'
  BY DEF IInv, TypeOK, CallerOK, CallerPcs, WorkerOK, Steady
<1>5. HistoryOK'
  BY DEF IInv, TypeOK, HistoryOK
<1>6. Steady'
  BY Facts DEF Steady
<1> QED BY <1>1, <1>2, <1>3, <1>4, <1>5, <1>6 DEF IInv, TypeOK

LEMMA TaRemove_IInv ==
  ASSUME IInv, GroupIdle, TaRemove
  PROVE  IInv'
<1> USE DEF TaRemove, memory, disk, wvars, cvars, reports, history
<1>1. MemoryOK'
  BY DEF IInv, TypeOK, MemoryOK, Steady
<1>2. DiskOK'
  BY DEF IInv, TypeOK, DiskOK, FilesOK
<1>3. WorkerOK'
  BY DEF IInv, TypeOK, WorkerOK, WorkerPcs, Steady
<1>4. CallerOK'
  BY Facts DEF CallerOK, CallerPcs, Steady
<1>5. HistoryOK'
  BY Facts DEF HistoryOK, MemoryOK, Steady
<1>6. Steady'
  BY Facts DEF Steady
<1> QED BY <1>1, <1>2, <1>3, <1>4, <1>5, <1>6 DEF IInv, TypeOK

LEMMA RemoveDone_IInv ==
  ASSUME IInv, GroupIdle, RemoveDone
  PROVE  IInv'
<1> USE DEF RemoveDone, memory, disk, wvars, cvars, reports, history
<1>1. MemoryOK'
  BY DEF IInv, TypeOK, MemoryOK, Steady
<1>2. DiskOK'
  BY DEF IInv, TypeOK, DiskOK, FilesOK
<1>3. WorkerOK'
  BY DEF IInv, TypeOK, WorkerOK, WorkerPcs, Steady
<1>4. CallerOK'
  BY DEF IInv, TypeOK, CallerOK, CallerPcs, WorkerOK, Steady
<1>5. HistoryOK'
  BY DEF IInv, TypeOK, HistoryOK
<1>6. Steady'
  BY Facts DEF Steady
<1> QED BY <1>1, <1>2, <1>3, <1>4, <1>5, <1>6 DEF IInv, TypeOK

LEMMA Crash_IInv ==
  ASSUME IInv, GroupIdle, Crash
  PROVE  IInv'
<1> USE DEF Crash, memory, disk, wvars, cvars, reports, history
<1>1. IndexOK(Blank)
  BY DEF IndexOK, Blank, Sets, Slot, DistinctIn, Empty
<1>2. MemoryOK'
  BY <1>1, Facts DEF MemoryOK
<1>3. DiskOK'
  BY DEF IInv, TypeOK, DiskOK, FilesOK
<1>4. WorkerOK'
  BY DEF WorkerOK, WorkerPcs, Slots
<1>5. CallerOK'
  BY DEF CallerOK, CallerPcs
<1>6. HistoryOK'
  BY Facts DEF HistoryOK
<1>7. Steady'
  BY DEF Steady
<1> QED BY <1>2, <1>3, <1>4, <1>5, <1>6, <1>7 DEF IInv, TypeOK

-----------------------------------------------------------------------------
(* The theorems                                                            *)
-----------------------------------------------------------------------------
LEMMA NextIInv == IInv /\ GroupIdle /\ [Next]_vars => IInv'
<1> SUFFICES ASSUME IInv, GroupIdle, [Next]_vars PROVE IInv'
  OBVIOUS
<1>1. CASE Worker
  BY <1>1, EnrollEnd_IInv, AuthEnd_IInv, AllocateFid_IInv, PlaceTemplate_IInv,
     WriteTemplate_IInv,
     IndexTemplate_IInv, Enrolled_IInv, UpdateTemplate_IInv, UpdateIndex_IInv DEF Worker
<1>2. CASE Caller
  BY <1>2, SetActiveGroup_IInv, InitLock_IInv, ListIds_IInv, LoadTemplate_IInv, LoadIndex_IInv,
     TaLoad_IInv, IncFailCount_IInv, LoadDone_IInv, Remove_IInv, RemoveTemplate_IInv,
     UnlinkTemplate_IInv, TaRemove_IInv, RemoveDone_IInv DEF Caller
<1>3. CASE UNCHANGED vars
  <2> USE <1>3 DEF vars, memory, disk, wvars, cvars, reports, history
  <2>1. MemoryOK' /\ DiskOK'
    BY Facts DEF MemoryOK, DiskOK, FilesOK
  <2>2. WorkerOK' /\ CallerOK'
    BY Facts DEF WorkerOK, CallerOK
  <2>3. HistoryOK' /\ Steady'
    BY Facts DEF HistoryOK, Steady, UsedIn
  <2> QED BY <2>1, <2>2, <2>3 DEF IInv, TypeOK
<1> QED BY <1>1, <1>2, <1>3, Open_IInv, Crash_IInv DEF Next

LEMMA Invariance == ASSUME GroupIdle PROVE Spec => []IInv
<1>1. Init => IInv
  BY InitIInv
<1>2. IInv /\ [Next]_vars => IInv'
  BY NextIInv
<1> QED BY <1>1, <1>2, PTL DEF Spec

\* If the client leaves the group alone while the worker stores, an index never
\* names an id twice, in memory or on disk, whatever fails and however many slots,
\* ids and groups there are.
THEOREM TypeCorrect == ASSUME GroupIdle PROVE Spec => []TypeOK
<1>1. IInv => TypeOK
  BY DEF IInv
<1> QED BY <1>1, Invariance, PTL

\* Likewise the id chosen by silfp_storage_get_next_fid is valid and still free
\* when silfp_storage_save takes the lock again, though another thread may have
\* dropped and removed templates between.
THEOREM FidStaysFresh == ASSUME GroupIdle PROVE Spec => []FreshFid
<1>1. IInv => FreshFid
  BY DEF IInv, Steady, FreshFid
<1> QED BY <1>1, Invariance, PTL

-----------------------------------------------------------------------------
(* What is kept: templates, fingers and the list in the TA                 *)
-----------------------------------------------------------------------------
\* Four faults defeat the store, and each is in the code: an index that is not
\* replaced though the save reports success, one that is not saved after an
\* update, a file that stays when its template goes, and a TA that does not
\* forget.  Without them the following is invariant, whatever else fails.
Reliable == Faults \cap {"rename", "update_index", "unlink", "ta_remove"} = {}

\* The fingers that were reported removed and were.
Removed == gone \ misreported
USE DEF Removed

\* A list of slots has a template with an id and a checksum; its failures are none.
Holds(t, id, d) == \E s \in DOMAIN t : t[s].id = id /\ t[s].sum = d
Clean(t, id) == \A s \in Slots : t[s].id = id => t[s].fails = 0

\* The index in memory is that of the group.
Synced == opened /\ cpc \notin {"init", "read"}

Loading   == {"load", "good_index", "bad_index", "ta_load", "fail_count"}
Good      == {"good_index", "ta_load", "fail_count"}
Enrolling == {"fid", "place", "write", "index", "enrolled"}
Placing   == {"place", "write", "index", "enrolled"}

\* The ids the caller's operation has still to see to.
Pending == IF cpc \in Good THEN todo \cup {cid} ELSE todo \ Leaving

LockOK ==
  /\ wpc \in {"write", "index", "update_index"} => stoLock = "worker"
  /\ cpc \in {"good_index", "bad_index", "unlink"} => stoLock = "caller"

\* Before the store is opened nothing is loaded, and a finger that is to be
\* removed is one the client knows of.
ClosedOK ==
  ~ opened => /\ wpc \in {"idle", "fid"} /\ ta = {}
              /\ cpc \in {"idle", "init", "read", "remove"}
              /\ \A id \in todo : <<path, id>> \in acked

RestOK ==
  /\ cpc \in {"idle", "init", "read"} => todo = {}
  /\ cpc \in {"init", "read"} => ta = {}
  /\ wpc \in Enrolling => "fid" \in late
  /\ wpc # "idle" => origin[wbuf] = path

\* The id of an enrolment is none of those the caller sees to: it was free when
\* they were listed, and there is one enrolment during a call.
PendingOK ==
  /\ wpc \in Placing => wid \notin Pending
  /\ Synced /\ ("fid" \notin late \/ wpc \in {"fid", "place"}) => Pending \subseteq UsedIn(tpls)
  /\ cpc \in Loading => Pending \cap ta = {}

\* A template that was found good stays, without failures, until the TA has it.
GoodOK ==
  cpc \in Good => /\ cid \notin todo /\ <<path, cid>> \notin Removed
                  /\ cid \in UsedIn(tpls) /\ Clean(tpls, cid)

\* How far the template of an enrolment has got.
PlacingOK ==
  /\ wpc \in Placing => wid \notin ta \ Leaving /\ <<path, wid>> \notin acked
  /\ wpc = "write" => tpls[wslot].id = 0
  /\ wpc = "index" => tpls[wslot].id = wid
  /\ wpc \in {"index", "enrolled"} =>
       file[path][wid] = wbuf /\ Holds(tpls, wid, wbuf) /\ Clean(tpls, wid)
  /\ wpc = "enrolled" => Holds(index[path], wid, wbuf)

\* An id that is removed is used again only by an enrolment of its own.
LeavingOK ==
  /\ cpc = "unlink" => <<path, cid>> \notin acked /\ ~ (wpc = "enrolled" /\ wid = cid)
  /\ cpc \in {"unlink", "ta_remove"} /\ <<path, cid>> \in Removed => cid \notin UsedIn(tpls)
  /\ wpc = "update" /\ <<path, wid>> \in Removed => wid \notin UsedIn(tpls)

\* What the TA matches never failed to load since it was stored.
UnfailedOK == \A id \in ta : Clean(tpls, id)

\* Where the name of a removed finger is left, its checksum no longer fits.
GoneOK ==
  \A g \in Groups, id \in Ids : <<g, id>> \in Removed =>
    /\ ~ Holds(index[g], id, file[g][id])
    /\ Synced /\ g = path => ~ Holds(tpls, id, file[path][id])

\* Likewise for a template that was dropped while its index was not saved.
DroppedOK == Synced => \A id \in Ids : Holds(index[path], id, file[path][id]) => id \in UsedIn(tpls)

\* A finger reported enrolled is intact, in memory and on disk; an update
\* between its two writes is the exception on disk.
AckedOK ==
  /\ Synced => \A id \in Ids : <<path, id>> \in acked => Holds(tpls, id, file[path][id])
  /\ \A g \in Groups, id \in Ids : <<g, id>> \in acked =>
       \/ wpc = "update_index" /\ path = g /\ wid = id
       \/ Holds(index[g], id, file[g][id])

Kept == /\ LockOK /\ ClosedOK /\ RestOK /\ PendingOK /\ GoodOK /\ PlacingOK /\ LeavingOK
        /\ UnfailedOK /\ GoneOK /\ DroppedOK /\ AckedOK /\ RemovedStayGone /\ TaHoldsStored

-----------------------------------------------------------------------------
(* Lists of slots                                                          *)
-----------------------------------------------------------------------------
\* A template in a list has an id in use and a checksum, which is its only one.
LEMMA HoldsFacts ==
  ASSUME NEW t, IndexOK(t), NEW i \in Ids
  PROVE  /\ \A d : Holds(t, i, d) => i \in UsedIn(t) /\ d \in Templates /\ d # 0
         /\ i \in UsedIn(t) => \E d \in Templates : Holds(t, i, d)
         /\ \A d, e : Holds(t, i, d) /\ Holds(t, i, e) => d = e
<1>1. DOMAIN t = Slots /\ i # 0
  BY DEF IndexOK, Sets, Ids
<1>2. \A s \in Slots : t[s].id = i => t[s] \in Used
  BY <1>1 DEF IndexOK, Sets, Slot, Used, Empty
<1>3. \A s \in Slots : t[s].id = i => t[s].sum \in Templates /\ t[s].sum # 0
  BY <1>2 DEF Used, Templates
<1> QED BY <1>1, <1>3 DEF Holds, UsedIn, IndexOK, DistinctIn

\* A list without templates, or without slots, holds no id.
LEMMA HoldsNothing ==
  ASSUME NEW i \in Ids, NEW d
  PROVE  ~ Holds(Blank, i, d) /\ ~ Holds(NoIndex, i, d) /\ i \notin UsedIn(Blank)
BY DEF Holds, Blank, NoIndex, Empty, UsedIn, Ids

\* The list u is the list t with the template of id x taken away and no other.
Without(u, t, x) ==
  \A i \in Ids : /\ i \in UsedIn(u) <=> i \in UsedIn(t) /\ i # x
                 /\ \A d : Holds(u, i, d) <=> Holds(t, i, d) /\ i # x
                 /\ Clean(t, i) => Clean(u, i)

\* Emptying a slot takes its template away and no other.
LEMMA HoldsEmptied ==
  ASSUME NEW t, IndexOK(t), NEW s \in Slots, NEW u, u = [t EXCEPT ![s] = Empty]
  PROVE  Without(u, t, t[s].id)
<1> USE DEF Without
<1> SUFFICES ASSUME NEW i \in Ids
             PROVE  /\ i \in UsedIn(u) <=> i \in UsedIn(t) /\ i # t[s].id
                    /\ \A d : Holds(u, i, d) <=> Holds(t, i, d) /\ i # t[s].id
                    /\ Clean(t, i) => Clean(u, i)
  OBVIOUS
<1>1. DOMAIN t = Slots /\ DOMAIN u = Slots /\ i # 0
  BY DEF IndexOK, Sets, Ids
<1>2. \A r \in Slots : u[r] = IF r = s THEN Empty ELSE t[r]
  BY DEF IndexOK, Sets
<1>3. \A r \in Slots : t[r].id = i /\ i = t[s].id => r = s
  BY <1>1 DEF IndexOK, DistinctIn
<1>4. Empty.id = 0
  BY DEF Empty
<1> QED BY <1>1, <1>2, <1>3, <1>4 DEF Holds, UsedIn, Clean

\* Filling an empty one adds a template and no other.
LEMMA HoldsFilled ==
  ASSUME IndexOK(tpls), NEW s \in Slots, tpls[s].id = 0, NEW i \in Ids \ UsedIn(tpls),
         NEW d \in Templates, tpls' = [tpls EXCEPT ![s] = [id |-> i, sum |-> d, fails |-> 0]]
  PROVE  /\ Clean(tpls', i) /\ tpls'[s].id = i
         /\ \A j \in Ids :
              /\ j \in UsedIn(tpls') <=> j \in UsedIn(tpls) \/ j = i
              /\ \A e : Holds(tpls', j, e) <=> Holds(tpls, j, e) \/ (j = i /\ e = d)
              /\ Clean(tpls, j) => Clean(tpls', j)
<1>1. DOMAIN tpls = Slots /\ DOMAIN tpls' = Slots /\ \A j \in Ids : j # 0
  BY DEF IndexOK, Sets, Ids
<1>2. \A r \in Slots : tpls'[r] = IF r = s THEN [id |-> i, sum |-> d, fails |-> 0] ELSE tpls[r]
  BY DEF IndexOK, Sets
<1>3. \A r \in Slots : tpls[r].id # i
  BY DEF UsedIn
<1>4. tpls'[s].id = i /\ tpls'[s].sum = d /\ tpls'[s].fails = 0
  BY <1>2
<1>5. Clean(tpls', i)
  BY <1>2, <1>3 DEF Clean
<1>6. \A j \in Ids : j \in UsedIn(tpls') <=> j \in UsedIn(tpls) \/ j = i
  BY <1>1, <1>2, <1>4 DEF UsedIn
<1>7. \A j \in Ids : \A e : Holds(tpls', j, e) <=> Holds(tpls, j, e) \/ (j = i /\ e = d)
  BY <1>1, <1>2, <1>4 DEF Holds
<1>8. \A j \in Ids : Clean(tpls, j) => Clean(tpls', j)
  BY <1>2, <1>4 DEF Clean
<1> QED BY <1>4, <1>5, <1>6, <1>7, <1>8

\* Changing a slot without its id leaves the other templates alone.
LEMMA HoldsAmended ==
  ASSUME IndexOK(tpls), NEW s \in Slots, NEW i \in Ids, tpls[s].id = i,
         tpls' = [tpls EXCEPT ![s] = tpls'[s]], tpls'[s].id = i
  PROVE  /\ \A j \in Ids :
              /\ j \in UsedIn(tpls') <=> j \in UsedIn(tpls)
              /\ j # i => /\ \A d : Holds(tpls', j, d) <=> Holds(tpls, j, d)
                          /\ Clean(tpls, j) => Clean(tpls', j)
         /\ \A d : Holds(tpls', i, d) <=> d = tpls'[s].sum
         /\ \A d : Holds(tpls, i, d) <=> d = tpls[s].sum
         /\ tpls'[s].fails = 0 => Clean(tpls', i)
<1>1. DOMAIN tpls = Slots /\ DOMAIN tpls' = Slots /\ i # 0
  BY DEF IndexOK, Sets, Ids
<1>2. \A r \in Slots : r # s => tpls'[r] = tpls[r]
  BY DEF IndexOK, Sets
<1>3. \A r \in Slots : tpls[r].id = i => r = s
  BY <1>1 DEF IndexOK, DistinctIn
<1>4. \A r \in Slots : tpls'[r].id = tpls[r].id
  BY <1>2
<1>5. \A j \in Ids : j \in UsedIn(tpls') <=> j \in UsedIn(tpls)
  BY <1>4 DEF UsedIn
<1>6. \A j \in Ids : j # i => /\ \A d : Holds(tpls', j, d) <=> Holds(tpls, j, d)
                              /\ Clean(tpls, j) => Clean(tpls', j)
  BY <1>1, <1>2 DEF Holds, Clean
<1>7. /\ \A d : Holds(tpls', i, d) <=> d = tpls'[s].sum
      /\ \A d : Holds(tpls, i, d) <=> d = tpls[s].sum
      /\ tpls'[s].fails = 0 => Clean(tpls', i)
  BY <1>1, <1>3, <1>4 DEF Holds, Clean
<1> QED BY <1>5, <1>6, <1>7

\* Reading the index of the group brings what it holds into memory.
LEMMA HoldsRead ==
  ASSUME MemoryOK, DiskOK, ReadIndex
  PROVE  \A i \in Ids :
           /\ \A d : Holds(tpls', i, d) <=> Holds(index[path], i, d)
           /\ \A g \in Groups : \A d : Holds(index'[g], i, d) <=> Holds(index[g], i, d)
<1> SUFFICES ASSUME NEW i \in Ids
             PROVE  /\ \A d : Holds(tpls', i, d) <=> Holds(index[path], i, d)
                    /\ \A g \in Groups : \A d : Holds(index'[g], i, d) <=> Holds(index[g], i, d)
  OBVIOUS
<1>1. CASE index[path] = NoIndex
  <2>1. tpls' = Blank /\ (index' = [index EXCEPT ![path] = Blank] \/ index' = index)
    BY <1>1 DEF ReadIndex, SaveSets, SaveSetsFails, SaveSetsLies
  <2>2. \A g \in Groups : index'[g] = index[g] \/ (index'[g] = Blank /\ index[g] = NoIndex)
    BY <1>1, <2>1 DEF DiskOK, MemoryOK
  <2> QED BY <1>1, <2>1, <2>2, HoldsNothing
<1>2. CASE index[path] # NoIndex
  BY <1>2 DEF ReadIndex
<1> QED BY <1>1, <1>2

\* A file is written or deleted in the group and nowhere else.
LEMMA FileAt ==
  ASSUME FilesOK, path \in Groups, NEW i \in Ids, NEW d, SetFile(i, d)
  PROVE  \A g \in Groups, j \in Ids : file'[g][j] = IF g = path /\ j = i THEN d ELSE file[g][j]
BY DEF FilesOK, SetFile

LEMMA FileGone ==
  ASSUME Reliable, FilesOK, path \in Groups, NEW i \in Ids, Unlink(i)
  PROVE  \A g \in Groups, j \in Ids : file'[g][j] = IF g = path /\ j = i THEN 0 ELSE file[g][j]
BY FileAt DEF Unlink, Reliable

LEMMA IndexAt ==
  ASSUME DiskOK, path \in Groups, NEW t, SaveSets(t)
  PROVE  \A g \in Groups : index'[g] = IF g = path THEN t ELSE index[g]
BY DEF SaveSets, DiskOK

\* An index on disk holds checksums of templates; a deleted file fits none.
LEMMA DiskHolds ==
  ASSUME DiskOK, NEW g \in Groups, NEW i \in Ids
  PROVE  ~ Holds(index[g], i, 0)
<1>1. CASE index[g] = NoIndex
  BY <1>1, HoldsNothing
<1>2. CASE IndexOK(index[g])
  BY <1>2, HoldsFacts
<1> QED BY <1>1, <1>2 DEF DiskOK

\* The parts of the invariants in one place.
LEMMA KeptFacts ==
  ASSUME IInv, Kept
  PROVE  /\ LockOK /\ ClosedOK /\ RestOK /\ PendingOK /\ GoodOK /\ PlacingOK /\ LeavingOK
         /\ UnfailedOK /\ GoneOK /\ DroppedOK /\ AckedOK /\ RemovedStayGone /\ TaHoldsStored
         /\ Steady /\ IndexOK(tpls) /\ FilesOK /\ DiskOK /\ path \in Groups
         /\ ta \subseteq Ids /\ todo \subseteq Ids /\ acked \subseteq Groups \X Ids
BY Facts DEF Kept, CallerOK

-----------------------------------------------------------------------------
(* What steps that give a template up, or count a failure, do              *)
-----------------------------------------------------------------------------
\* The template i is taken out of memory, its file deleted, and the client told.
Dropped(i) ==
  /\ acked' = acked \ {<<path, i>>}
  /\ \A g \in Groups, j \in Ids : file'[g][j] = IF g = path /\ j = i THEN 0 ELSE file[g][j]
  /\ Without(tpls', tpls, i)

\* The count of failures of the template i changes and nothing else.
Counted(i) ==
  /\ UNCHANGED <<file, acked>>
  /\ \A j \in Ids : /\ j \in UsedIn(tpls') <=> j \in UsedIn(tpls)
                    /\ \A d : Holds(tpls', j, d) <=> Holds(tpls, j, d)
                    /\ j # i /\ Clean(tpls, j) => Clean(tpls', j)

LEMMA FailedHolds ==
  ASSUME Reliable, IndexOK(tpls), FilesOK, path \in Groups,
         NEW i \in Ids, NEW s \in SlotsOf(i), FailOnce(s)
  PROVE  Dropped(i) \/ Counted(i)
<1>1. s \in Slots /\ tpls[s].id = i /\ tpls[s] \in Used
  BY SlotsOfIn DEF SlotsOf
<1>2. CASE tpls[s].fails + 1 < MaxFail
  <2>1. /\ tpls' = [tpls EXCEPT ![s].fails = @ + 1] /\ UNCHANGED <<file, acked>>
    BY <1>2 DEF FailOnce
  <2>2. /\ tpls'[s] = [tpls[s] EXCEPT !.fails = @ + 1]
        /\ tpls' = [tpls EXCEPT ![s] = tpls'[s]]
    BY <1>1, <2>1 DEF IndexOK, Sets
  <2>3. tpls'[s].id = i /\ tpls'[s].sum = tpls[s].sum
    BY <1>1, <2>2 DEF Used
  <2>4. /\ \A j \in Ids :
              /\ j \in UsedIn(tpls') <=> j \in UsedIn(tpls)
              /\ j # i => /\ \A d : Holds(tpls', j, d) <=> Holds(tpls, j, d)
                          /\ Clean(tpls, j) => Clean(tpls', j)
        /\ \A d : Holds(tpls', i, d) <=> d = tpls'[s].sum
        /\ \A d : Holds(tpls, i, d) <=> d = tpls[s].sum
    BY <1>1, <2>2, <2>3, HoldsAmended
  <2>5. \A d : Holds(tpls', i, d) <=> Holds(tpls, i, d)
    BY <2>3, <2>4
  <2>6. \A j \in Ids : \A d : Holds(tpls', j, d) <=> Holds(tpls, j, d)
    BY <2>4, <2>5
  <2>7. Counted(i)
    BY <2>1, <2>4, <2>6, Zenon DEF Counted
  <2> QED BY <2>7
<1>3. CASE ~ (tpls[s].fails + 1 < MaxFail)
  <2>1. /\ tpls' = [tpls EXCEPT ![s] = Empty] /\ Unlink(i)
        /\ acked' = acked \ {<<path, i>>}
    BY <1>1, <1>3 DEF FailOnce
  <2> QED BY <1>1, <2>1, HoldsEmptied, FileGone DEF Dropped
<1> QED BY <1>2, <1>3

-----------------------------------------------------------------------------
(* The steps of the worker, and opening the store                          *)
-----------------------------------------------------------------------------
LEMMA Open_Kept ==
  ASSUME IInv, Kept, Reliable, GroupIdle, Open, IInv'
  PROVE  Kept'
<1> USE DEF Open, memory, disk, wvars, cvars, reports, history
<1>1. \A i \in Ids :
        /\ \A d : Holds(tpls', i, d) <=> Holds(index[path], i, d)
        /\ \A g \in Groups : \A d : Holds(index'[g], i, d) <=> Holds(index[g], i, d)
  BY Facts, HoldsRead
<1>2. ta = {} /\ wpc \in {"idle", "fid"} /\ cpc \in {"idle", "remove"} /\ opened'
  BY KeptFacts DEF ClosedOK, Steady, ReadIndex
<1>3. IndexOK(tpls')
  BY Facts DEF IInv, TypeOK, MemoryOK
<1>4. todo \subseteq UsedIn(tpls')
  <2> SUFFICES ASSUME NEW id \in todo PROVE id \in UsedIn(tpls')
    OBVIOUS
  <2>1. id \in Ids /\ <<path, id>> \in acked
    BY KeptFacts DEF ClosedOK
  <2>2. Holds(index[path], id, file[path][id])
    BY <1>2, <2>1, KeptFacts DEF AckedOK
  <2>3. Holds(tpls', id, file[path][id])
    BY <1>1, <2>1, <2>2
  <2> QED BY <1>3, <2>1, <2>3, HoldsFacts
<1>5. LockOK'
  BY KeptFacts DEF LockOK
<1>6. ClosedOK'
  BY <1>2 DEF ClosedOK
<1>7. RestOK'
  BY KeptFacts DEF RestOK, Enrolling
<1>8. PendingOK'
  BY <1>2, <1>4 DEF PendingOK, Pending, Leaving, Good, Placing, Loading, Synced
<1>9. GoodOK'
  BY <1>2 DEF GoodOK, Good
<1>10. PlacingOK'
  BY <1>2 DEF PlacingOK, Placing
<1>11. LeavingOK'
  BY <1>2 DEF LeavingOK
<1>12. UnfailedOK'
  BY <1>2 DEF UnfailedOK
<1>13. GoneOK'
  BY <1>1, KeptFacts DEF GoneOK
<1>14. DroppedOK'
  BY <1>1, <1>3, KeptFacts, HoldsFacts DEF DroppedOK
<1>15. AckedOK'
  BY <1>1, <1>2, KeptFacts DEF AckedOK
<1>16. RemovedStayGone'
  BY <1>2 DEF RemovedStayGone
<1>17. TaHoldsStored'
  BY <1>2 DEF TaHoldsStored
<1> QED BY <1>5, <1>6, <1>7, <1>8, <1>9, <1>10, <1>11, <1>12, <1>13, <1>14, <1>15, <1>16,
    <1>17 DEF Kept

LEMMA Make_Kept ==
  ASSUME IInv, Kept, Reliable, GroupIdle, NEW id \in Ids \cup {0}, NEW p \in {"fid", "update"},
         p = "update" => id \in ta, Make(id, p), IInv'
  PROVE  Kept'
<1> USE DEF Make, memory, disk, wvars, cvars, reports, history
<1>1. made' \in Templates /\ origin'[wbuf'] = path
  BY Facts DEF HistoryOK, Templates
<1>2. LockOK'
  BY KeptFacts DEF LockOK
<1>3. ClosedOK'
  BY KeptFacts DEF ClosedOK
<1>4. RestOK'
  BY <1>1, KeptFacts DEF RestOK, Enrolling
<1>5. PendingOK'
  BY KeptFacts DEF PendingOK, RestOK, Pending, Leaving, Good, Placing, Loading, Synced, UsedIn
<1>6. GoodOK'
  BY KeptFacts DEF GoodOK, Good, Clean, UsedIn
<1>7. PlacingOK'
  BY KeptFacts DEF PlacingOK, Placing, Leaving, Clean
<1>8. LeavingOK'
  BY KeptFacts DEF LeavingOK, RemovedStayGone, Leaving, UsedIn
<1>9. UnfailedOK'
  BY KeptFacts DEF UnfailedOK, Clean
<1>10. GoneOK'
  BY KeptFacts DEF GoneOK, Synced
<1>11. DroppedOK'
  BY KeptFacts DEF DroppedOK, Synced, UsedIn
<1>12. AckedOK'
  BY KeptFacts DEF AckedOK, Synced
<1>13. RemovedStayGone'
  BY KeptFacts DEF RemovedStayGone, Leaving
<1>14. TaHoldsStored'
  BY KeptFacts DEF TaHoldsStored, Leaving, UsedIn
<1> QED BY <1>2, <1>3, <1>4, <1>5, <1>6, <1>7, <1>8, <1>9, <1>10, <1>11, <1>12, <1>13,
    <1>14 DEF Kept

LEMMA AllocateFid_Kept ==
  ASSUME IInv, Kept, Reliable, GroupIdle, AllocateFid, IInv'
  PROVE  Kept'
<1> USE DEF AllocateFid, memory, disk, wvars, cvars, reports, history
<1>1. wid' \in Ids \ UsedIn(tpls)
  BY Facts, NextFidFree DEF IndexOK
<1>2. Synced
  BY KeptFacts DEF Steady, Synced
<1>3. LockOK'
  BY KeptFacts DEF LockOK
<1>4. ClosedOK'
  BY KeptFacts DEF ClosedOK
<1>5. RestOK'
  BY KeptFacts DEF RestOK, Enrolling
<1>6. PendingOK'
  BY <1>1, <1>2, KeptFacts DEF PendingOK, Pending, Leaving, Good, Placing, Loading, Synced,
     UsedIn
<1>7. GoodOK'
  BY KeptFacts DEF GoodOK, Good, Clean, UsedIn
<1>8. PlacingOK'
  BY <1>1, <1>2, KeptFacts, HoldsFacts DEF PlacingOK, TaHoldsStored, AckedOK, Placing, Leaving
<1>9. LeavingOK'
  BY KeptFacts DEF LeavingOK, UsedIn
<1>10. UnfailedOK'
  BY KeptFacts DEF UnfailedOK, Clean
<1>11. GoneOK'
  BY KeptFacts DEF GoneOK, Synced
<1>12. DroppedOK'
  BY KeptFacts DEF DroppedOK, Synced, UsedIn
<1>13. AckedOK'
  BY KeptFacts DEF AckedOK, Synced
<1>14. RemovedStayGone'
  BY KeptFacts DEF RemovedStayGone, Leaving
<1>15. TaHoldsStored'
  BY KeptFacts DEF TaHoldsStored, Leaving, UsedIn
<1> QED BY <1>3, <1>4, <1>5, <1>6, <1>7, <1>8, <1>9, <1>10, <1>11, <1>12, <1>13, <1>14,
    <1>15 DEF Kept

LEMMA PlaceTemplate_Kept ==
  ASSUME IInv, Kept, Reliable, GroupIdle, PlaceTemplate, IInv'
  PROVE  Kept'
<1> USE DEF PlaceTemplate, WorkerDone, memory, disk, wvars, cvars, reports, history
<1>1. wpc \in Placing /\ wpc' \in {"idle", "write"} /\ wid \in Ids \ UsedIn(tpls) /\ Synced
  BY KeptFacts DEF Steady, Synced, Placing
<1>2. stoLock' = IF wpc' = "write" THEN "worker" ELSE "none"
  OBVIOUS
<1>3. \/ UNCHANGED <<tpls, file, acked>> /\ (wpc' = "write" => tpls'[wslot'].id = 0)
      \/ \E v \in UsedIn(tpls) : /\ v \in Ids /\ ~ Clean(tpls, v) /\ Dropped(v)
                                  /\ wpc' = "write" /\ tpls'[wslot'].id = 0
  <2>1. CASE Worst = {} \/ SlotsOf(0) # {} \/ wid \in UsedIn(tpls)
    BY <2>1, FirstOf DEF SlotsOf
  <2>2. CASE Worst # {} /\ SlotsOf(0) = {} /\ wid \notin UsedIn(tpls)
    <3> DEFINE v == tpls[Victim].id
    <3>1. Victim \in Slots /\ v \in Ids
      BY <2>2, KeptFacts, VictimIn
    <3>2. Worst \in SUBSET Nat
      BY DEF Worst, Slots
    <3>3. Victim \in Worst
      BY <2>2, <3>2, MinOf DEF Victim
    <3>4. ~ Clean(tpls, v) /\ v \in UsedIn(tpls)
      BY <3>1, <3>3, KeptFacts DEF Worst, Clean, UsedIn
    <3>5. /\ tpls' = [tpls EXCEPT ![Victim] = Empty] /\ Unlink(v) /\ wslot' = Victim
          /\ acked' = acked \ {<<path, v>>} /\ wpc' = "write"
      BY <2>2
    <3>6. tpls'[wslot'].id = 0
      BY <3>1, <3>5, KeptFacts DEF IndexOK, Sets, Empty
    <3>7. Dropped(v)
      BY <3>1, <3>5, KeptFacts, HoldsEmptied, FileGone DEF Dropped
    <3> QED BY <3>1, <3>4, <3>5, <3>6, <3>7
  <2> QED BY <2>1, <2>2
<1>4. LockOK'
  BY KeptFacts DEF LockOK
<1>5. ClosedOK'
  BY KeptFacts DEF ClosedOK
<1>6. RestOK'
  BY KeptFacts DEF RestOK, Enrolling
<1>7. PendingOK'
  BY <1>1, KeptFacts DEF PendingOK, RestOK, Enrolling, Pending, Leaving, Good, Placing,
     Loading, Synced
<1>8. GoodOK'
  BY <1>3, KeptFacts DEF GoodOK, Steady, Good, Dropped, Without
<1>9. PlacingOK'
  BY <1>1, <1>3, KeptFacts DEF PlacingOK, Placing, Leaving, Dropped, Without
<1>10. LeavingOK'
  BY <1>1, <1>3, KeptFacts DEF LeavingOK, Steady, Dropped, Without
<1>11. UnfailedOK'
  BY <1>3, KeptFacts DEF UnfailedOK, Dropped, Without
<1>12. GoneOK'
  BY <1>3, KeptFacts, DiskHolds DEF GoneOK, Synced, Dropped, Without
<1>13. DroppedOK'
  BY <1>3, KeptFacts, DiskHolds DEF DroppedOK, Synced, Dropped, Without
<1>14. AckedOK'
  BY <1>3, KeptFacts DEF AckedOK, Synced, Dropped, Without
<1>15. RemovedStayGone'
  BY KeptFacts DEF RemovedStayGone, Leaving
<1>16. TaHoldsStored'
  BY <1>3, KeptFacts DEF TaHoldsStored, UnfailedOK, Leaving, Dropped, Without
<1> QED BY <1>4, <1>5, <1>6, <1>7, <1>8, <1>9, <1>10, <1>11, <1>12, <1>13, <1>14, <1>15,
    <1>16 DEF Kept

LEMMA WriteTemplate_Kept ==
  ASSUME IInv, Kept, Reliable, GroupIdle, WriteTemplate, IInv'
  PROVE  Kept'
<1> USE DEF WriteTemplate, WorkerDone, memory, disk, wvars, cvars, reports, history
<1>1. wid \in Ids \ UsedIn(tpls) /\ wbuf \in Templates /\ Synced /\ wpc \in Placing
  BY KeptFacts DEF Steady, Synced, Placing
<1>2. \/ wpc' = "idle" /\ stoLock' = "none" /\ UNCHANGED <<tpls, file, reports>>
      \/ /\ wpc' = "index" /\ UNCHANGED stoLock /\ gone' = gone \ {<<path, wid>>}
         /\ misreported' = misreported \ {<<path, wid>>}
         /\ \A g \in Groups, j \in Ids :
              file'[g][j] = IF g = path /\ j = wid THEN wbuf ELSE file[g][j]
         /\ tpls'[wslot].id = wid /\ Clean(tpls', wid)
         /\ \A j \in Ids : /\ j \in UsedIn(tpls') <=> j \in UsedIn(tpls) \/ j = wid
                           /\ \A e : Holds(tpls', j, e) <=> Holds(tpls, j, e) \/ (j = wid /\ e = wbuf)
                           /\ Clean(tpls, j) => Clean(tpls', j)
  <2>1. wslot \in Slots /\ tpls[wslot].id = 0
    BY KeptFacts, Facts DEF PlacingOK, WorkerOK
  <2>2. CASE wpc' = "idle"
    BY <2>2
  <2>3. CASE wpc' = "index"
    <3>1. SetFile(wid, wbuf) /\ tpls' = [tpls EXCEPT ![wslot] = [id |-> wid, sum |-> wbuf, fails |-> 0]]
      BY <2>3
    <3>2. \A g \in Groups, j \in Ids :
            file'[g][j] = IF g = path /\ j = wid THEN wbuf ELSE file[g][j]
      BY <1>1, <3>1, KeptFacts, FileAt
    <3>3. IndexOK(tpls)
      BY KeptFacts
    <3>4. /\ tpls'[wslot].id = wid /\ Clean(tpls', wid)
          /\ \A j \in Ids : /\ j \in UsedIn(tpls') <=> j \in UsedIn(tpls) \/ j = wid
                            /\ \A e : Holds(tpls', j, e) <=> Holds(tpls, j, e) \/ (j = wid /\ e = wbuf)
                            /\ Clean(tpls, j) => Clean(tpls', j)
      BY <1>1, <2>1, <3>1, <3>3, HoldsFilled
    <3> QED BY <2>3, <3>2, <3>4
  <2> QED BY <2>2, <2>3
<1>3. LockOK'
  BY KeptFacts DEF LockOK
<1>4. ClosedOK'
  BY KeptFacts DEF ClosedOK
<1>5. RestOK'
  BY KeptFacts DEF RestOK, Enrolling
<1>6. PendingOK'
  BY <1>1, <1>2, KeptFacts DEF PendingOK, RestOK, Enrolling, Pending, Leaving, Good, Placing,
     Loading, Synced
<1>7. GoodOK'
  BY <1>2, KeptFacts DEF GoodOK, Steady, Good
<1>8. PlacingOK'
  BY <1>1, <1>2, KeptFacts DEF PlacingOK, Steady, Placing, Leaving
<1>9. LeavingOK'
  BY <1>1, <1>2, KeptFacts DEF LeavingOK, Steady, LockOK
<1>10. UnfailedOK'
  BY <1>2, KeptFacts DEF UnfailedOK
<1>11. GoneOK'
  BY <1>1, <1>2, KeptFacts DEF GoneOK, Synced
<1>12. DroppedOK'
  BY <1>1, <1>2, KeptFacts DEF DroppedOK, Synced
<1>13. AckedOK'
  BY <1>1, <1>2, KeptFacts DEF AckedOK, PlacingOK, Synced
<1>14. RemovedStayGone'
  BY <1>2, KeptFacts DEF RemovedStayGone, Leaving
<1>15. TaHoldsStored'
  BY <1>2, KeptFacts DEF TaHoldsStored, Leaving
<1> QED BY <1>3, <1>4, <1>5, <1>6, <1>7, <1>8, <1>9, <1>10, <1>11, <1>12, <1>13, <1>14,
    <1>15 DEF Kept

LEMMA IndexTemplate_Kept ==
  ASSUME IInv, Kept, Reliable, GroupIdle, IndexTemplate, IInv'
  PROVE  Kept'
<1> USE DEF IndexTemplate, memory, disk, wvars, cvars, reports, history
<1>1. wid \in Ids /\ Synced /\ wpc \in Placing /\ wid \notin ta \ Leaving /\ <<path, wid>> \notin acked
  BY KeptFacts DEF Steady, ClosedOK, Synced, Placing, PlacingOK
<1>2. \/ /\ wpc' = "enrolled" /\ UNCHANGED <<tpls, file>>
         /\ \A g \in Groups : index'[g] = IF g = path THEN tpls ELSE index[g]
      \/ /\ wpc' = "idle" /\ UNCHANGED index
         /\ \A g \in Groups, j \in Ids :
              file'[g][j] = IF g = path /\ j = wid THEN 0 ELSE file[g][j]
         /\ Without(tpls', tpls, wid)
  <2>1. wslot \in Slots /\ tpls[wslot].id = wid
    BY KeptFacts, Facts DEF PlacingOK, WorkerOK
  <2>2. CASE SaveSets(tpls) /\ wpc' = "enrolled" /\ UNCHANGED <<tpls, file>>
    BY <2>2, KeptFacts, IndexAt
  <2>3. CASE SaveSetsFails("index") /\ Unlink(wid) /\ tpls' = [tpls EXCEPT ![wslot] = Empty]
             /\ wpc' = "idle"
    <3>1. UNCHANGED index
      BY <2>3 DEF SaveSetsFails
    <3>2. \A g \in Groups, j \in Ids :
            file'[g][j] = IF g = path /\ j = wid THEN 0 ELSE file[g][j]
      BY <1>1, <2>3, KeptFacts, FileGone
    <3>3. IndexOK(tpls)
      BY KeptFacts
    <3> HIDE DEF IndexTemplate, memory, disk, wvars, cvars, reports, history
    <3>4. Without(tpls', tpls, wid)
      BY <2>1, <2>3, <3>3, HoldsEmptied
    <3> QED BY <2>3, <3>1, <3>2, <3>4
  <2> QED BY <2>2, <2>3 DEF SaveSetsLies, Reliable
<1> USE DEF Without
<1>3. LockOK'
  BY KeptFacts DEF LockOK
<1>4. ClosedOK'
  BY KeptFacts DEF ClosedOK
<1>5. RestOK'
  BY KeptFacts DEF RestOK, Enrolling
<1>6. PendingOK'
  BY <1>1, <1>2, KeptFacts DEF PendingOK, RestOK, Enrolling, Pending, Leaving, Good, Placing,
     Loading, Synced
<1>7. GoodOK'
  BY <1>1, <1>2, KeptFacts DEF GoodOK, Steady, PendingOK, Pending, Good, Placing
<1>8. PlacingOK'
  BY <1>1, <1>2, KeptFacts DEF PlacingOK, Steady, Placing, Leaving
<1>9. LeavingOK'
  BY <1>1, <1>2, KeptFacts DEF LeavingOK, Steady, LockOK
<1>10. UnfailedOK'
  BY <1>2, KeptFacts DEF UnfailedOK
<1>11. GoneOK'
  BY <1>1, <1>2, KeptFacts, DiskHolds DEF GoneOK, Synced
<1>12. DroppedOK'
  BY <1>1, <1>2, KeptFacts, HoldsFacts, DiskHolds DEF DroppedOK, Synced
<1>13. AckedOK'
  BY <1>1, <1>2, KeptFacts DEF AckedOK, Synced
<1>14. RemovedStayGone'
  BY KeptFacts DEF RemovedStayGone, Leaving
<1>15. TaHoldsStored'
  BY <1>1, <1>2, KeptFacts DEF TaHoldsStored, Leaving
<1> QED BY <1>3, <1>4, <1>5, <1>6, <1>7, <1>8, <1>9, <1>10, <1>11, <1>12, <1>13, <1>14,
    <1>15 DEF Kept

LEMMA Enrolled_Kept ==
  ASSUME IInv, Kept, Reliable, GroupIdle, Enrolled, IInv'
  PROVE  Kept'
<1> USE DEF Enrolled, memory, disk, wvars, cvars, reports, history
<1>1. wid \in Ids /\ Synced /\ origin[wbuf] = path /\ wpc \in Placing
  BY KeptFacts DEF Steady, ClosedOK, Synced, RestOK, Placing
<1>2. /\ Holds(tpls, wid, wbuf) /\ file[path][wid] = wbuf /\ Clean(tpls, wid)
      /\ Holds(index[path], wid, wbuf)
  BY KeptFacts DEF PlacingOK
<1>3. LockOK'
  BY KeptFacts DEF LockOK
<1>4. ClosedOK'
  BY KeptFacts DEF ClosedOK
<1>5. RestOK'
  BY <1>1, KeptFacts DEF RestOK, Enrolling, Synced
<1>6. PendingOK'
  BY KeptFacts DEF PendingOK, Pending, Leaving, Good, Placing, Loading, Synced, UsedIn
<1>7. GoodOK'
  BY KeptFacts DEF GoodOK, Good, Clean, UsedIn
<1>8. PlacingOK'
  BY KeptFacts DEF PlacingOK, Placing, Leaving, Clean
<1>9. LeavingOK'
  BY KeptFacts DEF LeavingOK, UsedIn
<1>10. UnfailedOK'
  BY <1>2, KeptFacts DEF UnfailedOK
<1>11. GoneOK'
  BY KeptFacts DEF GoneOK, Synced
<1>12. DroppedOK'
  BY KeptFacts DEF DroppedOK, Synced, UsedIn
<1>13. AckedOK'
  BY <1>1, <1>2, KeptFacts DEF AckedOK, Synced
<1>14. RemovedStayGone'
  BY <1>1, <1>2, KeptFacts DEF RemovedStayGone, GoneOK, Leaving
<1>15. TaHoldsStored'
  BY <1>1, <1>2, KeptFacts, HoldsFacts DEF TaHoldsStored, Leaving
<1> QED BY <1>3, <1>4, <1>5, <1>6, <1>7, <1>8, <1>9, <1>10, <1>11, <1>12, <1>13, <1>14,
    <1>15 DEF Kept

LEMMA UpdateTemplate_Kept ==
  ASSUME IInv, Kept, Reliable, GroupIdle, UpdateTemplate, IInv'
  PROVE  Kept'
<1> USE DEF UpdateTemplate, WorkerDone, memory, disk, wvars, cvars, reports, history
<1>1. wid \in Ids /\ wbuf \in Templates /\ Synced
  BY KeptFacts DEF Steady, Synced
<1>2. \/ wpc' = "idle" /\ stoLock' = "none" /\ UNCHANGED <<tpls, file>>
      \/ /\ wpc' = "update_index" /\ stoLock' = "worker" /\ wid \in UsedIn(tpls)
         /\ \A g \in Groups, j \in Ids :
              file'[g][j] = IF g = path /\ j = wid THEN wbuf ELSE file[g][j]
         /\ \A j \in Ids : /\ j \in UsedIn(tpls') <=> j \in UsedIn(tpls)
                           /\ \A e : Holds(tpls', j, e) <=> (j = wid /\ e = wbuf) \/ (j # wid /\ Holds(tpls, j, e))
                           /\ Clean(tpls, j) => Clean(tpls', j)
  <2>1. CASE wpc' = "idle"
    BY <2>1
  <2>2. CASE SlotsOf(wid) # {} /\ SetFile(wid, wbuf) /\ wpc' = "update_index"
    <3> DEFINE s == Min(SlotsOf(wid))
    <3>1. s \in Slots /\ tpls[s].id = wid /\ tpls[s] \in Used
      BY <1>1, <2>2, KeptFacts, FirstOf, SlotsOfIn DEF SlotsOf
    <3>2. tpls' = [tpls EXCEPT ![s].sum = wbuf]
      BY <2>2
    <3> HIDE DEF s
    <3>3. tpls'[s] = [tpls[s] EXCEPT !.sum = wbuf] /\ tpls' = [tpls EXCEPT ![s] = tpls'[s]]
      BY <3>1, <3>2, KeptFacts DEF IndexOK, Sets
    <3>4. tpls'[s].id = wid /\ tpls'[s].sum = wbuf /\ tpls'[s].fails = tpls[s].fails
      BY <3>1, <3>3 DEF Used
    <3>5. Clean(tpls, wid) => tpls'[s].fails = 0
      BY <3>1, <3>4 DEF Clean
    <3>6. IndexOK(tpls)
      BY KeptFacts
    <3>7. /\ \A j \in Ids :
                /\ j \in UsedIn(tpls') <=> j \in UsedIn(tpls)
                /\ j # wid => /\ \A d : Holds(tpls', j, d) <=> Holds(tpls, j, d)
                              /\ Clean(tpls, j) => Clean(tpls', j)
          /\ \A d : Holds(tpls', wid, d) <=> d = tpls'[s].sum
          /\ tpls'[s].fails = 0 => Clean(tpls', wid)
      BY <1>1, <3>1, <3>3, <3>4, <3>6, HoldsAmended
    <3>8. \A j \in Ids : Clean(tpls, j) => Clean(tpls', j)
      BY <3>5, <3>7
    <3>9. \A j \in Ids : \A e : Holds(tpls', j, e) <=> (j = wid /\ e = wbuf) \/ (j # wid /\ Holds(tpls, j, e))
      BY <3>4, <3>7
    <3>10. \A j \in Ids : /\ j \in UsedIn(tpls') <=> j \in UsedIn(tpls)
                          /\ \A e : Holds(tpls', j, e) <=> (j = wid /\ e = wbuf) \/ (j # wid /\ Holds(tpls, j, e))
                          /\ Clean(tpls, j) => Clean(tpls', j)
      BY <3>7, <3>8, <3>9, Zenon
    <3>11. wid \in UsedIn(tpls)
      BY <3>1 DEF UsedIn
    <3>12. \A g \in Groups, j \in Ids :
             file'[g][j] = IF g = path /\ j = wid THEN wbuf ELSE file[g][j]
      BY <1>1, <2>2, KeptFacts, FileAt
    <3> QED BY <2>2, <3>10, <3>11, <3>12
  <2> QED BY <2>1, <2>2
<1>3. \A j \in Ids : j \in UsedIn(tpls') <=> j \in UsedIn(tpls)
  BY <1>2
<1>4. LockOK'
  BY KeptFacts DEF LockOK
<1>5. ClosedOK'
  BY KeptFacts DEF ClosedOK
<1>6. RestOK'
  BY KeptFacts DEF RestOK, Enrolling
<1>7. PendingOK'
  BY <1>1, <1>3, KeptFacts DEF PendingOK, Steady, RestOK, Enrolling, Pending, Leaving, Good,
     Placing, Loading, Synced
<1>8. GoodOK'
  BY <1>1, <1>2, KeptFacts DEF GoodOK, Steady, Good
<1>9. PlacingOK'
  BY <1>1, <1>2, KeptFacts DEF PlacingOK, Steady, Placing
<1>10. LeavingOK'
  BY <1>1, <1>2, KeptFacts DEF LeavingOK, Steady
<1>11. UnfailedOK'
  BY <1>2, KeptFacts DEF UnfailedOK
<1>12. GoneOK'
  BY <1>1, <1>2, KeptFacts DEF GoneOK, LeavingOK, Synced
<1>13. DroppedOK'
  BY <1>1, <1>2, KeptFacts DEF DroppedOK, Synced
<1>14. AckedOK'
  BY <1>1, <1>2, KeptFacts DEF AckedOK, Synced
<1>15. RemovedStayGone'
  BY KeptFacts DEF RemovedStayGone, Leaving
<1>16. TaHoldsStored'
  BY <1>1, <1>2, KeptFacts DEF TaHoldsStored, Leaving
<1> QED BY <1>4, <1>5, <1>6, <1>7, <1>8, <1>9, <1>10, <1>11, <1>12, <1>13, <1>14, <1>15,
    <1>16 DEF Kept

LEMMA UpdateIndex_Kept ==
  ASSUME IInv, Kept, Reliable, GroupIdle, UpdateIndex, IInv'
  PROVE  Kept'
<1> USE DEF UpdateIndex, WorkerDone, memory, disk, wvars, cvars, reports, history
<1>1. \A g \in Groups : index'[g] = IF g = path THEN tpls ELSE index[g]
  BY KeptFacts, IndexAt DEF Reliable, SaveSetsFails, SaveSetsLies
<1>2. Synced
  BY KeptFacts DEF Steady, ClosedOK, Synced
<1>3. LockOK'
  BY KeptFacts DEF LockOK
<1>4. ClosedOK'
  BY KeptFacts DEF ClosedOK
<1>5. RestOK'
  BY KeptFacts DEF RestOK, Enrolling
<1>6. PendingOK'
  BY KeptFacts DEF PendingOK, Pending, Leaving, Good, Placing, Loading, Synced, UsedIn
<1>7. GoodOK'
  BY KeptFacts DEF GoodOK, Good, Clean, UsedIn
<1>8. PlacingOK'
  BY KeptFacts DEF PlacingOK, Placing, Leaving, Clean
<1>9. LeavingOK'
  BY KeptFacts DEF LeavingOK, UsedIn
<1>10. UnfailedOK'
  BY KeptFacts DEF UnfailedOK, Clean
<1>11. GoneOK'
  BY <1>1, <1>2, KeptFacts DEF GoneOK, Synced
<1>12. DroppedOK'
  BY <1>1, <1>2, KeptFacts, HoldsFacts DEF DroppedOK, Synced, UsedIn
<1>13. AckedOK'
  BY <1>1, <1>2, KeptFacts DEF AckedOK, Synced
<1>14. RemovedStayGone'
  BY KeptFacts DEF RemovedStayGone, Leaving
<1>15. TaHoldsStored'
  BY KeptFacts DEF TaHoldsStored, Leaving, UsedIn
<1> QED BY <1>3, <1>4, <1>5, <1>6, <1>7, <1>8, <1>9, <1>10, <1>11, <1>12, <1>13, <1>14,
    <1>15 DEF Kept

-----------------------------------------------------------------------------
(* The steps of the caller, and a crash                                    *)
-----------------------------------------------------------------------------
LEMMA SetActiveGroup_Kept ==
  ASSUME IInv, Kept, Reliable, GroupIdle, NEW g \in Groups, SetActiveGroup(g), IInv'
  PROVE  Kept'
<1> USE DEF SetActiveGroup, Enter, memory, disk, wvars, cvars, reports, history
<1>1. LockOK'
  BY KeptFacts DEF LockOK
<1>2. ClosedOK'
  BY KeptFacts DEF ClosedOK, RestOK
<1>3. RestOK'
  BY KeptFacts DEF RestOK, Enrolling
<1>4. PendingOK'
  BY KeptFacts DEF PendingOK, Pending, Leaving, Good, Placing, Loading, Synced, UsedIn
<1>5. GoodOK'
  BY KeptFacts DEF GoodOK, Good, Clean, UsedIn
<1>6. PlacingOK'
  BY KeptFacts DEF PlacingOK, Placing, Leaving, Clean
<1>7. LeavingOK'
  BY KeptFacts DEF LeavingOK, UsedIn
<1>8. UnfailedOK'
  BY KeptFacts DEF UnfailedOK, Clean
<1>9. GoneOK'
  BY KeptFacts DEF GoneOK, Synced
<1>10. DroppedOK'
  BY KeptFacts DEF DroppedOK, Synced, UsedIn
<1>11. AckedOK'
  BY KeptFacts DEF AckedOK, Synced
<1>12. RemovedStayGone'
  BY KeptFacts DEF RemovedStayGone, Leaving
<1>13. TaHoldsStored'
  BY KeptFacts DEF TaHoldsStored, Leaving, UsedIn
<1> QED BY <1>1, <1>2, <1>3, <1>4, <1>5, <1>6, <1>7, <1>8, <1>9, <1>10, <1>11, <1>12, <1>13
   DEF Kept

LEMMA InitLock_Kept ==
  ASSUME IInv, Kept, Reliable, GroupIdle, InitLock, IInv'
  PROVE  Kept'
<1> USE DEF InitLock, memory, disk, wvars, cvars, reports, history
<1>1. LockOK'
  BY KeptFacts DEF LockOK, Steady
<1>2. ClosedOK'
  BY KeptFacts DEF ClosedOK
<1>3. RestOK'
  BY KeptFacts DEF RestOK, Enrolling
<1>4. PendingOK'
  BY KeptFacts DEF PendingOK, Pending, Leaving, Good, Placing, Loading, Synced, UsedIn
<1>5. GoodOK'
  BY KeptFacts DEF GoodOK, Good, Clean, UsedIn
<1>6. PlacingOK'
  BY KeptFacts DEF PlacingOK, Placing, Leaving, Clean
<1>7. LeavingOK'
  BY KeptFacts DEF LeavingOK, UsedIn
<1>8. UnfailedOK'
  BY KeptFacts DEF UnfailedOK, Clean
<1>9. GoneOK'
  BY KeptFacts DEF GoneOK, Synced
<1>10. DroppedOK'
  BY KeptFacts DEF DroppedOK, Synced, UsedIn
<1>11. AckedOK'
  BY KeptFacts DEF AckedOK, Synced
<1>12. RemovedStayGone'
  BY KeptFacts DEF RemovedStayGone, Leaving
<1>13. TaHoldsStored'
  BY KeptFacts DEF TaHoldsStored, Leaving, UsedIn
<1> QED BY <1>1, <1>2, <1>3, <1>4, <1>5, <1>6, <1>7, <1>8, <1>9, <1>10, <1>11, <1>12, <1>13
   DEF Kept

LEMMA ListIds_Kept ==
  ASSUME IInv, Kept, Reliable, GroupIdle, ListIds, IInv'
  PROVE  Kept'
<1> USE DEF ListIds, memory, disk, wvars, cvars, reports, history
<1>1. \A i \in Ids :
        /\ \A d : Holds(tpls', i, d) <=> Holds(index[path], i, d)
        /\ \A g \in Groups : \A d : Holds(index'[g], i, d) <=> Holds(index[g], i, d)
  BY Facts, HoldsRead
<1>2. ta = {} /\ wpc = "idle" /\ opened' /\ todo' \subseteq UsedIn(tpls')
  BY KeptFacts DEF RestOK, Steady, ReadIndex
<1>3. IndexOK(tpls')
  BY Facts DEF IInv, TypeOK, MemoryOK
<1>4. LockOK'
  BY KeptFacts DEF LockOK
<1>5. ClosedOK'
  BY <1>2 DEF ClosedOK
<1>6. RestOK'
  BY KeptFacts DEF RestOK, Enrolling
<1>7. PendingOK'
  BY <1>2 DEF PendingOK, Pending, Leaving, Good, Placing, Loading, Synced
<1>8. GoodOK'
  BY <1>2 DEF GoodOK, Good
<1>9. PlacingOK'
  BY <1>2 DEF PlacingOK, Placing
<1>10. LeavingOK'
  BY <1>2 DEF LeavingOK
<1>11. UnfailedOK'
  BY <1>2 DEF UnfailedOK
<1>12. GoneOK'
  BY <1>1, KeptFacts DEF GoneOK
<1>13. DroppedOK'
  BY <1>1, <1>3, KeptFacts, HoldsFacts DEF DroppedOK
<1>14. AckedOK'
  BY <1>1, <1>2, KeptFacts DEF AckedOK
<1>15. RemovedStayGone'
  BY <1>2 DEF RemovedStayGone
<1>16. TaHoldsStored'
  BY <1>2 DEF TaHoldsStored
<1> QED BY <1>4, <1>5, <1>6, <1>7, <1>8, <1>9, <1>10, <1>11, <1>12, <1>13, <1>14, <1>15,
    <1>16 DEF Kept

LEMMA LoadTemplate_Kept ==
  ASSUME IInv, Kept, Reliable, GroupIdle, LoadTemplate, IInv'
  PROVE  Kept'
<1> USE DEF LoadTemplate, memory, disk, wvars, cvars, reports, history
<1>1. /\ cid' \in todo /\ todo' = todo \ {cid'} /\ cid' \in Ids /\ Synced
      /\ stoLock = "none" /\ wpc \notin {"write", "index", "update_index"}
  BY KeptFacts DEF ClosedOK, Synced, LockOK
<1>2. \/ UNCHANGED <<tpls, file, acked, stoLock, cpc>>
      \/ /\ cpc' \in {"ta_load", "good_index"} /\ (cpc' = "good_index" => stoLock' = "caller")
         /\ Counted(cid') /\ Clean(tpls', cid') /\ Holds(tpls, cid', file[path][cid'])
      \/ /\ cpc' = "bad_index" /\ stoLock' = "caller"
         /\ Dropped(cid') \/ Counted(cid')
  <2>1. CASE UNCHANGED <<tpls, file, acked, stoLock, cpc>>
    BY <2>1
  <2>2. CASE \E s \in SlotsOf(cid') :
               /\ file[path][cid'] = tpls[s].sum
               /\ tpls' = [tpls EXCEPT ![s].fails = 0] /\ UNCHANGED <<file, acked>>
               /\ cpc' \in {"ta_load", "good_index"} /\ (cpc' = "good_index" => stoLock' = "caller")
    <3>1. PICK s \in SlotsOf(cid') :
               /\ file[path][cid'] = tpls[s].sum
               /\ tpls' = [tpls EXCEPT ![s].fails = 0] /\ UNCHANGED <<file, acked>>
      BY <2>2
    <3>2. s \in Slots /\ tpls[s].id = cid' /\ tpls[s] \in Used
      BY <1>1, KeptFacts, SlotsOfIn DEF SlotsOf
    <3>3. tpls'[s] = [tpls[s] EXCEPT !.fails = 0] /\ tpls' = [tpls EXCEPT ![s] = tpls'[s]]
      BY <3>1, <3>2, KeptFacts DEF IndexOK, Sets
    <3>4. tpls'[s].id = cid' /\ tpls'[s].sum = tpls[s].sum /\ tpls'[s].fails = 0
      BY <3>2, <3>3 DEF Used
    <3>5. Holds(tpls, cid', tpls[s].sum)
      BY <3>2, KeptFacts DEF Holds, IndexOK, Sets
    <3>6. \A d : Holds(tpls, cid', d) <=> d = tpls[s].sum
      BY <1>1, <3>5, KeptFacts, HoldsFacts
    <3>7. IndexOK(tpls)
      BY KeptFacts
    <3>8. /\ \A j \in Ids :
                /\ j \in UsedIn(tpls') <=> j \in UsedIn(tpls)
                /\ j # cid' => /\ \A d : Holds(tpls', j, d) <=> Holds(tpls, j, d)
                               /\ Clean(tpls, j) => Clean(tpls', j)
          /\ \A d : Holds(tpls', cid', d) <=> d = tpls'[s].sum
          /\ Clean(tpls', cid')
      BY <1>1, <3>2, <3>3, <3>4, <3>7, HoldsAmended
    <3>9. \A j \in Ids : \A d : Holds(tpls', j, d) <=> Holds(tpls, j, d)
      BY <3>4, <3>6, <3>8
    <3>10. Counted(cid') /\ Clean(tpls', cid')
      BY <3>1, <3>8, <3>9, Zenon DEF Counted
    <3> QED BY <2>2, <3>1, <3>5, <3>10
  <2>3. CASE (\E s \in SlotsOf(cid') : FailOnce(s)) /\ cpc' = "bad_index" /\ stoLock' = "caller"
    BY <1>1, <2>3, KeptFacts, FailedHolds
  <2> QED BY <2>1, <2>2, <2>3
<1>3. LockOK'
  BY <1>1, <1>2, KeptFacts DEF LockOK
<1>4. ClosedOK'
  BY <1>1 DEF ClosedOK, Synced
<1>5. RestOK'
  BY <1>2, KeptFacts DEF RestOK, Enrolling
<1>6. PendingOK'
  BY <1>1, <1>2, KeptFacts DEF PendingOK, Pending, Leaving, Good, Placing, Loading, Synced,
     Dropped, Without, Counted
<1>7. GoodOK'
  BY <1>1, <1>2, KeptFacts, HoldsFacts DEF GoodOK, GoneOK, Good, Counted
<1>8. PlacingOK'
  BY <1>1, <1>2, KeptFacts DEF PlacingOK, Steady, PendingOK, Pending, Good, Leaving, Placing,
     Dropped, Without, Counted
<1>9. LeavingOK'
  BY <1>1, <1>2, KeptFacts DEF LeavingOK, Steady, Dropped, Without, Counted
<1>10. UnfailedOK'
  BY <1>1, <1>2, KeptFacts DEF UnfailedOK, PendingOK, Pending, Good, Leaving, Loading, Dropped,
     Without, Counted
<1>11. GoneOK'
  BY <1>1, <1>2, KeptFacts, DiskHolds DEF GoneOK, Synced, Dropped, Without, Counted
<1>12. DroppedOK'
  BY <1>1, <1>2, KeptFacts, DiskHolds DEF DroppedOK, Synced, Dropped, Without, Counted
<1>13. AckedOK'
  BY <1>1, <1>2, KeptFacts DEF AckedOK, Synced, Dropped, Without, Counted
<1>14. RemovedStayGone'
  BY <1>2, KeptFacts DEF RemovedStayGone, Leaving
<1>15. TaHoldsStored'
  BY <1>1, <1>2, KeptFacts DEF TaHoldsStored, PendingOK, Pending, Good, Leaving, Loading,
     Dropped, Without, Counted
<1> QED BY <1>3, <1>4, <1>5, <1>6, <1>7, <1>8, <1>9, <1>10, <1>11, <1>12, <1>13, <1>14,
    <1>15 DEF Kept

LEMMA LoadIndex_Kept ==
  ASSUME IInv, Kept, Reliable, GroupIdle, LoadIndex, IInv'
  PROVE  Kept'
<1> USE DEF LoadIndex, memory, disk, wvars, cvars, reports, history
<1>1. \/ UNCHANGED index
      \/ \A g \in Groups : index'[g] = IF g = path THEN tpls ELSE index[g]
  BY KeptFacts, IndexAt DEF SaveSetsFails, SaveSetsLies
<1>2. Synced
  BY KeptFacts DEF ClosedOK, Synced
<1>3. LockOK'
  BY KeptFacts DEF LockOK
<1>4. ClosedOK'
  BY KeptFacts DEF ClosedOK
<1>5. RestOK'
  BY KeptFacts DEF RestOK, Enrolling
<1>6. PendingOK'
  BY KeptFacts DEF PendingOK, Pending, Leaving, Good, Placing, Loading, Synced, UsedIn
<1>7. GoodOK'
  BY KeptFacts DEF GoodOK, Good, Clean, UsedIn
<1>8. PlacingOK'
  BY <1>1, KeptFacts DEF PlacingOK, Placing, Leaving
<1>9. LeavingOK'
  BY KeptFacts DEF LeavingOK, UsedIn
<1>10. UnfailedOK'
  BY KeptFacts DEF UnfailedOK, Clean
<1>11. GoneOK'
  BY <1>1, <1>2, KeptFacts DEF GoneOK, Synced
<1>12. DroppedOK'
  BY <1>1, <1>2, KeptFacts, HoldsFacts DEF DroppedOK, Synced, UsedIn
<1>13. AckedOK'
  BY <1>1, <1>2, KeptFacts DEF AckedOK, Synced
<1>14. RemovedStayGone'
  BY KeptFacts DEF RemovedStayGone, Leaving
<1>15. TaHoldsStored'
  BY KeptFacts DEF TaHoldsStored, Leaving, UsedIn
<1> QED BY <1>3, <1>4, <1>5, <1>6, <1>7, <1>8, <1>9, <1>10, <1>11, <1>12, <1>13, <1>14,
    <1>15 DEF Kept

LEMMA TaLoad_Kept ==
  ASSUME IInv, Kept, Reliable, GroupIdle, TaLoad, IInv'
  PROVE  Kept'
<1> USE DEF TaLoad, memory, disk, wvars, cvars, reports, history
<1>1. cid \in Pending /\ cid \in UsedIn(tpls) /\ Clean(tpls, cid) /\ cid \notin todo /\ <<path, cid>> \notin Removed
  BY KeptFacts DEF Pending, GoodOK, Good
<1>2. LockOK'
  BY KeptFacts DEF LockOK
<1>3. ClosedOK'
  BY KeptFacts DEF ClosedOK
<1>4. RestOK'
  BY KeptFacts DEF RestOK, Enrolling
<1>5. PendingOK'
  BY <1>1, KeptFacts DEF PendingOK, Pending, Leaving, Good, Placing, Loading, Synced
<1>6. GoodOK'
  BY KeptFacts DEF GoodOK, Good, Clean, UsedIn
<1>7. PlacingOK'
  BY <1>1, KeptFacts DEF PlacingOK, PendingOK, Placing, Leaving
<1>8. LeavingOK'
  BY KeptFacts DEF LeavingOK, UsedIn
<1>9. UnfailedOK'
  BY <1>1, KeptFacts DEF UnfailedOK
<1>10. GoneOK'
  BY KeptFacts DEF GoneOK, Synced
<1>11. DroppedOK'
  BY KeptFacts DEF DroppedOK, Synced, UsedIn
<1>12. AckedOK'
  BY KeptFacts DEF AckedOK, Synced
<1>13. RemovedStayGone'
  BY <1>1, KeptFacts DEF RemovedStayGone, Leaving
<1>14. TaHoldsStored'
  BY <1>1, KeptFacts DEF TaHoldsStored, Leaving
<1> QED BY <1>2, <1>3, <1>4, <1>5, <1>6, <1>7, <1>8, <1>9, <1>10, <1>11, <1>12, <1>13,
    <1>14 DEF Kept

LEMMA IncFailCount_Kept ==
  ASSUME IInv, Kept, Reliable, GroupIdle, IncFailCount, IInv'
  PROVE  Kept'
<1> USE DEF IncFailCount, memory, disk, wvars, cvars, reports, history
<1>1. /\ cid \in Ids /\ Synced /\ cid \in Pending /\ cid \notin todo
      /\ stoLock = "none" /\ wpc \notin {"write", "index", "update_index"}
  BY KeptFacts DEF Steady, ClosedOK, Synced, LockOK, Pending, Good, GoodOK
<1>2. \/ cpc' = "load" /\ UNCHANGED <<tpls, file, acked, stoLock>>
      \/ /\ cpc' = "bad_index" /\ stoLock' = "caller"
         /\ Dropped(cid) \/ Counted(cid)
  BY <1>1, KeptFacts, FailedHolds
<1>3. LockOK'
  BY <1>1, <1>2, KeptFacts DEF LockOK
<1>4. ClosedOK'
  BY <1>1 DEF ClosedOK, Synced
<1>5. RestOK'
  BY <1>2, KeptFacts DEF RestOK, Enrolling
<1>6. PendingOK'
  BY <1>1, <1>2, KeptFacts DEF PendingOK, Pending, Leaving, Good, Placing, Loading, Synced,
     Dropped, Without, Counted
<1>7. GoodOK'
  BY <1>2 DEF GoodOK, Good
<1>8. PlacingOK'
  BY <1>1, <1>2, KeptFacts DEF PlacingOK, Steady, PendingOK, Leaving, Placing, Dropped, Without, Counted
<1>9. LeavingOK'
  BY <1>1, <1>2, KeptFacts DEF LeavingOK, Steady, Dropped, Without, Counted
<1>10. UnfailedOK'
  BY <1>1, <1>2, KeptFacts DEF UnfailedOK, PendingOK, Loading, Dropped, Without, Counted
<1>11. GoneOK'
  BY <1>1, <1>2, KeptFacts, DiskHolds DEF GoneOK, Synced, Dropped, Without, Counted
<1>12. DroppedOK'
  BY <1>1, <1>2, KeptFacts, DiskHolds DEF DroppedOK, Synced, Dropped, Without, Counted
<1>13. AckedOK'
  BY <1>1, <1>2, KeptFacts DEF AckedOK, Synced, Dropped, Without, Counted
<1>14. RemovedStayGone'
  BY <1>2, KeptFacts DEF RemovedStayGone, Leaving
<1>15. TaHoldsStored'
  BY <1>1, <1>2, KeptFacts DEF TaHoldsStored, PendingOK, Leaving, Loading, Dropped, Without, Counted
<1> QED BY <1>3, <1>4, <1>5, <1>6, <1>7, <1>8, <1>9, <1>10, <1>11, <1>12, <1>13, <1>14,
    <1>15 DEF Kept

LEMMA LoadDone_Kept ==
  ASSUME IInv, Kept, Reliable, GroupIdle, LoadDone, IInv'
  PROVE  Kept'
<1> USE DEF LoadDone, memory, disk, wvars, cvars, reports, history
<1>1. LockOK'
  BY KeptFacts DEF LockOK
<1>2. ClosedOK'
  BY KeptFacts DEF ClosedOK
<1>3. RestOK'
  BY KeptFacts DEF RestOK, Enrolling
<1>4. PendingOK'
  BY KeptFacts DEF PendingOK, Pending, Leaving, Good, Placing, Loading, Synced, UsedIn
<1>5. GoodOK'
  BY KeptFacts DEF GoodOK, Good, Clean, UsedIn
<1>6. PlacingOK'
  BY KeptFacts DEF PlacingOK, Placing, Leaving, Clean
<1>7. LeavingOK'
  BY KeptFacts DEF LeavingOK, UsedIn
<1>8. UnfailedOK'
  BY KeptFacts DEF UnfailedOK, Clean
<1>9. GoneOK'
  BY KeptFacts DEF GoneOK, Synced
<1>10. DroppedOK'
  BY KeptFacts DEF DroppedOK, Synced, UsedIn
<1>11. AckedOK'
  BY KeptFacts DEF AckedOK, Synced
<1>12. RemovedStayGone'
  BY KeptFacts DEF RemovedStayGone, Leaving
<1>13. TaHoldsStored'
  BY KeptFacts DEF TaHoldsStored, Leaving, UsedIn
<1> QED BY <1>1, <1>2, <1>3, <1>4, <1>5, <1>6, <1>7, <1>8, <1>9, <1>10, <1>11, <1>12, <1>13
   DEF Kept

LEMMA Remove_Kept ==
  ASSUME IInv, Kept, Reliable, GroupIdle, Remove, IInv'
  PROVE  Kept'
<1> USE DEF Remove, Enter, memory, disk, wvars, cvars, reports, history
<1>1. cpc = "idle" /\ todo = {} /\ \A id \in todo' : id \in ta \/ <<path, id>> \in acked
  BY KeptFacts DEF RestOK
<1>2. Synced => todo' \subseteq UsedIn(tpls)
  BY <1>1, KeptFacts, HoldsFacts, Facts DEF AckedOK, TaHoldsStored, Leaving, IInv, TypeOK,
     CallerOK
<1>3. LockOK'
  BY KeptFacts DEF LockOK
<1>4. ClosedOK'
  BY KeptFacts DEF ClosedOK
<1>5. RestOK'
  BY KeptFacts DEF RestOK, Enrolling
<1>6. PendingOK'
  BY <1>1, <1>2, KeptFacts DEF PendingOK, PlacingOK, Pending, Leaving, Good, Placing, Loading,
     Synced
<1>7. GoodOK'
  BY KeptFacts DEF GoodOK, Good, Clean, UsedIn
<1>8. PlacingOK'
  BY KeptFacts DEF PlacingOK, Placing, Leaving, Clean
<1>9. LeavingOK'
  BY KeptFacts DEF LeavingOK, UsedIn
<1>10. UnfailedOK'
  BY KeptFacts DEF UnfailedOK, Clean
<1>11. GoneOK'
  BY KeptFacts DEF GoneOK, Synced
<1>12. DroppedOK'
  BY KeptFacts DEF DroppedOK, Synced, UsedIn
<1>13. AckedOK'
  BY KeptFacts DEF AckedOK, Synced
<1>14. RemovedStayGone'
  BY KeptFacts DEF RemovedStayGone, Leaving
<1>15. TaHoldsStored'
  BY KeptFacts DEF TaHoldsStored, Leaving, UsedIn
<1> QED BY <1>3, <1>4, <1>5, <1>6, <1>7, <1>8, <1>9, <1>10, <1>11, <1>12, <1>13, <1>14,
    <1>15 DEF Kept

LEMMA RemoveTemplate_Kept ==
  ASSUME IInv, Kept, Reliable, GroupIdle, RemoveTemplate, IInv'
  PROVE  Kept'
<1> USE DEF RemoveTemplate, GivenUp, memory, disk, wvars, cvars, reports, history
<1>1. cid' \in todo /\ cid' \in Ids /\ Synced /\ wpc \notin {"write", "index", "update_index"}
  BY KeptFacts DEF Synced, LockOK
<1>2. \/ /\ cpc' = "remove" /\ todo' = todo \ {cid'}
         /\ UNCHANGED <<tpls, index, stoLock>>
         /\ acked' \subseteq acked /\ Removed' \subseteq Removed
      \/ /\ cpc' \in {"ta_remove", "unlink"} /\ todo' = todo
         /\ stoLock' = IF cpc' = "unlink" THEN "caller" ELSE stoLock
         /\ acked' = acked \ {<<path, cid'>>} /\ Removed' = Removed \cup {<<path, cid'>>}
         /\ Without(tpls', tpls, cid')
         /\ \/ UNCHANGED <<index, tpls>> /\ cid' \notin UsedIn(tpls)
            \/ \A g \in Groups : index'[g] = IF g = path THEN tpls' ELSE index[g]
  <2>1. CASE cpc' = "remove"
    BY <2>1, KeptFacts DEF SaveSetsFails
  <2>2. CASE SlotsOf(cid') = {} /\ UNCHANGED <<tpls, index, stoLock, todo>> /\ cpc' = "ta_remove"
    <3>1. cid' \notin UsedIn(tpls)
      BY <2>2 DEF SlotsOf, UsedIn
    <3>2. tpls' = tpls /\ IndexOK(tpls)
      BY <2>2, KeptFacts
    <3>3. Without(tpls, tpls, cid')
      BY <3>1, <3>2, HoldsFacts DEF Without
    <3>4. acked' = acked \ {<<path, cid'>>} /\ Removed' = Removed \cup {<<path, cid'>>}
      BY <2>2
    <3> QED BY <2>2, <3>1, <3>2, <3>3, <3>4
  <2>3. CASE /\ \E s \in SlotsOf(cid') : tpls' = [tpls EXCEPT ![s] = Empty]
             /\ SaveSets(tpls') /\ cpc' = "unlink" /\ stoLock' = "caller" /\ UNCHANGED todo
    <3>1. PICK s \in SlotsOf(cid') : tpls' = [tpls EXCEPT ![s] = Empty]
      BY <2>3
    <3>2. s \in Slots /\ tpls[s].id = cid'
      BY DEF SlotsOf
    <3>3. \A g \in Groups : index'[g] = IF g = path THEN tpls' ELSE index[g]
      BY <2>3, KeptFacts, IndexAt
    <3>4. IndexOK(tpls)
      BY KeptFacts
    <3>5. acked' = acked \ {<<path, cid'>>} /\ Removed' = Removed \cup {<<path, cid'>>}
      BY <2>3
    <3>6. cpc' = "unlink" /\ stoLock' = "caller" /\ todo' = todo
      BY <2>3
    <3> HIDE DEF RemoveTemplate, GivenUp, memory, disk, wvars, cvars, reports, history
    <3>7. Without(tpls', tpls, cid')
      BY <3>1, <3>2, <3>4, HoldsEmptied
    <3> QED BY <3>3, <3>5, <3>6, <3>7
  <2> QED BY <2>1, <2>2, <2>3 DEF SaveSetsLies, Reliable
<1> USE DEF Without
<1>3. IndexOK(tpls')
  BY Facts DEF IInv, TypeOK, MemoryOK
<1>4. LockOK'
  BY <1>1, <1>2, KeptFacts DEF LockOK
<1>5. ClosedOK'
  BY <1>1 DEF ClosedOK, Synced
<1>6. RestOK'
  BY <1>2, KeptFacts DEF RestOK, Enrolling
<1>7. PendingOK'
  BY <1>1, <1>2, KeptFacts DEF PendingOK, Pending, Leaving, Good, Placing, Loading, Synced
<1>8. GoodOK'
  BY <1>2 DEF GoodOK, Good
<1>9. PlacingOK'
  BY <1>1, <1>2, KeptFacts DEF PlacingOK, Steady, PendingOK, Pending, Good, Leaving, Placing
<1>10. LeavingOK'
  BY <1>1, <1>2, KeptFacts DEF LeavingOK, Steady, PendingOK, Pending, Good, Leaving, Placing,
     Steady
<1>11. UnfailedOK'
  BY <1>2, KeptFacts DEF UnfailedOK
<1>12. GoneOK'
  BY <1>1, <1>2, <1>3, KeptFacts, HoldsFacts DEF GoneOK, DroppedOK, Synced
<1>13. DroppedOK'
  BY <1>1, <1>2, <1>3, KeptFacts, HoldsFacts DEF DroppedOK, Synced
<1>14. AckedOK'
  BY <1>1, <1>2, KeptFacts DEF AckedOK, Synced
<1>15. RemovedStayGone'
  BY <1>2, KeptFacts DEF RemovedStayGone, Leaving
<1>16. TaHoldsStored'
  BY <1>1, <1>2, KeptFacts DEF TaHoldsStored, Leaving
<1> QED BY <1>4, <1>5, <1>6, <1>7, <1>8, <1>9, <1>10, <1>11, <1>12, <1>13, <1>14, <1>15,
    <1>16 DEF Kept

LEMMA UnlinkTemplate_Kept ==
  ASSUME IInv, Kept, Reliable, GroupIdle, UnlinkTemplate, IInv'
  PROVE  Kept'
<1> USE DEF UnlinkTemplate, memory, disk, wvars, cvars, reports, history
<1>1. cid \in Ids /\ stoLock = "caller"
  BY KeptFacts DEF Steady, LockOK
<1>2. \A g \in Groups, j \in Ids : file'[g][j] = IF g = path /\ j = cid THEN 0 ELSE file[g][j]
  BY <1>1, KeptFacts, FileGone
<1>3. LockOK'
  BY KeptFacts DEF LockOK
<1>4. ClosedOK'
  BY KeptFacts DEF ClosedOK
<1>5. RestOK'
  BY KeptFacts DEF RestOK, Enrolling
<1>6. PendingOK'
  BY KeptFacts DEF PendingOK, Pending, Leaving, Good, Placing, Loading, Synced, UsedIn
<1>7. GoodOK'
  BY KeptFacts DEF GoodOK, Good, Clean, UsedIn
<1>8. PlacingOK'
  BY <1>1, <1>2, KeptFacts DEF PlacingOK, Steady, LockOK, LeavingOK, Placing, Leaving
<1>9. LeavingOK'
  BY KeptFacts DEF LeavingOK, UsedIn
<1>10. UnfailedOK'
  BY KeptFacts DEF UnfailedOK, Clean
<1>11. GoneOK'
  BY <1>1, <1>2, KeptFacts, DiskHolds, HoldsFacts DEF GoneOK, Synced
<1>12. DroppedOK'
  BY <1>1, <1>2, KeptFacts, DiskHolds DEF DroppedOK, Synced
<1>13. AckedOK'
  BY <1>1, <1>2, KeptFacts DEF AckedOK, LeavingOK, Synced
<1>14. RemovedStayGone'
  BY KeptFacts DEF RemovedStayGone, Leaving
<1>15. TaHoldsStored'
  BY KeptFacts DEF TaHoldsStored, Leaving, UsedIn
<1> QED BY <1>3, <1>4, <1>5, <1>6, <1>7, <1>8, <1>9, <1>10, <1>11, <1>12, <1>13, <1>14,
    <1>15 DEF Kept

LEMMA TaRemove_Kept ==
  ASSUME IInv, Kept, Reliable, GroupIdle, TaRemove, IInv'
  PROVE  Kept'
<1> USE DEF TaRemove, memory, disk, wvars, cvars, reports, history
<1>1. ta' = ta \ {cid} /\ UNCHANGED <<gone, misreported>>
  BY DEF Reliable
<1>2. LockOK'
  BY KeptFacts DEF LockOK
<1>3. ClosedOK'
  BY KeptFacts DEF ClosedOK
<1>4. RestOK'
  BY KeptFacts DEF RestOK, Enrolling
<1>5. PendingOK'
  BY KeptFacts DEF PendingOK, Pending, Leaving, Good, Placing, Loading, Synced, UsedIn
<1>6. GoodOK'
  BY KeptFacts DEF GoodOK, Good, Clean, UsedIn
<1>7. PlacingOK'
  BY <1>1, KeptFacts DEF PlacingOK, Placing, Leaving
<1>8. LeavingOK'
  BY KeptFacts DEF LeavingOK, UsedIn
<1>9. UnfailedOK'
  BY KeptFacts DEF UnfailedOK, Clean
<1>10. GoneOK'
  BY KeptFacts DEF GoneOK, Synced
<1>11. DroppedOK'
  BY KeptFacts DEF DroppedOK, Synced, UsedIn
<1>12. AckedOK'
  BY KeptFacts DEF AckedOK, Synced
<1>13. RemovedStayGone'
  BY KeptFacts DEF RemovedStayGone, Leaving
<1>14. TaHoldsStored'
  BY <1>1, KeptFacts DEF TaHoldsStored, Leaving
<1> QED BY <1>2, <1>3, <1>4, <1>5, <1>6, <1>7, <1>8, <1>9, <1>10, <1>11, <1>12, <1>13,
    <1>14 DEF Kept

LEMMA RemoveDone_Kept ==
  ASSUME IInv, Kept, Reliable, GroupIdle, RemoveDone, IInv'
  PROVE  Kept'
<1> USE DEF RemoveDone, memory, disk, wvars, cvars, reports, history
<1>1. LockOK'
  BY KeptFacts DEF LockOK
<1>2. ClosedOK'
  BY KeptFacts DEF ClosedOK
<1>3. RestOK'
  BY KeptFacts DEF RestOK, Enrolling
<1>4. PendingOK'
  BY KeptFacts DEF PendingOK, Pending, Leaving, Good, Placing, Loading, Synced, UsedIn
<1>5. GoodOK'
  BY KeptFacts DEF GoodOK, Good, Clean, UsedIn
<1>6. PlacingOK'
  BY KeptFacts DEF PlacingOK, Placing, Leaving, Clean
<1>7. LeavingOK'
  BY KeptFacts DEF LeavingOK, UsedIn
<1>8. UnfailedOK'
  BY KeptFacts DEF UnfailedOK, Clean
<1>9. GoneOK'
  BY KeptFacts DEF GoneOK, Synced
<1>10. DroppedOK'
  BY KeptFacts DEF DroppedOK, Synced, UsedIn
<1>11. AckedOK'
  BY KeptFacts DEF AckedOK, Synced
<1>12. RemovedStayGone'
  BY KeptFacts DEF RemovedStayGone, Leaving
<1>13. TaHoldsStored'
  BY KeptFacts DEF TaHoldsStored, Leaving, UsedIn
<1> QED BY <1>1, <1>2, <1>3, <1>4, <1>5, <1>6, <1>7, <1>8, <1>9, <1>10, <1>11, <1>12, <1>13
   DEF Kept

LEMMA Crash_Kept ==
  ASSUME IInv, Kept, Reliable, GroupIdle, Crash, IInv'
  PROVE  Kept'
<1> USE DEF Crash, memory, disk, wvars, cvars, reports, history
<1>1. LockOK'
  BY KeptFacts DEF LockOK
<1>2. ClosedOK'
  BY KeptFacts DEF ClosedOK
<1>3. RestOK'
  BY KeptFacts DEF RestOK, Enrolling
<1>4. PendingOK'
  BY KeptFacts DEF PendingOK, Pending, Leaving, Good, Placing, Loading, Synced, UsedIn
<1>5. GoodOK'
  BY KeptFacts DEF GoodOK, Good, Clean, UsedIn
<1>6. PlacingOK'
  BY KeptFacts DEF PlacingOK, Placing, Leaving, Clean
<1>7. LeavingOK'
  BY KeptFacts DEF LeavingOK, UsedIn
<1>8. UnfailedOK'
  BY KeptFacts DEF UnfailedOK, Clean
<1>9. GoneOK'
  BY KeptFacts DEF GoneOK, Synced
<1>10. DroppedOK'
  BY KeptFacts DEF DroppedOK, Synced, UsedIn
<1>11. AckedOK'
  BY KeptFacts DEF AckedOK, Synced
<1>12. RemovedStayGone'
  BY KeptFacts DEF RemovedStayGone, Leaving
<1>13. TaHoldsStored'
  BY KeptFacts DEF TaHoldsStored, Leaving, UsedIn
<1> QED BY <1>1, <1>2, <1>3, <1>4, <1>5, <1>6, <1>7, <1>8, <1>9, <1>10, <1>11, <1>12, <1>13
   DEF Kept

-----------------------------------------------------------------------------
(* What the client relies on                                               *)
-----------------------------------------------------------------------------
LEMMA InitKept == Init => Kept
<1> SUFFICES ASSUME Init PROVE Kept
  OBVIOUS
<1> USE DEF Init
<1>1. LockOK /\ ClosedOK /\ RestOK
  BY DEF LockOK, ClosedOK, RestOK, Enrolling
<1>2. PendingOK /\ GoodOK /\ PlacingOK /\ LeavingOK
  BY DEF PendingOK, GoodOK, PlacingOK, LeavingOK, Good, Placing, Loading, Synced
<1>3. UnfailedOK /\ GoneOK /\ DroppedOK /\ AckedOK
  BY DEF UnfailedOK, GoneOK, DroppedOK, AckedOK, Synced
<1>4. RemovedStayGone /\ TaHoldsStored
  BY DEF RemovedStayGone, TaHoldsStored
<1> QED BY <1>1, <1>2, <1>3, <1>4 DEF Kept

LEMMA StutterKept ==
  ASSUME Kept, UNCHANGED vars
  PROVE  Kept'
<1> USE DEF vars, memory, disk, wvars, cvars, reports, history
<1>1. LockOK' /\ ClosedOK' /\ RestOK'
  BY DEF Kept, LockOK, ClosedOK, RestOK
<1>2. PendingOK' /\ GoodOK' /\ PlacingOK' /\ LeavingOK'
  BY DEF Kept, PendingOK, GoodOK, PlacingOK, LeavingOK, Pending, Leaving, Synced, UsedIn, Clean
<1>3. UnfailedOK' /\ GoneOK' /\ DroppedOK' /\ AckedOK'
  BY DEF Kept, UnfailedOK, GoneOK, DroppedOK, AckedOK, Synced, UsedIn, Clean
<1>4. RemovedStayGone' /\ TaHoldsStored'
  BY DEF Kept, RemovedStayGone, TaHoldsStored, Leaving, UsedIn
<1> QED BY <1>1, <1>2, <1>3, <1>4 DEF Kept

LEMMA NextKept == IInv /\ Kept /\ Reliable /\ GroupIdle /\ [Next]_vars => Kept'
<1> SUFFICES ASSUME IInv, Kept, Reliable, GroupIdle, [Next]_vars PROVE Kept'
  OBVIOUS
<1>1. IInv'
  BY NextIInv
<1>2. CASE Worker
  <2>1. CASE EnrollEnd \/ AuthEnd
    BY <1>1, <2>1, Make_Kept, KeptFacts DEF EnrollEnd, AuthEnd
  <2> QED
    BY <1>1, <1>2, <2>1, AllocateFid_Kept, PlaceTemplate_Kept, WriteTemplate_Kept,
       IndexTemplate_Kept, Enrolled_Kept, UpdateTemplate_Kept, UpdateIndex_Kept DEF Worker
<1>3. CASE Caller
  BY <1>1, <1>3, SetActiveGroup_Kept, InitLock_Kept, ListIds_Kept, LoadTemplate_Kept,
     LoadIndex_Kept, TaLoad_Kept, IncFailCount_Kept, LoadDone_Kept, Remove_Kept,
     RemoveTemplate_Kept, UnlinkTemplate_Kept, TaRemove_Kept, RemoveDone_Kept DEF Caller
<1> QED BY <1>1, <1>2, <1>3, Open_Kept, Crash_Kept, StutterKept DEF Next

LEMMA KeptInvariance == ASSUME GroupIdle, Reliable PROVE Spec => []Kept
<1>1. Init => Kept
  BY InitKept
<1>2. IInv /\ Kept /\ [Next]_vars => Kept'
  BY NextKept
<1> QED BY <1>1, <1>2, Invariance, PTL DEF Spec

\* A finger reported removed is not matched before it is enrolled anew, in any
\* group, whatever crashes, evictions and failed loads come between; among those
\* reported are all that a removal of all fingers went through, and only the ones
\* it could not take from the index are excepted (the TA forgets, by Reliable).
THEOREM RemovedFingersStayGone == ASSUME GroupIdle, Reliable PROVE Spec => []RemovedStayGone
<1>1. Kept => RemovedStayGone
  BY DEF Kept
<1> QED BY <1>1, KeptInvariance, PTL

\* What the TA can match is in the index, or is being removed: silead_impl.c
\* keeps the two lists together though they change in different sections.
THEOREM TaFollowsStore == ASSUME GroupIdle, Reliable PROVE Spec => []TaHoldsStored
<1>1. Kept => TaHoldsStored
  BY DEF Kept
<1> QED BY <1>1, KeptInvariance, PTL

\* An enrolment that was reported outlives crashes and other failures on disk.
THEOREM AckedFingersSurvive == ASSUME GroupIdle, Reliable PROVE Spec => []AckedSurvive
<1>1. IInv /\ Kept => AckedSurvive
  <2> SUFFICES ASSUME IInv, Kept, NEW a \in acked
               PROVE  \/ wpc = "update_index" /\ <<path, wid>> = a
                      \/ Holds(index[a[1]], a[2], file[a[1]][a[2]])
    BY DEF AckedSurvive, Holds
  <2>1. a = <<a[1], a[2]>> /\ a[1] \in Groups /\ a[2] \in Ids
    BY KeptFacts
  <2> QED BY <2>1, KeptFacts DEF AckedOK
<1> QED BY <1>1, Invariance, KeptInvariance, PTL

=============================================================================
