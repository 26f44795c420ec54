---------------------------- MODULE TemplateStorage --------------------------
(***************************************************************************)
(* The template store of silead_storage.c and the operations of            *)
(* silead_impl.c that keep it and the list in the TA together.             *)
(*                                                                         *)
(* A group's directory holds an index (silead.tpl) of TPL_MAX_ST slots and *)
(* one file per template; both are replaced by a rename, so a crash leaves *)
(* the old or the new version.  In memory the index is tpls.  The worker   *)
(* saves an enrolment and updates a matched template; a caller changes the *)
(* group and removes fingers, holding the HAL's own lock, which the worker *)
(* does not take.  sto_lock orders the two, except that loading a group    *)
(* initialises that mutex anew.                                            *)
(*                                                                         *)
(* Steps end where a file changes or sto_lock is released.  A template's   *)
(* contents are a number, and the number is its checksum.  tpls.num is     *)
(* left out: the code counts with it and never reads it.                   *)
(***************************************************************************)
EXTENDS Naturals, FiniteSets, FiniteSetsExt

CONSTANTS
  Groups,        \* directories set_active_group can name
  DefaultGroup,  \* the built-in directory
  TplMax,        \* TPL_MAX_ST (10)
  FirstId,       \* TPLID_S (128)
  EndId,         \* TPLID_E (255), never allocated
  MaxFail,       \* MAX_LOAD_FAIL (5)
  MaxTemplates,  \* bound on the number of templates the TA makes
  GroupIdle,     \* the client changes the group only while the worker rests
  Faults         \* what may go wrong, a subset of AllFaults

AllFaults == {"crash", "read", "write", "index", "update_index", "rename", "unlink",
              "ta_enroll", "ta_load", "ta_remove"}

Slots == 1 .. TplMax
Ids   == FirstId .. (EndId - 1)

ASSUME StorageOK ==
  /\ DefaultGroup \in Groups
  /\ TplMax \in Nat \ {0} /\ FirstId \in Nat \ {0} /\ EndId \in Nat
  /\ EndId - FirstId > TplMax
  /\ MaxFail \in Nat \ {0} /\ MaxTemplates \in Nat
  /\ GroupIdle \in BOOLEAN /\ Faults \subseteq AllFaults

VARIABLES
  tpls,    \* the index in memory
  lastId,  \* the id allocated last
  opened,  \* tpls.init_once
  stoLock, \* holder of sto_lock: "none", "worker" or "caller"
  path,    \* m_str_tpl_path
  index,   \* silead.tpl of each group, or NoIndex
  file,    \* contents of the template files, 0 for no file
  ta,      \* ids the TA can match
  wpc, wid, wslot, wbuf,  \* the worker's operation and its locals
  late,    \* operations the worker has ended, or is ending, under the caller's lock
  cpc, cid, todo, sweep,  \* the caller's operation and its locals
  made,    \* templates the TA has made
  origin,  \* group each was made in
  acked,   \* fingers reported enrolled that nothing has given up since
  gone,    \* fingers reported removed and not enrolled again
  misreported  \* those of them that a removal of all fingers did not remove

disk    == <<index, file>>
memory  == <<tpls, lastId, opened>>
wvars   == <<wpc, wid, wslot, wbuf, late>>
cvars   == <<cpc, cid, todo, sweep>>
reports == <<gone, misreported>>
history == <<made, origin, acked, reports>>
vars    == <<memory, stoLock, path, disk, ta, wvars, cvars, history>>

Empty   == [id |-> 0, sum |-> 0, fails |-> 0]
Blank   == [s \in Slots |-> Empty]
NoIndex == [s \in {} |-> Empty]
UsedIn(t) == {t[s].id : s \in Slots}
SlotsOf(id) == {s \in Slots : tpls[s].id = id}

SetFile(id, d) == file' = [file EXCEPT ![path][id] = d]

\* _storage_remove: a failing unlink is not noticed.
Unlink(id) == SetFile(id, 0) \/ ("unlink" \in Faults /\ UNCHANGED file)

\* _storage_save_sets: written, failed before the rename, or failed in the
\* rename, whose result is overwritten with success.
SaveSets(t) == index' = [index EXCEPT ![path] = t]
SaveSetsFails(fault) == fault \in Faults /\ UNCHANGED index
SaveSetsLies == "rename" \in Faults /\ UNCHANGED index

-----------------------------------------------------------------------------
(***************************************************************************)
(* Opening the store                                                       *)
(***************************************************************************)
\* _storage_init: read the index of the group; an absent one is created.
ReadIndex ==
  /\ opened' = TRUE
  /\ IF index[path] = NoIndex
     THEN /\ tpls' = Blank /\ lastId' = 0
          /\ SaveSets(Blank) \/ SaveSetsFails("index") \/ SaveSetsLies
     ELSE /\ tpls' = index[path]
          /\ lastId' = Max(UsedIn(index[path]))
          /\ UNCHANGED index

\* An operation that finds the store closed opens it first.
Open ==
  /\ ~opened
  /\ \/ wpc \in {"fid", "update"}
     \/ cpc = "remove"
  /\ stoLock = "none"
  /\ ReadIndex
  /\ UNCHANGED <<stoLock, path, file, ta, wvars, cvars, history>>
-----------------------------------------------------------------------------
(***************************************************************************)
(* The worker: sl_fp_enroll_end and sl_fp_auth_end                         *)
(***************************************************************************)
\* The TA hands out a template in the group that is loaded.  A request needs the
\* lock the caller holds: meanwhile the worker ends one enrolment and one
\* authentication at most, those asked for before.
Make(id, p) ==
  /\ wpc = "idle"
  /\ cpc = "idle" \/ p \notin late
  /\ late' = {p} \cup (IF cpc = "idle" THEN {} ELSE late)
  /\ GroupIdle => cpc \notin {"init", "read"}
  /\ made < MaxTemplates
  /\ made' = made + 1
  /\ wbuf' = made'
  /\ origin' = [origin EXCEPT ![made'] = path]
  /\ wid' = id /\ wpc' = p
  /\ UNCHANGED <<memory, stoLock, path, disk, ta, wslot, cvars, acked, reports>>

EnrollEnd == Make(0, "fid")
AuthEnd == \E id \in ta : Make(id, "update")

\* Fault: ids in use are not skipped.
NextFid_Naive ==
  IF lastId + 1 < FirstId \/ lastId + 1 >= EndId THEN FirstId ELSE lastId + 1

\* silfp_storage_get_next_fid: the first unused id after the last one, and from
\* the start of the range when there is none.
NextFid ==
  LET free  == Ids \ UsedIn(tpls)
      above == {i \in free : i > lastId}
  IN  IF above # {} THEN Min(above) ELSE Min(free)

AllocateFid ==
  /\ wpc = "fid" /\ opened /\ stoLock = "none"
  /\ wid' = NextFid /\ lastId' = wid'
  /\ wpc' = "place"
  /\ UNCHANGED <<tpls, opened, stoLock, path, disk, ta, wslot, wbuf, late, cvars, history>>

\* The worker's operation ends, and with it the section under sto_lock.
WorkerDone == wpc' = "idle" /\ stoLock' = "none"

\* The templates in use that failed to load most often.
Worst == {s \in Slots : tpls[s].fails > 0 /\ \A r \in Slots : tpls[r].fails <= tpls[s].fails}
Victim == Min(Worst)

\* Fault: with no free slot and no failing template the first one is evicted.
PlaceTemplate_Any ==
  /\ wpc = "place" /\ stoLock = "none"
  /\ \/ /\ wid \notin UsedIn(tpls) /\ SlotsOf(0) # {}
        /\ wslot' = Min(SlotsOf(0))
        /\ UNCHANGED <<tpls, file, acked>>
     \/ /\ wid \notin UsedIn(tpls) /\ SlotsOf(0) = {}
        /\ wslot' = 1
        /\ tpls' = [tpls EXCEPT ![1] = Empty]
        /\ Unlink(tpls[1].id)
        /\ UNCHANGED acked
  /\ stoLock' = "worker" /\ wpc' = "write"
  /\ UNCHANGED <<lastId, opened, path, index, ta, wid, wbuf, late, cvars, made, origin, reports>>

\* silfp_storage_save: the first free slot, or else the template that failed to
\* load most often, which is deleted at once.
PlaceTemplate ==
  /\ wpc = "place" /\ stoLock = "none"
  /\ \/ /\ wid \in UsedIn(tpls) \/ (SlotsOf(0) = {} /\ Worst = {})
        /\ WorkerDone
        /\ UNCHANGED <<tpls, file, wslot, acked>>
     \/ /\ wid \notin UsedIn(tpls) /\ SlotsOf(0) # {}
        /\ wslot' = Min(SlotsOf(0))
        /\ stoLock' = "worker" /\ wpc' = "write"
        /\ UNCHANGED <<tpls, file, acked>>
     \/ /\ wid \notin UsedIn(tpls) /\ SlotsOf(0) = {} /\ Worst # {}
        /\ wslot' = Victim
        /\ tpls' = [tpls EXCEPT ![Victim] = Empty]
        /\ Unlink(tpls[Victim].id)
        /\ acked' = acked \ {<<path, tpls[Victim].id>>}
        /\ stoLock' = "worker" /\ wpc' = "write"
  /\ UNCHANGED <<lastId, opened, path, index, ta, wid, wbuf, late, cvars, made, origin, reports>>

WriteTemplate ==
  /\ wpc = "write"
  /\ \/ /\ SetFile(wid, wbuf)
        /\ tpls' = [tpls EXCEPT ![wslot] = [id |-> wid, sum |-> wbuf, fails |-> 0]]
        /\ gone' = gone \ {<<path, wid>>}
        /\ misreported' = misreported \ {<<path, wid>>}
        /\ wpc' = "index"
        /\ UNCHANGED stoLock
     \/ /\ "write" \in Faults
        /\ WorkerDone
        /\ UNCHANGED <<file, tpls, reports>>
  /\ UNCHANGED <<lastId, opened, path, index, ta, wid, wslot, wbuf, late, cvars,
                 made, origin, acked>>

\* Save the index; if that fails take the template back.
IndexTemplate ==
  /\ wpc = "index"
  /\ stoLock' = "none"
  /\ \/ /\ SaveSets(tpls) \/ SaveSetsLies
        /\ wpc' = "enrolled"
        /\ UNCHANGED <<tpls, file>>
     \/ /\ SaveSetsFails("index")
        /\ Unlink(wid)
        /\ tpls' = [tpls EXCEPT ![wslot] = Empty]
        /\ wpc' = "idle"
  /\ UNCHANGED <<lastId, opened, path, ta, wid, wslot, wbuf, late, cvars, history>>

\* The TA ends the enrolment, and the client is told.
Enrolled ==
  /\ wpc = "enrolled"
  /\ \/ /\ ta' = ta \cup {wid}
        /\ acked' = acked \cup {<<origin[wbuf], wid>>}
     \/ "ta_enroll" \in Faults /\ UNCHANGED <<ta, acked>>
  /\ wpc' = "idle"
  /\ UNCHANGED <<memory, stoLock, path, disk, wid, wslot, wbuf, late, cvars, made, origin, reports>>

\* silfp_storage_update: the template first, then the index with its checksum.
UpdateTemplate ==
  /\ wpc = "update" /\ opened /\ stoLock = "none"
  /\ \/ /\ SlotsOf(wid) # {}
        /\ SetFile(wid, wbuf)
        /\ tpls' = [tpls EXCEPT ![Min(SlotsOf(wid))].sum = wbuf]
        /\ stoLock' = "worker" /\ wpc' = "update_index"
     \/ /\ SlotsOf(wid) = {} \/ "write" \in Faults
        /\ WorkerDone
        /\ UNCHANGED <<tpls, file>>
  /\ UNCHANGED <<lastId, opened, path, index, ta, wid, wslot, wbuf, late, cvars, history>>

\* A failing index is only logged.
UpdateIndex ==
  /\ wpc = "update_index"
  /\ SaveSets(tpls) \/ SaveSetsFails("update_index") \/ SaveSetsLies
  /\ WorkerDone
  /\ UNCHANGED <<memory, path, file, ta, wid, wslot, wbuf, late, cvars, history>>

Worker == \/ EnrollEnd \/ AuthEnd \/ AllocateFid \/ PlaceTemplate \/ WriteTemplate
          \/ IndexTemplate \/ Enrolled \/ UpdateTemplate \/ UpdateIndex
-----------------------------------------------------------------------------
(***************************************************************************)
(* The caller: silfp_finger_set_active_group                               *)
(***************************************************************************)
\* The caller takes the HAL's lock.
Enter(p) == cpc = "idle" /\ cpc' = p /\ late' = IF wpc = "idle" THEN {} ELSE late

\* Fault: the TA's list of the group before is kept.
SetActiveGroup_Keep(g) ==
  /\ Enter("init")
  /\ GroupIdle => wpc = "idle"
  /\ path' = g
  /\ UNCHANGED <<memory, stoLock, disk, ta, wpc, wid, wslot, wbuf, cid, todo, sweep, history>>

\* sl_fp_load_user_db: the path, the TA's list, then the index by force.
SetActiveGroup(g) ==
  /\ Enter("init")
  /\ GroupIdle => wpc = "idle"
  /\ path' = g /\ ta' = {}
  /\ UNCHANGED <<memory, stoLock, disk, wpc, wid, wslot, wbuf, cid, todo, sweep, history>>

\* pthread_mutex_init, whoever holds the mutex.
InitLock ==
  /\ cpc = "init"
  /\ stoLock' = "none" /\ lastId' = 0
  /\ cpc' = "read"
  /\ UNCHANGED <<tpls, opened, path, disk, ta, wvars, cid, todo, sweep, history>>

ListIds ==
  /\ cpc = "read" /\ stoLock = "none"
  /\ ReadIndex
  /\ todo' = UsedIn(tpls') \ {0}
  /\ cpc' = "load"
  /\ UNCHANGED <<stoLock, path, file, ta, wvars, cid, sweep, history>>

\* Fault: one failure more than MaxFail allows is counted.
FailOnce_Late(s) ==
  IF tpls[s].fails < MaxFail
  THEN /\ tpls' = [tpls EXCEPT ![s].fails = @ + 1]
       /\ UNCHANGED <<file, acked>>
  ELSE /\ tpls' = [tpls EXCEPT ![s] = Empty]
       /\ Unlink(tpls[s].id)
       /\ acked' = acked \ {<<path, tpls[s].id>>}

\* A template that failed once more: at MaxFail it is dropped and deleted.
FailOnce(s) ==
  IF tpls[s].fails + 1 < MaxFail
  THEN /\ tpls' = [tpls EXCEPT ![s].fails = @ + 1]
       /\ UNCHANGED <<file, acked>>
  ELSE /\ tpls' = [tpls EXCEPT ![s] = Empty]
       /\ Unlink(tpls[s].id)
       /\ acked' = acked \ {<<path, tpls[s].id>>}

\* silfp_storage_load: a good template clears its failure count.
LoadTemplate ==
  /\ cpc = "load" /\ stoLock = "none"
  /\ \E id \in todo :
       /\ cid' = id /\ todo' = todo \ {id}
       /\ \/ /\ SlotsOf(id) = {}
             /\ UNCHANGED <<tpls, file, acked, stoLock, cpc>>
          \/ \E s \in SlotsOf(id) :
               /\ file[path][id] = tpls[s].sum
               /\ tpls' = [tpls EXCEPT ![s].fails = 0]
               /\ IF tpls[s].fails = 0
                  THEN cpc' = "ta_load" /\ UNCHANGED stoLock
                  ELSE cpc' = "good_index" /\ stoLock' = "caller"
               /\ UNCHANGED <<file, acked>>
          \/ \E s \in SlotsOf(id) :
               /\ file[path][id] # tpls[s].sum \/ "read" \in Faults
               /\ FailOnce(s)
               /\ cpc' = "bad_index" /\ stoLock' = "caller"
  /\ UNCHANGED <<lastId, opened, path, index, ta, wvars, sweep, made, origin, reports>>

\* Save the changed counts; a failing index is only logged.
LoadIndex ==
  /\ cpc \in {"good_index", "bad_index"}
  /\ SaveSets(tpls) \/ SaveSetsFails("index") \/ SaveSetsLies
  /\ stoLock' = "none"
  /\ cpc' = IF cpc = "good_index" THEN "ta_load" ELSE "load"
  /\ UNCHANGED <<memory, path, file, ta, wvars, cid, todo, sweep, history>>

\* The TA takes the template, finds it invalid, or fails for another reason.
TaLoad ==
  /\ cpc = "ta_load"
  /\ \/ ta' = ta \cup {cid} /\ cpc' = "load"
     \/ "ta_load" \in Faults /\ cpc' \in {"fail_count", "load"} /\ UNCHANGED ta
  /\ UNCHANGED <<memory, stoLock, path, disk, wvars, cid, todo, sweep, history>>

\* silfp_storage_inc_fail_count
IncFailCount ==
  /\ cpc = "fail_count" /\ stoLock = "none"
  /\ \/ /\ SlotsOf(cid) = {}
        /\ cpc' = "load"
        /\ UNCHANGED <<tpls, file, acked, stoLock>>
     \/ /\ \E s \in SlotsOf(cid) : FailOnce(s)
        /\ cpc' = "bad_index" /\ stoLock' = "caller"
  /\ UNCHANGED <<lastId, opened, path, index, ta, wvars, cid, todo, sweep, made, origin, reports>>

LoadDone ==
  /\ cpc = "load" /\ todo = {}
  /\ cpc' = "idle"
  /\ UNCHANGED <<memory, stoLock, path, disk, ta, wvars, cid, todo, sweep, history>>
-----------------------------------------------------------------------------
(***************************************************************************)
(* The caller: silfp_finger_remove                                         *)
(***************************************************************************)
\* One finger the client knows of, or with fid 0 all that the TA lists.
Remove ==
  /\ Enter("remove")
  /\ \/ /\ \E id \in ta \cup {a[2] : a \in {b \in acked : b[1] = path}} : todo' = {id}
        /\ sweep' = FALSE
     \/ ta # {} /\ todo' = ta /\ sweep' = TRUE
  /\ UNCHANGED <<memory, stoLock, path, disk, ta, wpc, wid, wslot, wbuf, cid, history>>

\* The finger is, or will be, reported removed; kept says that it is not.
GivenUp(id, kept) ==
  /\ acked' = acked \ {<<path, id>>}
  /\ gone' = gone \cup {<<path, id>>}
  /\ misreported' = IF kept THEN misreported \cup {<<path, id>>} ELSE misreported \ {<<path, id>>}

\* Fault: the slot stays in the index.
RemoveTemplate_Keep ==
  /\ cpc = "remove" /\ opened /\ stoLock = "none"
  /\ \E id \in todo :
       /\ cid' = id
       /\ GivenUp(id, FALSE)
       /\ cpc' = IF SlotsOf(id) = {} THEN "ta_remove" ELSE "unlink"
       /\ stoLock' = IF SlotsOf(id) = {} THEN "none" ELSE "caller"
  /\ UNCHANGED <<memory, path, disk, ta, wvars, todo, sweep, made, origin>>

\* silfp_storage_remove: the index without the template; if that cannot be
\* saved the slot is restored and the removal fails.  A single removal that
\* fails is reported as an error; with fid 0 (sweep) its result is only logged,
\* and the finger is reported removed all the same.
RemoveTemplate ==
  /\ cpc = "remove" /\ opened /\ stoLock = "none"
  /\ \E id \in todo :
       /\ cid' = id
       /\ \/ /\ SlotsOf(id) = {}
             /\ GivenUp(id, FALSE)
             /\ cpc' = "ta_remove"
             /\ UNCHANGED <<tpls, index, stoLock, todo>>
          \/ /\ \E s \in SlotsOf(id) : tpls' = [tpls EXCEPT ![s] = Empty]
             /\ SaveSets(tpls') \/ SaveSetsLies
             /\ GivenUp(id, FALSE)
             /\ cpc' = "unlink" /\ stoLock' = "caller"
             /\ UNCHANGED todo
          \/ /\ SlotsOf(id) # {} /\ SaveSetsFails("index")
             /\ IF sweep THEN GivenUp(id, TRUE) ELSE UNCHANGED <<acked, reports>>
             /\ todo' = todo \ {id}
             /\ UNCHANGED <<tpls, stoLock, cpc>>
  /\ UNCHANGED <<lastId, opened, path, file, ta, wvars, sweep, made, origin>>

UnlinkTemplate ==
  /\ cpc = "unlink"
  /\ Unlink(cid)
  /\ stoLock' = "none" /\ cpc' = "ta_remove"
  /\ UNCHANGED <<memory, path, index, ta, wvars, cid, todo, sweep, history>>

\* The TA forgets the finger.  If it refuses, a single removal is reported as an
\* error, and one of a sweep as done.
TaRemove ==
  /\ cpc = "ta_remove"
  /\ \/ ta' = ta \ {cid} /\ UNCHANGED reports
     \/ /\ "ta_remove" \in Faults
        /\ IF sweep
           THEN misreported' = misreported \cup {<<path, cid>>} /\ UNCHANGED gone
           ELSE gone' = gone \ {<<path, cid>>} /\ UNCHANGED misreported
        /\ UNCHANGED ta
  /\ todo' = todo \ {cid}
  /\ cpc' = "remove"
  /\ UNCHANGED <<memory, stoLock, path, disk, wvars, cid, sweep, made, origin, acked>>

RemoveDone ==
  /\ cpc = "remove" /\ todo = {}
  /\ cpc' = "idle" /\ sweep' = FALSE
  /\ UNCHANGED <<memory, stoLock, path, disk, ta, wvars, cid, todo, history>>

Caller == \/ \E g \in Groups : SetActiveGroup(g)
          \/ InitLock \/ ListIds \/ LoadTemplate \/ LoadIndex
          \/ TaLoad \/ IncFailCount \/ LoadDone
          \/ Remove \/ RemoveTemplate \/ UnlinkTemplate \/ TaRemove \/ RemoveDone
-----------------------------------------------------------------------------
\* The process dies and starts again; the disk stays.  An update caught between
\* its two writes leaves a template that no longer fits its checksum.
Crash ==
  /\ "crash" \in Faults
  /\ acked' = IF wpc = "update_index" THEN acked \ {<<path, wid>>} ELSE acked
  /\ tpls' = Blank /\ lastId' = 0 /\ opened' = FALSE
  /\ stoLock' = "none" /\ path' = DefaultGroup /\ ta' = {}
  /\ wpc' = "idle" /\ wid' = 0 /\ wslot' = 1 /\ wbuf' = 0 /\ late' = {}
  /\ cpc' = "idle" /\ cid' = 0 /\ todo' = {} /\ sweep' = FALSE
  /\ UNCHANGED <<disk, made, origin, reports>>

Init ==
  /\ tpls = Blank /\ lastId = 0 /\ opened = FALSE
  /\ stoLock = "none" /\ path = DefaultGroup /\ ta = {}
  /\ index = [g \in Groups |-> NoIndex]
  /\ file = [g \in Groups |-> [id \in Ids |-> 0]]
  /\ wpc = "idle" /\ wid = 0 /\ wslot = 1 /\ wbuf = 0 /\ late = {}
  /\ cpc = "idle" /\ cid = 0 /\ todo = {} /\ sweep = FALSE
  /\ made = 0 /\ origin = [d \in 1 .. MaxTemplates |-> DefaultGroup]
  /\ acked = {} /\ gone = {} /\ misreported = {}

Next == Open \/ Worker \/ Caller \/ Crash
Spec == Init /\ [][Next]_vars
-----------------------------------------------------------------------------
(***************************************************************************)
(* Properties                                                              *)
(***************************************************************************)
Templates == 1 .. MaxTemplates
Slot == {Empty} \cup [id : Ids, sum : Templates, fails : 0 .. MaxFail - 1]
Sets == [Slots -> Slot]
DistinctIn(t) == \A r, s \in Slots : t[r].id = t[s].id /\ t[r].id # 0 => r = s
IndexOK(t) == t \in Sets /\ DistinctIn(t)

WorkerPcs == {"idle", "fid", "place", "write", "index", "enrolled", "update", "update_index"}
CallerPcs == {"idle", "init", "read", "load", "good_index", "bad_index", "ta_load", "fail_count",
              "remove", "unlink", "ta_remove"}

MemoryOK ==
  /\ IndexOK(tpls)
  /\ lastId \in Ids \cup {0} /\ opened \in BOOLEAN
  /\ stoLock \in {"none", "worker", "caller"} /\ path \in Groups

FilesOK == file \in [Groups -> [Ids -> Templates \cup {0}]]

DiskOK ==
  /\ DOMAIN index = Groups
  /\ \A g \in Groups : index[g] = NoIndex \/ IndexOK(index[g])
  /\ FilesOK

WorkerOK ==
  /\ wpc \in WorkerPcs /\ wid \in Ids \cup {0} /\ wslot \in Slots
  /\ wbuf \in Templates \cup {0} /\ late \subseteq {"fid", "update"}

CallerOK ==
  /\ cpc \in CallerPcs /\ cid \in Ids \cup {0}
  /\ todo \subseteq Ids /\ ta \subseteq Ids /\ sweep \in BOOLEAN

HistoryOK ==
  /\ made \in 0 .. MaxTemplates /\ origin \in [Templates -> Groups]
  /\ acked \subseteq Groups \X Ids
  /\ gone \subseteq Groups \X Ids /\ misreported \subseteq Groups \X Ids

\* Type correctness; an index, in memory or on disk, never names an id twice,
\* and no slot keeps a count of failures that should have dropped it.
TypeOK == MemoryOK /\ DiskOK /\ WorkerOK /\ CallerOK /\ HistoryOK

\* The id chosen in one section under sto_lock is still free when the next one
\* uses it, whatever the caller removes or drops in between.
FreshFid == wpc = "place" => wid \in Ids \ UsedIn(tpls)

\* An enrolment reported to the client is on disk, indexed and intact, through
\* crashes, evictions and failures of everything else, until it is removed, is
\* evicted or dropped after failed loads, or a crash splits its update.
AckedSurvive ==
  \A a \in acked :
    \/ wpc = "update_index" /\ <<path, wid>> = a
    \/ \E s \in DOMAIN index[a[1]] :
         index[a[1]][s].id = a[2] /\ index[a[1]][s].sum = file[a[1]][a[2]]

\* The finger whose removal is between the storage and the TA.
Leaving == IF cpc \in {"unlink", "ta_remove"} THEN {cid} ELSE {}

\* A finger reported removed is not matched until it is enrolled anew, though its
\* file may have outlived a crash and its id is given out again; the exception is
\* one that a removal of all fingers reported though a step of its removal failed.
RemovedStayGone ==
  \A id \in ta \ Leaving : <<path, id>> \in gone => <<path, id>> \in misreported

\* What the TA matches is in the index, save for the removal in progress.
TaHoldsStored == ta \subseteq UsedIn(tpls) \cup Leaving

\* What fingerprint_oppo.h says of set_active_group: the HAL is restricted to the
\* fingers of a group, so a directory lists those enrolled in it.
GroupsApart ==
  \A g \in Groups : \A s \in DOMAIN index[g] :
    index[g][s].id # 0 => origin[index[g][s].sum] = g
=============================================================================
