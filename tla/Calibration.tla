---------------------------- MODULE Calibration ----------------------------
(***************************************************************************)
(* What the TA is given at its start and what it hands back to be kept:    *)
(* the configuration update (module Config) and the calibration of the     *)
(* optical build, _sl_fp_calibrate_step of silead_impl.c with the file     *)
(* operations of silead_storage.c.                                         *)
(*                                                                         *)
(* Steps 1 to 3 measure a base each.  Steps 4 and 5 adapt to the fingers,  *)
(* with the bases the TA holds, so a new base makes the files of 4 and 5   *)
(* useless: they are removed once it is saved.  At the start of a session  *)
(* every step loads its file, or tells the TA that there is none.          *)
(*                                                                         *)
(* Everything runs in one thread at a time (the worker, or the thread that *)
(* opens the device before the worker exists).  The process may end at any *)
(* point; the TA's memory ends with it, the files stay.                    *)
(***************************************************************************)
EXTENDS Config, Naturals, Sequences

CONSTANTS
  MaxGen,      \* bound on the number of bases that are ever measured
  MaxSessions, \* bound on the number of sessions
  Lens         \* by step, lengths of its data: "short", "long", or "edge", at
               \* which the buffer for the file is as long as that for no file

Bases   == 1..3
Steps   == 1..5
Adapted == {4, 5}
NoData  == [of |-> <<>>, len |-> "none"]

ASSUME CalibrationOK ==
  MaxGen \in Nat /\ MaxSessions \in Nat /\ Lens \in [Steps -> SUBSET {"short", "long", "edge"}]

VARIABLES
  pc,       \* "closed", "rest", or where _sl_fp_calibrate_step stands
  sessions, \* sessions so far
  todo,     \* the steps that are left, and whether they are the initial ones
  flag,     \* what the TA is told of the file: "none", "valid" or "invalid"
  data,     \* the buffer
  gen,      \* bases measured so far
  ta,       \* what the TA holds of each step
  disk,     \* the files
  spoilt    \* a removal did not happen or was of no use

calibVars == <<pc, sessions, todo, flag, data, gen, ta, disk, spoilt>>
vars == <<configVars, calibVars>>

Step     == Head(todo.steps)
IsAt(p)  == pc = p /\ todo.steps # <<>>
TaBases  == [b \in Bases |-> ta[b].of]
Stored   == [b \in Bases |-> disk[b].of]

\* The end of a step: the next one follows, after 4 only if it adapted anew.
Done(next) ==
  /\ todo' = [todo EXCEPT !.steps = IF next THEN Tail(@) ELSE <<>>]
  /\ pc' = IF next /\ Len(todo.steps) > 1 THEN "begin" ELSE "rest"

Begin(steps, init) == pc' = "begin" /\ todo' = [steps |-> steps, init |-> init]
-----------------------------------------------------------------------------
\* _fp_init with the configuration update, and sl_fp_calibrate of the worker's start.
Open ==
  /\ pc = "closed" /\ sessions < MaxSessions
  /\ sessions' = sessions + 1
  /\ FpUpdateCfg
  /\ IF device.optic THEN Begin(<<1, 2, 3, 4, 5>>, TRUE) ELSE pc' = "rest" /\ UNCHANGED todo
  /\ UNCHANGED <<flag, data, gen, ta, disk, spoilt>>

\* The calibration commands 1 to 3 of the tests.
Measure ==
  /\ pc = "rest" /\ device.optic
  /\ \E b \in Bases: Begin(<<b>>, FALSE)
  /\ UNCHANGED <<configVars, sessions, flag, data, gen, ta, disk, spoilt>>

\* The end of an enrolment or an authentication.
Adapt ==
  /\ pc = "rest" /\ device.optic
  /\ Begin(<<4, 5>>, FALSE)
  /\ UNCHANGED <<configVars, sessions, flag, data, gen, ta, disk, spoilt>>

Given(f, d) == pc' = "ta" /\ flag' = f /\ data' = d /\ UNCHANGED todo

\* silfp_storage_load_config: all of the file, or nothing.
LoadFile == Given("valid", disk[Step]) \/ Given("invalid", NoData)

\* silfp_storage_get_file_size, which fails for no file.
FileLen == disk[Step].len

\* The buffer: without its memory the step is over, and the TA hears nothing.
\* A file whose length makes the buffer as long as that of a measurement is
\* not loaded, and the TA is told nothing of it.
Load ==
  /\ IsAt("begin")
  /\ \/ Done(todo.init \/ Step # 4) /\ UNCHANGED <<flag, data>>
     \/ ~todo.init /\ Given("none", NoData)
     \/ todo.init /\ CASE FileLen \in {"none", "short"} -> Given("invalid", NoData)
                       [] FileLen = "edge" -> Given("none", NoData)
                       [] OTHER -> LoadFile
  /\ UNCHANGED <<configVars, sessions, gen, ta, disk, spoilt>>

\* What the TA answers a step with: it holds "new" and may hand it back.
Answer(new, back) ==
  /\ ta' = [ta EXCEPT ![Step] = new]
  /\ IF back THEN pc' = "save" /\ data' = new /\ UNCHANGED todo
             ELSE Done(todo.init \/ Step # 4) /\ UNCHANGED data

\* fp_calibrate_optic gives up the step, or takes the file as it is.
TaKeeps ==
  /\ IsAt("ta")
  /\ \/ Answer(IF flag = "none" THEN ta[Step] ELSE NoData, FALSE)
     \/ flag = "valid" /\ Answer(data, FALSE)
  /\ UNCHANGED <<configVars, sessions, flag, gen, disk, spoilt>>

\* It measures a base and forgets what it adapted.  At the start it says so
\* with a result above 10.
TaMeasures ==
  /\ IsAt("ta") /\ Step \in Bases /\ gen < MaxGen
  /\ gen' = gen + 1
  /\ \E l \in Lens[Step]: data' = [of |-> <<gen + 1>>, len |-> l]
  /\ ta' = [k \in Steps |-> IF k = Step THEN data' ELSE IF k \in Adapted THEN NoData ELSE ta[k]]
  /\ pc' = "save" /\ UNCHANGED todo
  /\ UNCHANGED <<configVars, sessions, flag, disk, spoilt>>

\* It adapts to what it saw, with the bases it holds.
TaAdapts ==
  /\ IsAt("ta") /\ Step \in Adapted
  /\ \E l \in Lens[Step]: Answer([of |-> TaBases, len |-> l], TRUE)
  /\ UNCHANGED <<configVars, sessions, flag, gen, disk, spoilt>>

\* It has nothing new after a finger (result 0), and hands back what it holds.
TaRepeats ==
  /\ IsAt("ta") /\ Step \in Adapted /\ flag = "none" /\ ta[Step] # NoData
  /\ pc' = "save" /\ data' = ta[Step]
  /\ todo' = [todo EXCEPT !.steps = <<Step>>]
  /\ UNCHANGED <<configVars, sessions, flag, gen, ta, disk, spoilt>>

\* Fault: the file is written in place.
SaveFile_InPlace ==
  \/ disk' = [disk EXCEPT ![Step] = data]
  \/ disk' = [disk EXCEPT ![Step] = NoData]

\* silfp_storage_save_config: a new file takes the place of the old one, or none does.
SaveFile ==
  \/ disk' = [disk EXCEPT ![Step] = data]
  \/ UNCHANGED disk

\* Fault: the files of 4 and 5 go with the last base only.
SaveEnd_Last == IF Step = 3 THEN pc' = "remove4" /\ UNCHANGED todo ELSE Done(TRUE)

SaveEnd == IF Step \in Bases THEN pc' = "remove4" /\ UNCHANGED todo ELSE Done(TRUE)

\* Its result is ignored.
Save ==
  /\ IsAt("save")
  /\ SaveFile
  /\ spoilt' = (spoilt \/ (Step \in Adapted /\ disk'[Step].of # Stored /\ TaBases # Stored))
  /\ SaveEnd
  /\ UNCHANGED <<configVars, sessions, flag, data, gen, ta>>

\* silfp_storage_remove_file, whose result is ignored.
RemoveFile(k) ==
  \/ disk' = [disk EXCEPT ![k] = NoData] /\ spoilt' = (spoilt /\ (k = 4 \/ disk[4] # NoData))
  \/ UNCHANGED disk /\ spoilt' = (spoilt \/ disk[k] # NoData)

Remove4 ==
  /\ IsAt("remove4")
  /\ RemoveFile(4)
  /\ pc' = "remove5"
  /\ UNCHANGED <<configVars, sessions, todo, flag, data, gen, ta>>

Remove5 ==
  /\ IsAt("remove5")
  /\ RemoveFile(5)
  /\ Done(TRUE)
  /\ UNCHANGED <<configVars, sessions, flag, data, gen, ta>>

\* The end of the process, or of the session.
End ==
  /\ pc # "closed"
  /\ pc' = "closed" /\ todo' = [steps |-> <<>>, init |-> FALSE]
  /\ ta' = [k \in Steps |-> NoData] /\ data' = NoData /\ flag' = "none"
  /\ spoilt' = (spoilt \/ pc \in {"remove4", "remove5"})
  /\ UNCHANGED <<configVars, sessions, gen, disk>>

Init ==
  /\ ConfigInit
  /\ pc = "closed" /\ sessions = 0 /\ todo = [steps |-> <<>>, init |-> FALSE]
  /\ flag = "none" /\ data = NoData /\ gen = 0
  /\ ta = [k \in Steps |-> NoData] /\ disk = [k \in Steps |-> NoData]
  /\ spoilt = FALSE

Next ==
  \/ Open \/ Measure \/ Adapt \/ Load \/ TaKeeps \/ TaMeasures \/ TaAdapts \/ TaRepeats
  \/ Save \/ Remove4 \/ Remove5 \/ End

Spec == Init /\ [][Next]_vars
-----------------------------------------------------------------------------
\* What a base and an adaptation may be: a base has the number of its
\* measurement, an adaptation the bases it was made with.
Made    == {<<>>} \cup {<<g>> : g \in 1..MaxGen}
Kept(k) == [of  : IF k \in Bases THEN Made ELSE {<<>>} \cup [Bases -> Made],
            len : {"none", "short", "long", "edge"}]

\* Every variable of the calibration keeps its type.
TypeOK ==
  /\ pc \in {"closed", "rest", "begin", "ta", "save", "remove4", "remove5"}
  /\ sessions \in 0..MaxSessions /\ gen \in 0..MaxGen
  /\ todo \in [steps : Seq(Steps), init : BOOLEAN]
  /\ flag \in {"none", "valid", "invalid"}
  /\ data \in Kept(1) \cup Kept(4)
  /\ DOMAIN ta = Steps /\ DOMAIN disk = Steps
  /\ \A k \in Steps: ta[k] \in Kept(k) /\ disk[k] \in Kept(k)
  /\ spoilt \in BOOLEAN

(***************************************************************************)
(* Properties                                                              *)
(***************************************************************************)
\* An adaptation on disk was made with the bases that are on disk: no session
\* starts with an adaptation that belongs to other bases, unless a removal
\* failed or was cut short, or the TA adapted with a base that is not on disk
\* (silead_impl.c:1660-1666, whose results are all ignored).
AdaptationFits ==
  pc \notin {"remove4", "remove5"} =>
    \A k \in Adapted: disk[k] # NoData /\ ~spoilt => disk[k].of = Stored

\* A base once saved may be replaced but is never lost, whatever fails and
\* wherever the process ends (silead_storage.c:333-384).
BaseKept == [][\A b \in Bases: disk[b] # NoData => disk'[b] # NoData]_vars
=============================================================================
