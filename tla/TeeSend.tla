------------------------------ MODULE TeeSend ------------------------------
(***************************************************************************)
(* Commands to the trusted application: the wrappers of silead_fp.c, the   *)
(* counter of errors in silead_ca_entry.c and the four ways to send a      *)
(* command (qsee, tee, gp, nosec), while a session is up.                  *)
(*                                                                         *)
(* The worker, and the thread that calls the HAL, send at the same time.   *)
(* A HAL call sends with or without m_lock, the lock that changing the     *)
(* state of the worker takes as well.  qsee and tee put every command into *)
(* one buffer they share with the TA, so the answer in it is the last one. *)
(*                                                                         *)
(* "normal" commands carry four numbers, "modified" ones a buffer of the   *)
(* caller and a mode: 0 send, 1 get, 2 send and get, 3 always get, 4 send  *)
(* and always get.  What the numbers and bytes are is left out: a caller's *)
(* data is its input, zeroes, or the TA's answer.                          *)
(***************************************************************************)
EXTENDS Naturals

CONSTANTS
  Threads,   \* the threads that send; the worker and the caller of the HAL
  Caller,    \* the one of them that can hold m_lock
  Backends,  \* the backends built in, of which one is in use
  Used,      \* the commands the threads send
  ErrLimit   \* errors in a row at which the worker is stopped (10)

ASSUME SendOK ==
  /\ Caller \in Threads /\ "none" \notin Threads
  /\ ErrLimit \in Nat \ {0}
  /\ Backends \subseteq {"qsee", "tee", "gp", "nosec"}

Normal == 5   \* the "mode" of a command without a buffer
-----------------------------------------------------------------------------
(***************************************************************************)
(* The wrappers: how each command is sent                                  *)
(***************************************************************************)
\* The sensor, authenticate, enroll and navigation commands.
OperationMode ==
  [c \in {"wait_finger_status", "capture_image", "nav_capture_image", "auth_start",
          "auth_step", "auth_end", "enroll_start", "enroll_step", "enroll_end",
          "nav_support", "nav_start", "nav_step", "nav_end", "download_normal"} |-> Normal]

\* Set-up and the commands about templates and tokens.
SetupMode ==
  [c \in {"init", "deinit", "set_gid", "remove_finger", "get_db_count", "load_enroll_challenge",
          "set_enroll_challenge", "load_auth_id", "set_spi_dev", "load_user_db",
          "verify_enroll_challenge", "update_cfg", "get_finger_prints", "get_hw_auth_obj"} |->
     CASE c \in {"set_spi_dev", "load_user_db", "verify_enroll_challenge", "update_cfg"} -> 0
       [] c = "get_finger_prints" -> 1
       [] c = "get_hw_auth_obj" -> 2
       [] OTHER -> Normal]

TemplateMode ==
  [c \in {"init2", "set_key_data", "load_template", "save_template", "update_template",
          "get_config", "set_log_mode", "set_nav_type", "get_finger_status", "get_enroll_num"} |->
     CASE c \in {"init2", "set_key_data", "load_template"} -> 0
       [] c \in {"save_template", "update_template", "get_config"} -> 1
       [] OTHER -> Normal]

CalibrateMode ==
  [c \in {"calibrate2", "ci_chk_finger", "ci_adj_gain", "ci_shot", "chk_esd", "get_otp",
          "get_version", "get_chip_id", "calibrate", "alg_set_param", "calibrate_optic"} |->
     CASE c = "calibrate" -> 0
       [] c \in {"alg_set_param", "calibrate_optic"} -> 2
       [] OTHER -> Normal]

TestMode ==
  [c \in {"test_get_image_info", "test_image_finish", "test_deadpx", "test_dump_data",
          "test_speed", "test_send_group_image", "test_image_capture", "test_cmd"} |->
     CASE c \in {"test_dump_data", "test_speed"} -> 1
       [] c = "test_send_group_image" -> 2
       [] c = "test_image_capture" -> 3
       [] c = "test_cmd" -> 4
       [] OTHER -> Normal]

Modes == {OperationMode, SetupMode, TemplateMode, CalibrateMode, TestMode}
Mode == [c \in UNION {DOMAIN m : m \in Modes} |-> (CHOOSE m \in Modes : c \in DOMAIN m)[c]]

\* The commands whose buffer the caller has filled for the TA.
WithInput ==
  {c \in DOMAIN Mode : Mode[c] = 0}
  \cup {"get_hw_auth_obj", "alg_set_param", "calibrate_optic", "test_send_group_image",
        "test_cmd"}
-----------------------------------------------------------------------------
VARIABLES
  backend,  \* the backend of the session
  call,     \* what each thread's command has come to
  buf,      \* per buffer: whose request is in it, and whose answer ("old": an earlier one)
  tzLock,   \* holder of m_tz_lock (tz_lock)
  mLock,    \* holder of m_lock
  errs,     \* m_ta_send_error_times, up to ErrLimit
  broken,   \* STATE_BREAK has been set
  failed    \* failed commands so far, up to ErrLimit

vars == <<backend, call, buf, tzLock, mLock, errs, broken, failed>>

None == "none"
Idle == [pc |-> "idle", cmd |-> None, locked |-> FALSE, sent |-> None, data |-> None,
         ret |-> None, out |-> None, seen |-> 0]

Shared   == backend \in {"qsee", "tee"}
Slot(t)  == IF Shared THEN "shared" ELSE t
Slots    == Threads \cup {"shared"}
Failures == {"open_failed", "send_failed"}
UpTo(n)  == IF n < ErrLimit THEN n + 1 ELSE ErrLimit

Kind(t)  == Mode[call[t].cmd]
IsMod(t) == Kind(t) # Normal

Go(t, pc) == call' = [call EXCEPT ![t] = [@ EXCEPT !.pc = pc]]
Fail(t, pc, ret) == call' = [call EXCEPT ![t] = [@ EXCEPT !.pc = pc, !.ret = ret]]
-----------------------------------------------------------------------------
(***************************************************************************)
(* Sending                                                                 *)
(***************************************************************************)
\* A thread calls a wrapper.  A HAL call that removes, lists or changes the
\* group does so under m_lock.
Call(t, cmd) ==
  /\ call[t].pc = "idle"
  /\ \E locked \in IF t = Caller THEN BOOLEAN ELSE {FALSE} :
       /\ locked => mLock = None
       /\ mLock' = IF locked THEN t ELSE mLock
       /\ call' = [call EXCEPT ![t] =
            [Idle EXCEPT !.pc = IF Mode[cmd] = Normal THEN "lock" ELSE "map", !.cmd = cmd,
                         !.locked = locked,
                         !.data = IF Mode[cmd] = Normal THEN None ELSE "input"]]
  /\ UNCHANGED <<backend, buf, tzLock, errs, broken, failed>>

\* Fault: the input of mode 4 is not handed over.
Handed_Two(t) == IF Kind(t) \in {0, 2} THEN "input" ELSE "zero"

\* What qsee puts into the memory it shares for the command, which is not the
\* caller's: tee and nosec give the TA the caller's own buffer, gp a copy of it.
Handed(t) == IF Kind(t) \in {0, 2, 4} THEN "input" ELSE "zero"

\* What the others leave in the caller's buffer: mode 4 is not one of theirs.
Cleared(t) == IF Kind(t) \in {0, 2} THEN "input" ELSE "zero"

\* The checks and the memory before the lock.  SET_KEY_DATA has no data where
\* the keymaster has none, which only nosec sends.
Map(t) ==
  /\ call[t].pc = "map"
  /\ \/ /\ backend = "qsee"
        /\ call' = [call EXCEPT ![t] = [@ EXCEPT !.pc = "lock", !.sent = Handed(t)]]
     \/ /\ backend # "qsee"
        /\ call' = [call EXCEPT ![t] =
             [@ EXCEPT !.pc = "lock", !.sent = Cleared(t), !.data = Cleared(t)]]
     \/ backend \in {"qsee", "tee"} /\ Fail(t, "count", "alloc_failed")
     \/ backend # "nosec" /\ call[t].cmd = "set_key_data" /\ Fail(t, "count", "bad_params")
  /\ UNCHANGED <<backend, buf, tzLock, mLock, errs, broken, failed>>

\* Fault: the request is written without waiting for the lock.
Lock_Never(t) ==
  /\ call[t].pc = "lock"
  /\ Go(t, "send")
  /\ buf' = [buf EXCEPT ![Slot(t)] = [req |-> t, rsp |-> "old"]]
  /\ UNCHANGED <<backend, tzLock, mLock, errs, broken, failed>>

\* mutex_lock, then the request is written.
Lock(t) ==
  /\ call[t].pc = "lock" /\ tzLock = None
  /\ tzLock' = t
  /\ Go(t, "send")
  /\ buf' = [buf EXCEPT ![Slot(t)] = [req |-> t, rsp |-> "old"]]
  /\ UNCHANGED <<backend, mLock, errs, broken, failed>>

\* The TA (external) works on the request it finds and answers, or the call
\* does not get through.  A wait of tee that fails (mcWaitNotification) is taken
\* for a TA that is done with the buffer: an answer that it writes later, into
\* the request of the next command, is not modelled.
Ta(t) ==
  /\ call[t].pc = "send"
  /\ \/ /\ buf' = [buf EXCEPT ![Slot(t)] = [@ EXCEPT !.rsp = buf[Slot(t)].req]]
        /\ \E ret \in {"ok", "ta_failed"} : Fail(t, "read", ret)
     \/ Fail(t, "read", "send_failed") /\ UNCHANGED buf
  /\ UNCHANGED <<backend, tzLock, mLock, errs, broken, failed>>

\* Whose answer is in the buffer when t reads it.
Found(t) == IF buf[Slot(t)].rsp = t THEN "own" ELSE "other"

Answered(t) == call[t].ret \in {"ok", "ta_failed"}

\* Normal commands hand out the numbers even of a failed command; modified ones
\* when the TA says so, or the mode is to always get, which tee, gp and nosec
\* know as 3 only.
Out(t) ==
  CASE ~ IsMod(t) -> Found(t)
    [] IsMod(t) /\ \/ call[t].ret = "ok"
                   \/ Answered(t) /\ Kind(t) \in IF backend = "qsee" THEN {3, 4} ELSE {3}
         -> Found(t)
    [] OTHER -> None

\* The data the caller ends with: qsee copies it back, gp is given it back when
\* the command got through, tee and nosec let the TA write into it.
Data(t) ==
  LET got == IF Found(t) = "own" THEN "answer" ELSE "other" IN
  CASE ~ IsMod(t) -> None
    [] backend = "qsee" ->
         IF Answered(t) /\ (Kind(t) \in {3, 4} \/ (Kind(t) # 0 /\ call[t].ret = "ok"))
           THEN got ELSE call[t].data
    [] OTHER -> IF Answered(t) /\ Kind(t) # 0 THEN got ELSE call[t].data

\* Fault: trouble of the secure side is returned without giving up the lock.
Read_Keeps(t) ==
  /\ call[t].pc = "read"
  /\ \/ /\ call' = [call EXCEPT ![t] =
             [@ EXCEPT !.pc = "count", !.out = Out(t), !.data = Data(t)]]
        /\ tzLock' = IF tzLock = t THEN None ELSE tzLock
     \/ /\ backend = "qsee" /\ IsMod(t) /\ Answered(t)
        /\ Fail(t, "count", "op_failed") /\ UNCHANGED tzLock
  /\ UNCHANGED <<backend, buf, mLock, errs, broken, failed>>

\* The results are taken, then the lock is given up; qsee reports trouble of the
\* secure side with a modified command in a field of the request.
Read(t) ==
  /\ call[t].pc = "read"
  /\ \/ call' = [call EXCEPT ![t] =
             [@ EXCEPT !.pc = "count", !.out = Out(t), !.data = Data(t)]]
     \/ /\ backend = "qsee" /\ IsMod(t) /\ Answered(t)
        /\ Fail(t, "count", "op_failed")
  /\ tzLock' = IF tzLock = t THEN None ELSE tzLock
  /\ UNCHANGED <<backend, buf, mLock, errs, broken, failed>>
-----------------------------------------------------------------------------
(***************************************************************************)
(* Counting errors: _ca_check_send_result, without a lock                  *)
(***************************************************************************)
\* The counter is read by a command that failed; any other result, be it a
\* refusal of the TA or no memory, resets it.  The command's results are not
\* touched again.
Count(t) ==
  /\ call[t].pc = "count"
  /\ \/ /\ call[t].ret \in Failures
        /\ call' = [call EXCEPT ![t] =
             [Idle EXCEPT !.pc = "store", !.locked = call[t].locked, !.seen = errs]]
        /\ failed' = UpTo(failed)
        /\ UNCHANGED errs
     \/ /\ call[t].ret \notin Failures
        /\ call' = [call EXCEPT ![t] =
             [Idle EXCEPT !.pc = "check", !.locked = call[t].locked]]
        /\ errs' = 0
        /\ UNCHANGED failed
  /\ UNCHANGED <<backend, buf, tzLock, mLock, broken>>

Store(t) ==
  /\ call[t].pc = "store"
  /\ errs' = UpTo(call[t].seen)
  /\ call' = [call EXCEPT ![t] = [@ EXCEPT !.pc = "check", !.seen = 0]]
  /\ UNCHANGED <<backend, buf, tzLock, mLock, broken, failed>>

\* Fault: the worker is stopped one error early.
Check_Early(t) ==
  /\ call[t].pc = "check"
  /\ Go(t, IF errs >= ErrLimit - 1 THEN "break" ELSE "done")
  /\ UNCHANGED <<backend, buf, tzLock, mLock, errs, broken, failed>>

Check(t) ==
  /\ call[t].pc = "check"
  /\ Go(t, IF errs >= ErrLimit THEN "break" ELSE "done")
  /\ UNCHANGED <<backend, buf, tzLock, mLock, errs, broken, failed>>

\* silfp_finger_set_work_state(STATE_BREAK) takes and gives up m_lock, which is
\* not recursive.
Break(t) ==
  /\ call[t].pc = "break" /\ mLock = None
  /\ broken' = TRUE
  /\ Go(t, "done")
  /\ UNCHANGED <<backend, buf, tzLock, mLock, errs, failed>>

Return(t) ==
  /\ call[t].pc = "done"
  /\ call' = [call EXCEPT ![t] = Idle]
  /\ mLock' = IF call[t].locked THEN None ELSE mLock
  /\ UNCHANGED <<backend, buf, tzLock, errs, broken, failed>>
-----------------------------------------------------------------------------
Init ==
  /\ backend \in Backends
  /\ call = [t \in Threads |-> Idle]
  /\ buf = [s \in Slots |-> [req |-> None, rsp |-> None]]
  /\ tzLock = None /\ mLock = None
  /\ errs = 0 /\ failed = 0 /\ broken = FALSE

Step(t) ==
  Map(t) \/ Lock(t) \/ Ta(t) \/ Read(t) \/ Count(t) \/ Store(t) \/ Check(t) \/ Break(t)
  \/ Return(t)

Next == \E t \in Threads : Step(t) \/ \E cmd \in Used : Call(t, cmd)

\* Locks are given to whoever waits long enough, and the TA answers or fails.
Spec == Init /\ [][Next]_vars /\ \A t \in Threads : SF_vars(Step(t))
-----------------------------------------------------------------------------
(***************************************************************************)
(* Properties                                                              *)
(***************************************************************************)
\* Types of the state: positions, whose answer a buffer holds, and the counter.
TypeOK ==
  /\ backend \in Backends
  /\ call \in [Threads ->
       [pc : {"idle", "map", "lock", "send", "read", "count", "store", "check", "break", "done"},
        cmd : Used \cup {None}, locked : BOOLEAN, sent : {None, "input", "zero"},
        data : {None, "input", "zero", "answer", "other"},
        ret : Failures \cup {None, "ok", "ta_failed", "alloc_failed", "bad_params", "op_failed"},
        out : {None, "own", "other"}, seen : 0 .. ErrLimit]]
  /\ buf \in [Slots -> [req : Threads \cup {None}, rsp : Threads \cup {None, "old"}]]
  /\ tzLock \in Threads \cup {None} /\ mLock \in {Caller, None}
  /\ errs \in 0 .. ErrLimit /\ failed \in 0 .. ErrLimit /\ broken \in BOOLEAN

\* A command that succeeds returns the numbers and the data the TA gave for it,
\* and no buffer ever ends with the data of somebody else's command; only the
\* numbers of a failed normal command may be an earlier answer's.
AnswerIsOwn ==
  \A t \in Threads : call[t].pc = "count" =>
    /\ call[t].ret = "ok" => call[t].out = "own"
    /\ call[t].data # "other"
    /\ call[t].out = "other" => ~ IsMod(t) /\ call[t].ret = "send_failed"

\* What a caller has prepared for the TA is what the TA is given, and after a
\* command that did not get through the caller still has it.  The exception is
\* mode 4 outside qsee, where test_cmd sends zeroes.
InputReaches ==
  \A t \in Threads : call[t].cmd \in WithInput /\ ~ (Kind(t) = 4 /\ backend # "qsee") =>
    /\ call[t].sent \in {None, "input"}
    /\ call[t].ret \in {"send_failed", "alloc_failed", "bad_params"} => call[t].data = "input"

\* Whatever increments and resets are lost between the threads, the worker is
\* not stopped before ErrLimit commands have failed.
BreakNeedsErrors == broken => failed = ErrLimit

\* The caller holds m_lock when its command is the last of ErrLimit errors:
\* setting STATE_BREAK waits for the lock it holds.
SelfBlocked == call[Caller].pc = "break" /\ call[Caller].locked

\* A command ends, whoever else sends, unless the caller has blocked itself
\* (silead_ca_entry.c:47), and with it everybody who gets that far.
CallsEnd == \A t \in Threads : call[t].pc # "idle" ~> call[t].pc = "idle" \/ SelfBlocked
=============================================================================
