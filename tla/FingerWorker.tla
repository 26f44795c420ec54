---------------------------- MODULE FingerWorker ----------------------------
(***************************************************************************)
(* The worker thread of silead_finger.c and the client calls that steer it.*)
(*                                                                         *)
(* One worker (_finger_commandloop) serves the request that the variable   *)
(* m_worker_state names.  A client call replaces the request at any time   *)
(* (silfp_finger_set_work_state): under m_lock it raises m_work_cancel,    *)
(* writes "c" into the message pipe, stores the state and signals.  The    *)
(* worker polls m_work_cancel without the lock, blocks on the pipe while   *)
(* it waits for a finger and on m_worker_cond while it has nothing to do.  *)
(*                                                                         *)
(* A section between lock and unlock is one step; every access made        *)
(* without the lock is a step of its own.  The build is the one of         *)
(* fingerprint/Android.mk (SL_FP_FEATURE_OPPO_CUSTOMIZE and _OPTIC).       *)
(***************************************************************************)
EXTENDS Naturals, Sequences

CONSTANTS
  Callers,      \* threads that call into the HAL (binder, command hub)
  Ops,          \* the calls those threads make, a subset of AllOps
  MaxCalls,     \* bound on the number of calls
  PipeCap,      \* capacity of the message pipe (64 KiB in the kernel)
  WaitRetries,  \* ESD / invalid interrupt retries of one wait (8)
  EnrollTimes,  \* samples of one enrolment (silfp_get_enroll_total_times)
  NavTypes,     \* navigation support the TA may report
  FingerLoop,   \* sensor polling: "off", "fixed", or "learning" (the TA may end it)
  NeedIrqPwdn   \* m_need_irq_pwdn: the chip is powered down while it waits

AllOps == {"enroll", "authenticate", "cancel", "lock", "test", "ext_cb",
           "pause", "continue", "screen", "ready", "deinit", "ta_break"}

ASSUME ConstantsOK ==
  /\ Ops \subseteq AllOps
  /\ MaxCalls \in Nat
  /\ PipeCap \in Nat \ {0}
  /\ WaitRetries \in Nat \ {0}
  /\ EnrollTimes \in Nat \ {0}
  /\ NavTypes \subseteq {"NONE", "LITE", "NORMAL", "MAX"}
  /\ FingerLoop \in {"off", "fixed", "learning"}
  /\ NeedIrqPwdn \in BOOLEAN

VARIABLES
  workerState,  \* m_worker_state
  workCancel,   \* m_work_cancel
  enrollPause,  \* m_enroll_pause
  fingerReady,  \* m_finger_ready
  screenOn,     \* m_screen_status
  fingerDown,   \* m_finger_down
  fingerLoop,   \* m_need_finger_loop
  msgPipe,      \* bytes in the message pipe: "c" cancel, "i" finger event
  signaled,     \* m_worker_cond was signalled since the worker began to wait
  pc,           \* the worker's position
  cmd,          \* the command the worker runs, or "NONE"
  ret,          \* the worker's local result code
  wait,         \* locals of _fp_wait_finger_status and where it returns to
  left,         \* samples the TA still needs
  matchedOp,    \* operation id the last auth_step was given
  navType,      \* m_nav_type
  callerPc,     \* position of each client thread
  calls,        \* number of calls made
  opId,         \* m_auth_op_id
  authCalls,    \* authenticate requests made
  enrollCalls,  \* enroll requests made
  wins,         \* authenticated notices with a finger sent
  announced,    \* enrol notices (fid, 0) sent
  lastAuth      \* challenge and matched operation of the last such notice

flags   == <<enrollPause, fingerReady, screenOn, fingerDown>>
request == <<workerState, workCancel>>
shared  == <<request, flags, fingerLoop, msgPipe, signaled>>
locals  == <<cmd, ret, wait, left, matchedOp>>
worker  == <<pc, locals>>
client  == <<callerPc, calls, opId, authCalls, enrollCalls, navType>>
history == <<wins, announced, lastAuth>>
vars    == <<shared, worker, client, history>>

States   == {"IDLE", "ENROLL", "SCAN", "NAV", "EXIT", "TEST", "WAIT",
             "EXT_CB", "LOCK", "BREAK"}
Commands == {"ENROLL", "SCAN", "NAV", "TEST", "EXT_CB", "LOCK"}
Results  == {"ok", "err", "canceled", "mismatch", "mistouch"}

NavSupport == navType # "NONE"
NavForce   == navType = "MAX"
-----------------------------------------------------------------------------
(***************************************************************************)
(* Primitives                                                              *)
(***************************************************************************)
\* A write to the non-blocking pipe: dropped when the pipe is full.
Send(m) == IF Len(msgPipe) < PipeCap THEN Append(msgPipe, m) ELSE msgPipe

\* pthread_cond_signal: lost unless the worker is waiting.
Signal == signaled' = (signaled \/ pc \in {"parked", "paused"})

\* Faults: the flag is not raised; the worker is not signalled.
SetWorkState_NoCancel(s) ==
  /\ fingerReady' = FALSE /\ msgPipe' = Send("c")
  /\ workerState' = IF workerState \in {"EXIT", "BREAK"} THEN workerState ELSE s
  /\ Signal
  /\ UNCHANGED <<workCancel, enrollPause, screenOn, fingerDown, fingerLoop>>

SetWorkState_NoSignal(s) ==
  /\ workCancel' = TRUE /\ fingerReady' = FALSE /\ msgPipe' = Send("c")
  /\ workerState' = IF workerState \in {"EXIT", "BREAK"} THEN workerState ELSE s
  /\ UNCHANGED <<enrollPause, screenOn, fingerDown, fingerLoop, signaled>>

\* silfp_finger_set_work_state, its section under m_lock.
SetWorkState(s) ==
  /\ workCancel' = TRUE
  /\ fingerReady' = FALSE
  /\ msgPipe' = Send("c")
  /\ workerState' = IF workerState \in {"EXIT", "BREAK"} THEN workerState ELSE s
  /\ Signal
  /\ UNCHANGED <<enrollPause, screenOn, fingerDown, fingerLoop>>

\* silfp_finger_set_work_state_no_signal, called by the worker only.
SetNoSignal(s) ==
  /\ workerState' = s
  /\ UNCHANGED <<workCancel, flags, fingerLoop, msgPipe, signaled>>

Goto(p) == pc' = p

\* The locals of a wait that is over.
NoWait == [for |-> "down", uncancelable |-> FALSE, keep |-> FALSE,
           next |-> "finish", retry |-> 0, out |-> "err"]

\* Return from a command to the end of the command loop.
Finish == pc' = "tail" /\ cmd' = "NONE"

\* Call _fp_wait_finger_status(for); keep says that the result is discarded.
\* With fingerLoop, sl_fp_get_finger_down/up poll the sensor instead.
EnterWait(p, for, uncancelable, keep, next) ==
  /\ pc' = p
  /\ wait' = [for |-> for, uncancelable |-> uncancelable, keep |-> keep,
              next |-> next, retry |-> WaitRetries, out |-> "err"]
WaitFinger(for, keep, next) == EnterWait("wait", for, FALSE, keep, next)
GetFinger(for, keep, next) ==
  EnterWait(IF fingerLoop THEN "poll" ELSE "wait", for, FALSE, keep, next)
-----------------------------------------------------------------------------
(***************************************************************************)
(* The command loop                                                        *)
(***************************************************************************)
\* Nothing to do in this state: the condition under which the loop waits.
Parkable == \/ workerState \in {"WAIT", "BREAK"}
            \/ /\ workerState = "IDLE"
               /\ ~NavSupport \/ ~screenOn
               /\ ~NavForce

\* while (silfp_finger_get_work_state() != STATE_EXIT)
LoopTest ==
  /\ pc = "loop"
  /\ Goto(IF workerState = "EXIT" THEN "exited" ELSE "gate")
  /\ UNCHANGED <<shared, locals, client, history>>

Gate ==
  /\ pc = "gate"
  /\ IF Parkable
     THEN Goto("parked") /\ signaled' = FALSE /\ UNCHANGED workCancel
     ELSE Goto("dispatch") /\ workCancel' = FALSE /\ UNCHANGED signaled
  /\ UNCHANGED <<workerState, flags, fingerLoop, msgPipe, locals, client, history>>

\* pthread_cond_wait returns (also spuriously) and the section goes on.
Wake ==
  /\ pc = "parked"
  /\ Goto("dispatch")
  /\ workCancel' = FALSE
  /\ signaled' = FALSE
  /\ UNCHANGED <<workerState, flags, fingerLoop, msgPipe, locals, client, history>>

Entry == [c \in Commands |->
            CASE c = "ENROLL" -> "e_begin" [] c = "SCAN" -> "a_begin"
              [] c = "NAV" -> "n_begin"    [] c = "TEST" -> "t_begin"
              [] c = "EXT_CB" -> "x_begin" [] c = "LOCK" -> "l_begin"]

Dispatch ==
  /\ pc = "dispatch"
  /\ IF workerState \in Commands
     THEN cmd' = workerState /\ Goto(Entry[workerState])
     ELSE Finish
  \* the locals of the command start afresh
  /\ ret' = "ok" /\ left' = 0 /\ matchedOp' = 0
  /\ UNCHANGED <<shared, wait, client, history>>

LoopEnd ==
  /\ pc = "tail"
  /\ Goto("loop")
  /\ workerState' = IF /\ ~workCancel
                       /\ NavSupport /\ (screenOn \/ NavForce)
                       /\ workerState = "IDLE"
                    THEN "NAV" ELSE workerState
  /\ UNCHANGED <<workCancel, flags, fingerLoop, msgPipe, signaled, locals, client, history>>

Loop == LoopTest \/ Gate \/ Wake \/ Dispatch \/ LoopEnd
-----------------------------------------------------------------------------
(***************************************************************************)
(* Waiting for a finger: _fp_wait_finger_status and, with fingerLoop, the  *)
(* polling loops of sl_fp_get_finger_down and sl_fp_get_finger_up          *)
(***************************************************************************)
\* Return r to the caller of the wait.
WaitReturn(r) ==
  /\ Goto(wait.next)
  /\ ret' = IF wait.keep THEN ret ELSE r
  /\ wait' = NoWait

FingerMatches == (wait.for = "down" /\ fingerDown) \/ (wait.for = "up" /\ ~fingerDown)

\* Download the configuration and let the TA arm the interrupt; its errors
\* return.  An invalid interrupt resets the chip and returns too: the continue
\* of that branch ends in the loop condition, which only an upset satisfies.
\* With m_need_irq_pwdn the chip sleeps instead and no try is counted.
WaitArm ==
  /\ pc = "wait"
  /\ \/ NeedIrqPwdn /\ Goto("wait_check") /\ UNCHANGED <<ret, wait>>
     \/ /\ ~NeedIrqPwdn
        /\ wait' = [wait EXCEPT !.retry = @ - 1]
        /\ Goto("wait_check")
        /\ UNCHANGED ret
     \/ ~NeedIrqPwdn /\ WaitReturn("err")
  /\ UNCHANGED <<shared, cmd, left, matchedOp, client, history>>

\* The cancel flag and the finger state are read before the pipe is drained.
WaitCheck ==
  /\ pc = "wait_check"
  /\ \/ /\ workCancel /\ ~wait.uncancelable
        /\ WaitReturn("canceled")
     \/ /\ ~workCancel \/ wait.uncancelable
        /\ Goto(IF FingerMatches THEN "wait_esd" ELSE "wait_clean")
        /\ UNCHANGED <<ret, wait>>
  /\ UNCHANGED <<shared, cmd, left, matchedOp, client, history>>

\* silfp_msg_clean
WaitClean ==
  /\ pc = "wait_clean"
  /\ msgPipe' = <<>>
  /\ Goto("wait_recv")
  /\ UNCHANGED <<request, flags, fingerLoop, signaled, locals, client, history>>

\* silfp_msg_recv: block in poll, read one byte; "c" is skipped by an
\* uncancelable wait.
WaitRecv ==
  /\ pc = "wait_recv"
  /\ msgPipe # <<>>
  /\ msgPipe' = Tail(msgPipe)
  /\ \/ Head(msgPipe) = "c" /\ ~wait.uncancelable /\ WaitReturn("canceled")
     \/ Head(msgPipe) = "c" /\ wait.uncancelable /\ Goto("wait_recv") /\ UNCHANGED <<ret, wait>>
     \/ Head(msgPipe) = "i" /\ Goto("wait_esd") /\ UNCHANGED <<ret, wait>>
  /\ UNCHANGED <<request, flags, fingerLoop, signaled, cmd, left, matchedOp, client, history>>

\* Re-initialise the chip or check for an electrostatic upset, whose result
\* replaces the one of the wait; an upset resets the chip and waits again.
WaitEsd ==
  /\ pc = "wait_esd"
  /\ \/ \E r \in {"ok", "err"} : WaitReturn(r)
     \/ wait.retry > 0 /\ Goto("wait") /\ UNCHANGED <<ret, wait>>
  /\ UNCHANGED <<shared, cmd, left, matchedOp, client, history>>

\* One turn of the polling loop; the TA says what the sensor sees and may end
\* the polling for good ("update finish").  Left by a cancel, the loop returns
\* what its last turn left in ret: "err" (-1) before the first one.
Poll ==
  /\ pc = "poll"
  /\ \/ /\ workCancel /\ ~wait.uncancelable
        /\ WaitReturn(wait.out)
        /\ UNCHANGED fingerLoop
     \/ /\ ~workCancel \/ wait.uncancelable
        /\ fingerLoop' \in (IF FingerLoop = "learning" THEN {fingerLoop, FALSE} ELSE {fingerLoop})
        /\ \/ WaitReturn("ok")
           \/ ~wait.uncancelable /\ WaitReturn("err") /\ UNCHANGED fingerLoop
           \/ /\ wait' = [wait EXCEPT !.out = "canceled"]
              /\ Goto("poll") /\ UNCHANGED ret
  /\ UNCHANGED <<request, flags, msgPipe, signaled, cmd, left, matchedOp, client, history>>

Waiting == WaitArm \/ WaitCheck \/ WaitClean \/ WaitRecv \/ WaitEsd \/ Poll

\* silfp_wait_for_finger_ready: bounded polling of m_finger_ready; running out
\* of tries counts as ready.
FingerReadyWait(next) ==
  /\ fingerReady' = FALSE
  /\ ret' = IF workCancel THEN "canceled" ELSE "ok"
  /\ Goto(next)
  /\ UNCHANGED <<request, enrollPause, screenOn, fingerDown, fingerLoop, msgPipe,
                 signaled, cmd, wait, left, matchedOp, client, history>>
-----------------------------------------------------------------------------
(***************************************************************************)
(* _finger_enroll_command                                                  *)
(***************************************************************************)
\* A step of a command that changes nothing but the worker's position.
Local == UNCHANGED <<shared, ret, wait, left, matchedOp, client, history>>

\* sl_fp_enroll_start, unless pre_enroll is too long ago.
EnrollBegin ==
  /\ pc = "e_begin"
  /\ \/ Goto("e_timeout") /\ UNCHANGED left
     \/ Goto("e_pause") /\ left' = EnrollTimes
     \/ Goto("e_end") /\ left' = EnrollTimes
  /\ UNCHANGED <<shared, cmd, ret, wait, matchedOp, client, history>>

\* The timeout notice, then silfp_finger_set_work_state(STATE_IDLE) by the
\* worker itself: its locked section and its _finger_enroll_pause(0).
EnrollTimeout ==
  /\ pc = "e_timeout"
  /\ SetWorkState("IDLE")
  /\ Goto("e_unpause")
  /\ UNCHANGED <<locals, client, history>>

EnrollTimeoutUnpause ==
  /\ pc = "e_unpause"
  /\ enrollPause' = FALSE
  /\ Finish
  /\ UNCHANGED <<request, fingerReady, screenOn, fingerDown, fingerLoop, msgPipe,
                 signaled, ret, wait, left, matchedOp, client, history>>

\* if (m_enroll_pause), read without the lock.
EnrollPauseTest ==
  /\ pc = "e_pause"
  /\ \/ enrollPause /\ Goto("e_pausing") /\ UNCHANGED wait
     \/ ~enrollPause /\ GetFinger("down", FALSE, "e_down")
  /\ UNCHANGED <<shared, cmd, ret, left, matchedOp, client, history>>

\* pthread_mutex_lock; pthread_cond_wait: no look at the flag in between.
EnrollPauseWait ==
  /\ pc = "e_pausing"
  /\ Goto("paused")
  /\ signaled' = FALSE
  /\ UNCHANGED <<request, flags, fingerLoop, msgPipe, locals, client, history>>

EnrollPauseWake ==
  /\ pc = "paused"
  /\ Goto("e_resumed")
  /\ signaled' = FALSE
  /\ UNCHANGED <<request, flags, fingerLoop, msgPipe, locals, client, history>>

EnrollResume ==
  /\ pc = "e_resumed"
  /\ \/ workCancel /\ Goto("e_end") /\ UNCHANGED wait
     \/ ~workCancel /\ GetFinger("down", FALSE, "e_down")
  /\ UNCHANGED <<shared, cmd, ret, left, matchedOp, client, history>>

\* Where an attempt goes on when the flag is not set, by its result so far.
EnrollAttempt(next) == Goto(IF enrollPause THEN "e_while"
                            ELSE IF ret = "ok" THEN next ELSE "e_failed")

EnrollDown  == pc = "e_down"  /\ EnrollAttempt("e_ready")   /\ Local /\ UNCHANGED cmd
EnrollReady == pc = "e_ready" /\ FingerReadyWait("e_ready_done")
EnrollReadyDone == pc = "e_ready_done" /\ EnrollAttempt("e_step") /\ Local /\ UNCHANGED cmd

\* Capture an image and hand it to the TA, which needs one sample less or
\* rejects it; with no sample left the loop ends.
EnrollStep ==
  /\ pc = "e_step"
  /\ \/ left > 0 /\ left' = left - 1 /\ Goto(IF left = 1 THEN "e_end" ELSE "e_up") /\ UNCHANGED ret
     \/ ret' = "err" /\ Goto("e_failed") /\ UNCHANGED left
  /\ UNCHANGED <<shared, cmd, wait, matchedOp, client, history>>

\* Notices to the client, unless the attempt was cancelled.
EnrollFailed ==
  /\ pc = "e_failed"
  /\ Goto(IF ret = "canceled" THEN "e_end" ELSE "e_up")
  /\ Local /\ UNCHANGED cmd

\* Wait for the finger to leave, whose result is discarded.
EnrollUp ==
  /\ pc = "e_up"
  /\ \/ workCancel /\ Goto("e_while") /\ UNCHANGED wait
     \/ ~workCancel /\ GetFinger("up", TRUE, "e_while")
  /\ UNCHANGED <<shared, cmd, ret, left, matchedOp, client, history>>

\* Fault: the loop does not look at m_work_cancel.
EnrollWhile_Deaf ==
  /\ pc = "e_while"
  /\ Goto("e_pause")
  /\ Local /\ UNCHANGED cmd

EnrollWhile ==
  /\ pc = "e_while"
  /\ Goto(IF workCancel THEN "e_end" ELSE "e_pause")
  /\ Local /\ UNCHANGED cmd

\* sl_fp_enroll_end: only a finished enrolment has a template.  It is saved,
\* then the TA is told; either may fail.
EnrollEnd ==
  /\ pc = "e_end"
  /\ \/ left = 0 /\ Goto("e_check") /\ UNCHANGED cmd
     \/ Finish
  /\ Local

EnrollCheck ==
  /\ pc = "e_check"
  /\ \/ workCancel /\ Finish
     \/ ~workCancel /\ Goto("e_notice") /\ UNCHANGED cmd
  /\ Local

\* _finger_send_enroll_notice(fid, 0)
EnrollNotice ==
  /\ pc = "e_notice"
  /\ announced' = announced + 1
  /\ Goto("e_idle")
  /\ UNCHANGED <<shared, locals, client, wins, lastAuth>>

EnrollIdle ==
  /\ pc = "e_idle"
  /\ SetNoSignal("IDLE")
  /\ GetFinger("up", TRUE, "finish")
  /\ UNCHANGED <<cmd, ret, left, matchedOp, client, history>>

Enroll == \/ EnrollBegin \/ EnrollTimeout \/ EnrollTimeoutUnpause \/ EnrollPauseTest
          \/ EnrollPauseWait \/ EnrollPauseWake \/ EnrollResume \/ EnrollDown
          \/ EnrollReady \/ EnrollReadyDone \/ EnrollStep \/ EnrollFailed \/ EnrollUp
          \/ EnrollWhile \/ EnrollEnd \/ EnrollCheck \/ EnrollNotice \/ EnrollIdle
-----------------------------------------------------------------------------
(***************************************************************************)
(* _finger_auth_command                                                    *)
(***************************************************************************)
AuthBegin ==
  /\ pc = "a_begin"
  /\ \/ WaitFinger("down", FALSE, "a_down") /\ UNCHANGED cmd
     \/ Finish /\ UNCHANGED wait
  /\ UNCHANGED <<shared, ret, left, matchedOp, client, history>>

AuthDown ==
  /\ pc = "a_down"
  /\ Goto(IF ret = "ok" THEN "a_ready" ELSE "a_result")
  /\ Local /\ UNCHANGED cmd

AuthReady == pc = "a_ready" /\ FingerReadyWait("a_step")

\* Up to three captures, each matched by the TA under m_auth_op_id.
AuthStep ==
  /\ pc = "a_step"
  /\ Goto("a_result")
  /\ \/ ret # "ok" /\ UNCHANGED <<ret, matchedOp>>
     \/ ret = "ok" /\ ret' \in {"ok", "mismatch", "mistouch", "err"} /\ matchedOp' = opId
  /\ UNCHANGED <<shared, cmd, wait, left, client, history>>

\* Mismatch, mis-touch and errors are reported and the loop goes on; a match
\* is reported only while m_work_cancel is clear.
AuthResult ==
  /\ pc = "a_result"
  /\ CASE ret = "canceled" -> Finish
       [] ret = "ok" /\ workCancel -> Finish
       [] ret = "ok" /\ ~workCancel -> Goto("a_notice") /\ UNCHANGED cmd
       [] OTHER -> Goto("a_up") /\ UNCHANGED cmd
  /\ Local

\* The token takes its challenge from m_auth_op_id when the notice is sent.
AuthNotice ==
  /\ pc = "a_notice"
  /\ wins' = wins + 1
  /\ lastAuth' = [challenge |-> opId, matched |-> matchedOp]
  /\ Goto("a_idle")
  /\ UNCHANGED <<shared, locals, client, announced>>

\* Fault: the answered authentication stays requested.
AuthIdle_Again ==
  /\ pc = "a_idle"
  /\ WaitFinger("up", TRUE, "finish")
  /\ UNCHANGED <<shared, cmd, ret, left, matchedOp, client, history>>

AuthIdle ==
  /\ pc = "a_idle"
  /\ SetNoSignal("IDLE")
  /\ WaitFinger("up", TRUE, "finish")
  /\ UNCHANGED <<cmd, ret, left, matchedOp, client, history>>

AuthUp ==
  /\ pc = "a_up"
  /\ \/ workCancel /\ Goto("a_while") /\ UNCHANGED wait
     \/ ~workCancel /\ WaitFinger("up", TRUE, "a_while")
  /\ UNCHANGED <<shared, cmd, ret, left, matchedOp, client, history>>

AuthWhile ==
  /\ pc = "a_while"
  /\ \/ workCancel /\ Finish /\ UNCHANGED wait
     \/ ~workCancel /\ WaitFinger("down", FALSE, "a_down") /\ UNCHANGED cmd
  /\ UNCHANGED <<shared, ret, left, matchedOp, client, history>>

Auth == \/ AuthBegin \/ AuthDown \/ AuthReady \/ AuthStep \/ AuthResult
        \/ AuthNotice \/ AuthIdle \/ AuthUp \/ AuthWhile
-----------------------------------------------------------------------------
(***************************************************************************)
(* The other commands, and the end of every command                        *)
(***************************************************************************)
\* _finger_lock_mode_commond: wait for touches until cancelled.
LockDownWait ==
  /\ pc = "l_begin"
  /\ WaitFinger("down", FALSE, "l_down")
  /\ UNCHANGED <<shared, cmd, ret, left, matchedOp, client, history>>

LockUpWait ==
  /\ pc = "l_down"
  /\ \/ /\ ret = "canceled" \/ workCancel
        /\ Goto("l_while") /\ UNCHANGED wait
     \/ /\ ret # "canceled" /\ ~workCancel
        /\ WaitFinger("up", TRUE, "l_while")
  /\ UNCHANGED <<shared, cmd, ret, left, matchedOp, client, history>>

LockWhile ==
  /\ pc = "l_while"
  /\ IF workCancel THEN Finish ELSE Goto("l_begin") /\ UNCHANGED cmd
  /\ Local

\* silfp_nav_command: nav_start and the wait for a touch.
NavBegin ==
  /\ pc = "n_begin"
  /\ \/ WaitFinger("nav", FALSE, "n_step") /\ UNCHANGED ret
     \/ Goto("n_end") /\ ret' = "err" /\ UNCHANGED wait
  /\ UNCHANGED <<shared, cmd, left, matchedOp, client, history>>

\* Capture and step until a key, an error or a cancel.  Only a lite device
\* that saw a click goes on to wait for its release.
NavStep ==
  /\ pc = "n_step"
  /\ \/ ret # "ok" /\ Goto("n_end") /\ UNCHANGED ret
     \/ ret = "ok" /\ \/ Goto("n_key") /\ navType # "LITE" /\ UNCHANGED ret
                      \/ Goto("n_lite") /\ navType = "LITE" /\ UNCHANGED ret
                      \/ Goto("n_end") /\ (ret' = "err" \/ (workCancel /\ UNCHANGED ret))
  /\ UNCHANGED <<shared, cmd, wait, left, matchedOp, client, history>>

\* _finger_send_key_for_lite, one turn: wait for release, ask the TA.
NavLite ==
  /\ pc = "n_lite"
  /\ \/ WaitFinger("up", FALSE, "n_lite_while") /\ UNCHANGED ret
     \/ Goto("n_end") /\ UNCHANGED <<ret, wait>>
  /\ UNCHANGED <<shared, cmd, left, matchedOp, client, history>>

NavLiteWhile ==
  /\ pc = "n_lite_while"
  /\ \/ ret = "ok" /\ Goto("n_end")
     \/ Goto(IF workCancel THEN "n_end" ELSE "n_lite")
  /\ Local /\ UNCHANGED cmd

\* nav_end; an uncancelled navigation returns to idle and, with a key
\* reported, waits for the release.
NavEnd ==
  /\ pc \in {"n_key", "n_end"}
  /\ \/ (ret = "canceled" \/ workCancel) /\ Goto(IF pc = "n_key" THEN "n_up" ELSE "finish")
     \/ (ret # "canceled" /\ ~workCancel) /\ Goto(IF pc = "n_key" THEN "n_idle_up" ELSE "n_idle")
  /\ Local /\ UNCHANGED cmd

NavIdle ==
  /\ pc \in {"n_idle", "n_idle_up"}
  /\ SetNoSignal("IDLE")
  /\ Goto(IF pc = "n_idle_up" THEN "n_up" ELSE "finish")
  /\ UNCHANGED <<locals, client, history>>

NavUp ==
  /\ pc = "n_up"
  /\ WaitFinger("up", TRUE, "finish")
  /\ UNCHANGED <<shared, cmd, ret, left, matchedOp, client, history>>

\* silfp_ext_request_commond: verify the request, then run it unless cancelled.
TestBegin ==
  /\ pc = "t_begin"
  /\ Goto("t_run") \/ Goto("t_reject")
  /\ Local /\ UNCHANGED cmd

\* An immediate command, a calibration step, an image test that loops over
\* touches, or one that has no buffer and leaves the request standing.
TestRun ==
  /\ pc = "t_run"
  /\ \/ workCancel /\ Goto("finish")
     \/ ~workCancel /\ \E p \in {"t_done", "t_step", "t_wait", "finish"} : Goto(p)
  /\ Local /\ UNCHANGED cmd

TestWait ==
  /\ pc = "t_wait"
  /\ GetFinger("down", FALSE, "t_loop")
  /\ UNCHANGED <<shared, cmd, ret, left, matchedOp, client, history>>

TestLoop ==
  /\ pc = "t_loop"
  /\ \/ workCancel /\ Goto("finish") /\ UNCHANGED wait
     \/ ~workCancel /\ GetFinger("up", TRUE, "t_wait")
     \/ ~workCancel /\ Goto("t_wait") /\ UNCHANGED wait
  /\ UNCHANGED <<shared, cmd, ret, left, matchedOp, client, history>>

\* silfp_test_calibrate_step sets idle without a look at m_work_cancel.
TestStep ==
  /\ pc = "t_step"
  /\ SetNoSignal("IDLE")
  /\ Goto("t_done")
  /\ UNCHANGED <<locals, client, history>>

TestEnd ==
  /\ pc \in {"t_done", "t_reject"}
  /\ Goto(IF workCancel THEN "finish" ELSE IF pc = "t_done" THEN "t_set" ELSE "t_idle")
  /\ Local /\ UNCHANGED cmd

TestSet ==
  /\ pc \in {"t_set", "t_idle"}
  /\ \E s \in (IF pc = "t_idle" THEN {"IDLE"} ELSE {"IDLE", "WAIT"}) : SetNoSignal(s)
  /\ Goto("finish")
  /\ UNCHANGED <<locals, client, history>>

\* silfp_ext_cb_command: the SPI, optic and calibration tests set idle without
\* a look at m_work_cancel; the image quality test ends with an uncancelable
\* wait and leaves the state alone, like the capture loop.
ExtCbBegin ==
  /\ pc = "x_begin"
  /\ \/ Goto("x_idle") /\ UNCHANGED wait
     \/ Goto("x_loop") /\ UNCHANGED wait
     \/ GetFinger("down", FALSE, "x_up")
  /\ UNCHANGED <<shared, cmd, ret, left, matchedOp, client, history>>

ExtCbIdle ==
  /\ pc = "x_idle"
  /\ SetNoSignal("IDLE")
  /\ Goto("finish")
  /\ UNCHANGED <<locals, client, history>>

ExtCbLoop ==
  /\ pc = "x_loop"
  /\ workCancel
  /\ Goto("finish")
  /\ Local /\ UNCHANGED cmd

ExtCbUp ==
  /\ pc = "x_up"
  /\ EnterWait(IF fingerLoop THEN "poll" ELSE "wait", "up", TRUE, TRUE, "finish")
  /\ UNCHANGED <<shared, cmd, ret, left, matchedOp, client, history>>

CommandEnd == pc = "finish" /\ Finish /\ Local

Other == \/ LockDownWait \/ LockUpWait \/ LockWhile
         \/ NavBegin \/ NavStep \/ NavLite \/ NavLiteWhile \/ NavEnd \/ NavIdle \/ NavUp
         \/ TestBegin \/ TestRun \/ TestWait \/ TestLoop \/ TestStep \/ TestEnd \/ TestSet
         \/ ExtCbBegin \/ ExtCbIdle \/ ExtCbLoop \/ ExtCbUp \/ CommandEnd

Worker == Loop \/ Waiting \/ Enroll \/ Auth \/ Other
-----------------------------------------------------------------------------
(***************************************************************************)
(* Client calls                                                            *)
(***************************************************************************)
\* Thread t begins the call op and goes on at q.
Call(t, op, q) ==
  /\ callerPc[t] = "idle"
  /\ op \in Ops
  /\ calls < MaxCalls
  /\ calls' = calls + 1
  /\ callerPc' = [callerPc EXCEPT ![t] = q]

\* The calls that are silfp_finger_set_work_state and nothing else.  ta_break
\* stands for _ca_check_send_result at the tenth failed TA command.
StateFor == [cancel |-> "IDLE", lock |-> "LOCK", test |-> "TEST", ext_cb |-> "EXT_CB",
             deinit |-> "EXIT", ta_break |-> "BREAK"]

Request(t) ==
  /\ \/ Call(t, "enroll", "unpause") /\ SetWorkState("ENROLL")
        /\ enrollCalls' = enrollCalls + 1
     \/ \E op \in DOMAIN StateFor :
           /\ Call(t, op, "unpause") /\ SetWorkState(StateFor[op])
           /\ UNCHANGED enrollCalls
  /\ UNCHANGED <<worker, navType, opId, authCalls, history>>

\* silfp_finger_authenticate: m_auth_op_id is stored before the lock is taken.
Authenticate(t) ==
  /\ Call(t, "authenticate", "auth_req")
  /\ opId' = calls'
  /\ UNCHANGED <<shared, worker, navType, authCalls, enrollCalls, history>>

AuthRequest(t) ==
  /\ callerPc[t] = "auth_req"
  /\ SetWorkState("SCAN")
  /\ authCalls' = authCalls + 1
  /\ callerPc' = [callerPc EXCEPT ![t] = "unpause"]
  /\ UNCHANGED <<worker, navType, calls, opId, enrollCalls, history>>

\* _finger_enroll_pause: the flag is tested and set without the lock, the
\* signal is sent under it.
Pause(t) ==
  /\ \/ Call(t, "pause", IF workerState = "ENROLL" THEN "pause" ELSE "idle")
     \/ Call(t, "continue", "unpause")
  /\ UNCHANGED <<shared, worker, navType, opId, authCalls, enrollCalls, history>>

SetPause(t) ==
  /\ \/ callerPc[t] = "pause" /\ enrollPause' = TRUE
     \/ callerPc[t] = "unpause" /\ enrollPause' = FALSE
  /\ callerPc' = [callerPc EXCEPT ![t] =
                    IF @ = "pause" \/ enrollPause THEN "signal" ELSE "idle"]
  /\ UNCHANGED <<request, fingerReady, screenOn, fingerDown, fingerLoop, msgPipe, signaled,
                 worker, navType, calls, opId, authCalls, enrollCalls, history>>

PauseSignal(t) ==
  /\ callerPc[t] = "signal"
  /\ Signal
  /\ callerPc' = [callerPc EXCEPT ![t] = "idle"]
  /\ UNCHANGED <<request, flags, fingerLoop, msgPipe,
                 worker, navType, calls, opId, authCalls, enrollCalls, history>>

\* Fault: the navigation is not cancelled.
Screen_NoCancel(t, on) ==
  /\ Call(t, "screen", "idle")
  /\ screenOn' = on
  /\ workerState' = IF workerState = "NAV" /\ ~on THEN "IDLE" ELSE workerState
  /\ Signal
  /\ UNCHANGED <<workCancel, enrollPause, fingerReady, fingerDown, fingerLoop, msgPipe,
                 worker, navType, opId, authCalls, enrollCalls, history>>

\* _finger_screen_state_callback
Screen(t, on) ==
  /\ Call(t, "screen", "idle")
  /\ screenOn' = on
  /\ LET live == NavSupport /\ workerState \notin {"EXIT", "BREAK"} IN
     IF live /\ workerState = "NAV" /\ ~on
     THEN /\ workerState' = "IDLE" /\ workCancel' = TRUE
          /\ fingerReady' = FALSE /\ msgPipe' = Send("c")
          /\ UNCHANGED signaled
     ELSE /\ IF live /\ workerState = "IDLE" /\ on THEN Signal ELSE UNCHANGED signaled
          /\ UNCHANGED <<request, fingerReady, msgPipe>>
  /\ UNCHANGED <<enrollPause, fingerDown, fingerLoop,
                 worker, navType, opId, authCalls, enrollCalls, history>>

\* silfp_notify_finger_ready
FingerReady(t) ==
  /\ Call(t, "ready", "idle")
  /\ fingerReady' = TRUE
  /\ UNCHANGED <<request, enrollPause, screenOn, fingerDown, fingerLoop, msgPipe, signaled,
                 worker, navType, opId, authCalls, enrollCalls, history>>

Client(t) == \/ Request(t) \/ Authenticate(t) \/ AuthRequest(t)
             \/ Pause(t) \/ SetPause(t) \/ PauseSignal(t)
             \/ FingerReady(t) \/ \E on \in BOOLEAN : Screen(t, on)

\* sl_fp_sync_finger_status_optic: a finger arrives or leaves.
Touch ==
  /\ fingerDown' = ~fingerDown
  /\ msgPipe' = Send("i")
  /\ UNCHANGED <<request, enrollPause, fingerReady, screenOn, fingerLoop, signaled,
                 worker, client, history>>
-----------------------------------------------------------------------------
\* silfp_finger_init, up to the creation of the worker.
Init ==
  /\ workerState = "IDLE" /\ workCancel = FALSE
  /\ enrollPause = FALSE /\ fingerReady = FALSE /\ screenOn = FALSE /\ fingerDown = FALSE
  /\ fingerLoop = (FingerLoop # "off")
  /\ msgPipe = <<>> /\ signaled = FALSE
  /\ pc = "loop" /\ cmd = "NONE" /\ ret = "ok" /\ left = 0 /\ matchedOp = 0
  /\ wait = NoWait
  /\ navType \in NavTypes
  /\ callerPc = [t \in Callers |-> "idle"]
  /\ calls = 0 /\ opId = 0 /\ authCalls = 0 /\ enrollCalls = 0
  /\ wins = 0 /\ announced = 0 /\ lastAuth = [challenge |-> 0, matched |-> 0]

Clients == \E t \in Callers : Client(t)
Next == Worker \/ Clients \/ Touch

Spec == Init /\ [][Next]_vars

\* The worker runs, except that nothing promises a spurious wakeup; a client
\* finishes the call it began but need not begin one.
Awake == pc \in {"parked", "paused"} => signaled
InCall(t) == AuthRequest(t) \/ SetPause(t) \/ PauseSignal(t)
Fairness == WF_vars(Awake /\ Worker) /\ \A t \in Callers : WF_vars(InCall(t))
FairSpec == Spec /\ Fairness

\* The same, and fingers come and go for ever.
TouchedSpec == FairSpec /\ WF_vars(Touch)

\* The same, and no finger ever comes.
QuietSpec == Init /\ [][Worker \/ Clients]_vars /\ Fairness
-----------------------------------------------------------------------------
(***************************************************************************)
(* Properties                                                              *)
(***************************************************************************)
LoopPcs == {"loop", "gate", "parked", "dispatch", "tail", "exited"}
WaitPcs == {"wait", "wait_check", "wait_clean", "wait_recv", "wait_esd", "poll"}
EnrollPcs == {"e_begin", "e_timeout", "e_unpause", "e_pause", "e_pausing", "paused",
              "e_resumed", "e_down", "e_ready", "e_ready_done", "e_step", "e_failed",
              "e_up", "e_while", "e_end", "e_check", "e_notice", "e_idle"}
AuthPcs == {"a_begin", "a_down", "a_ready", "a_step", "a_result", "a_notice",
            "a_idle", "a_up", "a_while"}
OtherPcs == [
  NAV    |-> {"n_begin", "n_step", "n_lite", "n_lite_while", "n_key", "n_end",
              "n_idle", "n_idle_up", "n_up"},
  TEST   |-> {"t_begin", "t_run", "t_wait", "t_loop", "t_step", "t_done", "t_reject",
              "t_set", "t_idle"},
  EXT_CB |-> {"x_begin", "x_idle", "x_loop", "x_up"},
  LOCK   |-> {"l_begin", "l_down", "l_while"}]
PcsOf(c) == CASE c = "ENROLL" -> EnrollPcs [] c = "SCAN" -> AuthPcs [] OTHER -> OtherPcs[c]
BodyPcs == EnrollPcs \cup AuthPcs \cup {"finish"} \cup UNION {OtherPcs[c] : c \in DOMAIN OtherPcs}

WaitRecord == [for : {"down", "up", "nav"}, uncancelable : BOOLEAN, keep : BOOLEAN,
               next : BodyPcs, retry : 0 .. WaitRetries, out : {"err", "canceled"}]
CallerPcs == {"idle", "auth_req", "pause", "unpause", "signal"}

\* The worker is where its command can be: in the loop with none, in the body
\* of the one it runs, or in a wait that returns to that body and has a try left.
PositionOK ==
  IF cmd = "NONE" THEN pc \in LoopPcs
  ELSE \/ pc \in PcsOf(cmd) \cup {"finish"}
       \/ /\ pc \in WaitPcs /\ wait.next \in PcsOf(cmd) \cup {"finish"}
          /\ pc = "wait" => wait.retry > 0

FlagsOK ==
  /\ workCancel \in BOOLEAN /\ enrollPause \in BOOLEAN /\ fingerReady \in BOOLEAN
  /\ screenOn \in BOOLEAN /\ fingerDown \in BOOLEAN /\ fingerLoop \in BOOLEAN
  /\ signaled \in BOOLEAN

PipeOK == msgPipe \in Seq({"c", "i"}) /\ Len(msgPipe) <= PipeCap

LocalsOK ==
  /\ cmd \in Commands \cup {"NONE"} /\ ret \in Results
  /\ wait \in WaitRecord /\ left \in 0 .. EnrollTimes /\ matchedOp \in Nat

ClientOK ==
  /\ callerPc \in [Callers -> CallerPcs] /\ calls \in 0 .. MaxCalls
  /\ opId \in Nat /\ authCalls \in Nat /\ enrollCalls \in Nat
  /\ navType \in NavTypes

HistoryOK ==
  /\ wins \in Nat /\ announced \in Nat
  /\ lastAuth \in [challenge : Nat, matched : Nat]

\* Type correctness of the worker, its callers and the pipe between them.
TypeOK == /\ workerState \in States
          /\ FlagsOK /\ PipeOK /\ LocalsOK /\ PositionOK /\ ClientOK /\ HistoryOK

\* The worker has given its request up and only waits for the finger to leave.
Completing == \/ pc \in {"finish", "n_up", "t_done", "t_set"}
              \/ pc \in WaitPcs /\ wait.next = "finish"

\* A command that still works on its request, and sees no cancel, works on the
\* request that stands: however calls, cancels and the worker's own unlocked
\* reads of m_worker_state interleave, no stale command runs on unnoticed.
ServesCurrentRequest ==
  cmd # "NONE" /\ ~workCancel /\ ~Completing => workerState = cmd

\* What the worker works on, as a client sees it.
Serving == IF cmd # "NONE" /\ ~workCancel /\ ~Completing THEN cmd ELSE "NONE"

Hand == INSTANCE Mailbox WITH request <- workerState, serving <- Serving

\* The flag, the pipe, the condition and the unlocked reads together hand a
\* request over as one variable would: the worker takes what stands, and a new
\* request ends what it does in the same moment.
HandsOver == Hand!Spec

\* No call is lost to the wait of the command loop: a worker that sleeps there
\* with no signal on its way sleeps because nothing is asked of it.  The sleep
\* of a paused enrolment has no such guard: see PauseMissed.
NoLostWakeup == pc = "parked" /\ ~signaled => Parkable

\* However requests are repeated, cancelled and overwritten, the client never
\* sees more matches than it asked for, nor more enrolments.
SuccessOncePerRequest == wins <= authCalls /\ announced <= enrollCalls

\* The parts that make SuccessOncePerRequest inductive: a request that stands,
\* or that is being served, has not been answered.
RequestsUnanswered ==
  /\ workerState = "SCAN" /\ pc # "a_idle" => wins < authCalls
  /\ workerState = "ENROLL" /\ pc # "e_idle" => announced < enrollCalls
  /\ cmd = "SCAN" /\ pc # "a_idle" /\ ~Completing => wins < authCalls
  /\ cmd = "ENROLL" /\ pc # "e_idle" /\ ~Completing => announced < enrollCalls

\* The sleep of a paused enrolment, which no loop looks at a condition for: the
\* worker saw the pause, the cancel that ended it sent its signals before the
\* sleep began, and no call is left to send another.
PauseMissed ==
  pc = "paused" /\ ~signaled /\ workCancel /\ \A t \in Callers : callerPc[t] = "idle"

CancelStands == workerState = "IDLE" /\ workCancel /\ pc # "parked"

\* silfp_finger_cancel asks for idle; unless another call replaces it the worker
\* gets there and sleeps, whatever it was doing.  Only a missed end of a pause
\* keeps it.
CancelReachesIdle == []<>(~CancelStands \/ PauseMissed)

RequestWaits ==
  \/ workerState \in {"ENROLL", "SCAN"} /\ cmd # workerState
  \/ workerState = "EXIT" /\ pc # "exited"

\* A request is taken up and a close ends the worker, whatever it does when the
\* call comes, unless the stored request is overwritten first or the end of a
\* pause is missed.
RequestStarts == []<>(~RequestWaits \/ PauseMissed)

\* What fingerprint_oppo.h promises of cancel: it "switches the HAL state machine
\* back to the idle state".  The worker may miss the cancel in its wait for a
\* finger, until the next touch, and in the sleep of a pause, for good.
CancelSwitchesToIdle == []<>~CancelStands
=============================================================================
