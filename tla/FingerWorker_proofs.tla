------------------------ MODULE FingerWorker_proofs ------------------------
(***************************************************************************)
(* Proofs about FingerWorker for every value of its constants.             *)
(*                                                                         *)
(* IInv joins the type invariant, the two properties of the worker and the *)
(* account of unanswered requests.  The lemmas follow the parts of TypeOK  *)
(* (positions, shared state, locals, clients, history), then WorkerStep    *)
(* says what a step of the worker can do to the request it serves; the     *)
(* properties are proved from that and from ClientStep.                    *)
(***************************************************************************)
EXTENDS FingerWorker, TLAPS

USE ConstantsOK

-----------------------------------------------------------------------------
(* Positions                                                               *)
-----------------------------------------------------------------------------
CmdOK == cmd \in Commands \cup {"NONE"}

\* The position of the worker tells which command it runs.
LEMMA PositionOf ==
  ASSUME PositionOK, CmdOK
  PROVE  /\ pc \in EnrollPcs => cmd = "ENROLL"
         /\ pc \in AuthPcs => cmd = "SCAN"
         /\ pc \in LoopPcs => cmd = "NONE"
         /\ pc \in WaitPcs => cmd # "NONE" /\ wait.next \in PcsOf(cmd) \cup {"finish"}
         /\ pc = "wait" => wait.retry > 0
         /\ \A c \in DOMAIN OtherPcs : pc \in OtherPcs[c] => cmd = c
  BY DEF PositionOK, CmdOK, EnrollPcs, AuthPcs, OtherPcs, PcsOf, LoopPcs, WaitPcs, Commands

\* The loop keeps the worker in the loop or enters the body of a command.
LEMMA LoopPosition == PositionOK /\ CmdOK /\ Loop => PositionOK' /\ CmdOK'
<1> SUFFICES ASSUME PositionOK, CmdOK, Loop PROVE PositionOK' /\ CmdOK'
  OBVIOUS
<1>1. cmd = "NONE"
  BY PositionOf DEF Loop, LoopTest, Gate, Wake, Dispatch, LoopEnd, LoopPcs
<1>2. CASE LoopTest \/ Gate \/ Wake \/ LoopEnd
  BY <1>1, <1>2 DEF LoopTest, Gate, Wake, LoopEnd, Goto, locals, PositionOK, CmdOK, LoopPcs
<1>3. CASE Dispatch
  BY <1>1, <1>3 DEF Dispatch, Goto, Finish, Entry, Commands, PositionOK, CmdOK, LoopPcs,
                    PcsOf, EnrollPcs, AuthPcs, OtherPcs
<1> QED BY <1>2, <1>3 DEF Loop

\* A wait goes on or returns to the body it came from.
LEMMA WaitingPosition ==
  ASSUME PositionOK, CmdOK, wait \in WaitRecord, Waiting
  PROVE  PositionOK' /\ CmdOK'
<1> USE DEF Waiting, WaitArm, WaitCheck, WaitClean, WaitRecv, WaitEsd, Poll
<1>1. pc \in WaitPcs
  BY DEF WaitPcs
<1>2. cmd' = cmd
  BY DEF locals
<1>3. \/ pc' = wait.next
      \/ pc' \in WaitPcs /\ wait'.next = wait.next /\ (pc' = "wait" => wait'.retry > 0)
  <2>1. CASE WaitArm \/ Poll
    BY <2>1 DEF WaitReturn, Goto, WaitPcs, WaitRecord
  <2>2. CASE WaitCheck \/ WaitClean \/ WaitRecv \/ WaitEsd
    BY <2>2 DEF WaitReturn, Goto, WaitPcs, locals
  <2> QED BY <2>1, <2>2
<1> QED BY <1>1, <1>2, <1>3, PositionOf DEF PositionOK, CmdOK

\* A step of an enrolment goes on in its body, waits for it or ends it.
LEMMA EnrollPosition == PositionOK /\ CmdOK /\ Enroll => PositionOK' /\ CmdOK'
<1> SUFFICES ASSUME PositionOK, CmdOK, Enroll PROVE PositionOK' /\ CmdOK'
  OBVIOUS
<1> USE DEF Enroll, EnrollBegin, EnrollTimeout, EnrollTimeoutUnpause, EnrollPauseTest,
            EnrollPauseWait, EnrollPauseWake, EnrollResume, EnrollDown, EnrollReady,
            EnrollReadyDone, EnrollStep, EnrollFailed, EnrollUp, EnrollWhile, EnrollEnd,
            EnrollCheck, EnrollNotice, EnrollIdle, EnrollPcs
<1>1. cmd = "ENROLL"
  <2>1. pc \in EnrollPcs
    OBVIOUS
  <2> QED BY <2>1, PositionOf
<1>2. \/ cmd' = "NONE" /\ pc' = "tail"
      \/ cmd' = "ENROLL" /\ pc' \in EnrollPcs
      \/ cmd' = "ENROLL" /\ pc' \in WaitPcs /\ wait'.next \in EnrollPcs \cup {"finish"}
         /\ wait'.retry > 0
  BY <1>1 DEF WaitPcs, FingerReadyWait, EnrollAttempt, GetFinger, EnterWait, Goto, Finish,
              Local, shared, locals
<1> QED BY <1>2 DEF PositionOK, CmdOK, Commands, PcsOf, LoopPcs

\* The same of an authentication.
LEMMA AuthPosition == PositionOK /\ CmdOK /\ Auth => PositionOK' /\ CmdOK'
<1> SUFFICES ASSUME PositionOK, CmdOK, Auth PROVE PositionOK' /\ CmdOK'
  OBVIOUS
<1> USE DEF Auth, AuthBegin, AuthDown, AuthReady, AuthStep, AuthResult, AuthNotice, AuthIdle,
            AuthUp, AuthWhile, AuthPcs
<1>1. cmd = "SCAN"
  <2>1. pc \in AuthPcs
    OBVIOUS
  <2> QED BY <2>1, PositionOf
<1>2. \/ cmd' = "NONE" /\ pc' = "tail"
      \/ cmd' = "SCAN" /\ pc' \in AuthPcs
      \/ cmd' = "SCAN" /\ pc' \in WaitPcs /\ wait'.next \in AuthPcs \cup {"finish"}
         /\ wait'.retry > 0
  BY <1>1 DEF WaitPcs, FingerReadyWait, WaitFinger, EnterWait, Goto, Finish, Local, locals
<1> QED BY <1>2 DEF PositionOK, CmdOK, Commands, PcsOf, LoopPcs

\* The same of the other commands, and of the end of every command.
LEMMA OtherPosition == PositionOK /\ CmdOK /\ Other => PositionOK' /\ CmdOK'
<1> SUFFICES ASSUME PositionOK, CmdOK, Other PROVE PositionOK' /\ CmdOK'
  OBVIOUS
<1>1. CASE CommandEnd
  BY <1>1 DEF CommandEnd, Finish, PositionOK, CmdOK, LoopPcs
<1>2. ASSUME NEW c \in DOMAIN OtherPcs, pc \in OtherPcs[c],
             \/ cmd' = "NONE" /\ pc' = "tail"
             \/ cmd' = cmd /\ pc' \in OtherPcs[c] \cup {"finish"}
             \/ cmd' = cmd /\ pc' \in WaitPcs /\ wait'.next \in OtherPcs[c] \cup {"finish"}
                /\ wait'.retry > 0
      PROVE  PositionOK' /\ CmdOK'
  <2>1. cmd = c
    BY <1>2, PositionOf
  <2>2. c # "ENROLL" /\ c # "SCAN" /\ c # "NONE"
    BY DEF OtherPcs
  <2>3. PcsOf(c) = OtherPcs[c]
    BY <2>2 DEF PcsOf
  <2> QED BY <1>2, <2>1, <2>2, <2>3 DEF PositionOK, CmdOK, LoopPcs
<1> USE DEF OtherPcs, WaitPcs, WaitFinger, GetFinger, EnterWait, Goto, Finish, Local, locals
<1>3. CASE LockDownWait \/ LockUpWait \/ LockWhile
  BY <1>2, <1>3 DEF LockDownWait, LockUpWait, LockWhile
<1>4. CASE NavBegin \/ NavStep \/ NavLite \/ NavLiteWhile \/ NavEnd \/ NavIdle \/ NavUp
  BY <1>2, <1>4 DEF NavBegin, NavStep, NavLite, NavLiteWhile, NavEnd, NavIdle, NavUp
<1>5. CASE TestBegin \/ TestRun \/ TestWait \/ TestLoop \/ TestStep \/ TestEnd \/ TestSet
  BY <1>2, <1>5 DEF TestBegin, TestRun, TestWait, TestLoop, TestStep, TestEnd, TestSet
<1>6. CASE ExtCbBegin \/ ExtCbIdle \/ ExtCbLoop \/ ExtCbUp
  BY <1>2, <1>6 DEF ExtCbBegin, ExtCbIdle, ExtCbLoop, ExtCbUp
<1> QED BY <1>1, <1>3, <1>4, <1>5, <1>6 DEF Other

LEMMA WorkerPosition ==
  ASSUME PositionOK, CmdOK, wait \in WaitRecord, Worker
  PROVE  PositionOK' /\ CmdOK'
  BY LoopPosition, WaitingPosition, EnrollPosition, AuthPosition, OtherPosition DEF Worker

-----------------------------------------------------------------------------
(* Shared state                                                            *)
-----------------------------------------------------------------------------
SharedOK == workerState \in States /\ FlagsOK /\ PipeOK

\* A write keeps the pipe within its capacity.
LEMMA SendType ==
  ASSUME PipeOK, NEW m \in {"c", "i"}
  PROVE  Send(m) \in Seq({"c", "i"}) /\ Len(Send(m)) <= PipeCap
  BY DEF PipeOK, Send

LEMMA SignalType == FlagsOK /\ Signal => signaled' \in BOOLEAN
  BY DEF FlagsOK, Signal

\* The locked section of silfp_finger_set_work_state.
LEMMA SetWorkStateType ==
  ASSUME SharedOK, NEW s \in States, SetWorkState(s)
  PROVE  SharedOK'
<1>1. workerState' \in States
  BY DEF SharedOK, SetWorkState
<1>2. FlagsOK'
  <2>1. workCancel' \in BOOLEAN /\ fingerReady' \in BOOLEAN
    BY Zenon DEF SetWorkState
  <2>2. signaled' \in BOOLEAN
    BY SignalType DEF SharedOK, SetWorkState
  <2> QED BY <2>1, <2>2 DEF SharedOK, FlagsOK, SetWorkState
<1>3. PipeOK'
  BY SendType DEF SharedOK, SetWorkState, PipeOK
<1> QED BY <1>1, <1>2, <1>3 DEF SharedOK

LEMMA SetNoSignalType ==
  ASSUME SharedOK, NEW s \in States, SetNoSignal(s)
  PROVE  SharedOK'
  BY DEF SharedOK, FlagsOK, PipeOK, SetNoSignal, flags

\* Every worker step that touches shared state, by name.
LEMMA WorkerShared ==
  ASSUME Worker
  PROVE  \/ UNCHANGED shared
         \/ Gate \/ Wake \/ LoopEnd \/ WaitClean \/ WaitRecv \/ Poll
         \/ FingerReadyWait("e_ready_done") \/ FingerReadyWait("a_step")
         \/ SetWorkState("IDLE")
         \/ EnrollTimeoutUnpause \/ EnrollPauseWait \/ EnrollPauseWake
         \/ \E s \in {"IDLE", "WAIT"} : SetNoSignal(s)
<1>1. CASE Loop
  BY <1>1 DEF Loop, LoopTest, Dispatch
<1>2. CASE Waiting
  BY <1>2 DEF Waiting, WaitArm, WaitCheck, WaitEsd
<1>3. CASE Enroll
  BY <1>3 DEF Enroll, EnrollBegin, EnrollTimeout, EnrollPauseTest, EnrollResume, EnrollDown,
              EnrollReady, EnrollReadyDone, EnrollStep, EnrollFailed, EnrollUp, EnrollWhile,
              EnrollEnd, EnrollCheck, EnrollNotice, EnrollIdle, Local
<1>4. CASE Auth
  BY <1>4 DEF Auth, AuthBegin, AuthDown, AuthReady, AuthStep, AuthResult, AuthNotice, AuthIdle,
              AuthUp, AuthWhile, Local
<1>5. CASE Other
  <2> USE DEF Local
  <2>1. CASE LockDownWait \/ LockUpWait \/ LockWhile \/ CommandEnd
    BY <2>1 DEF LockDownWait, LockUpWait, LockWhile, CommandEnd
  <2>2. CASE NavBegin \/ NavStep \/ NavLite \/ NavLiteWhile \/ NavEnd \/ NavIdle \/ NavUp
    BY <2>2 DEF NavBegin, NavStep, NavLite, NavLiteWhile, NavEnd, NavIdle, NavUp
  <2>3. CASE TestBegin \/ TestRun \/ TestWait \/ TestLoop \/ TestStep \/ TestEnd
    BY <2>3 DEF TestBegin, TestRun, TestWait, TestLoop, TestStep, TestEnd
  <2>4. CASE TestSet
    BY <2>4 DEF TestSet
  <2>5. CASE ExtCbBegin \/ ExtCbIdle \/ ExtCbLoop \/ ExtCbUp
    BY <2>5 DEF ExtCbBegin, ExtCbIdle, ExtCbLoop, ExtCbUp
  <2> QED BY <1>5, <2>1, <2>2, <2>3, <2>4, <2>5 DEF Other
<1> QED BY <1>1, <1>2, <1>3, <1>4, <1>5 DEF Worker

LEMMA WorkerSharedType ==
  ASSUME SharedOK, Worker
  PROVE  SharedOK'
<1> USE DEF SharedOK
<1>1. CASE UNCHANGED shared
  BY <1>1 DEF shared, request, flags, FlagsOK, PipeOK
<1>2. CASE Gate
  <2>1. workCancel' \in BOOLEAN /\ signaled' \in BOOLEAN
    BY <1>2, Zenon DEF Gate, FlagsOK
  <2> QED BY <1>2, <2>1 DEF Gate, FlagsOK, PipeOK, flags
<1>3. CASE Wake
  <2>1. workCancel' \in BOOLEAN /\ signaled' \in BOOLEAN
    BY <1>3, Zenon DEF Wake
  <2> QED BY <1>3, <2>1 DEF Wake, FlagsOK, PipeOK, flags
<1>4. CASE LoopEnd
  BY <1>4 DEF LoopEnd, FlagsOK, PipeOK, flags, States
<1>5. CASE WaitClean \/ WaitRecv
  <2>1. PipeOK'
    <3>1. CASE WaitClean
      <4>1. <<>> \in Seq({"c", "i"}) /\ Len(<<>>) = 0
        OBVIOUS
      <4> QED BY <3>1, <4>1 DEF WaitClean, PipeOK
    <3>2. CASE WaitRecv
      <4>1. Tail(msgPipe) \in Seq({"c", "i"}) /\ Len(Tail(msgPipe)) <= Len(msgPipe)
        BY <3>2 DEF WaitRecv, PipeOK
      <4> QED BY <3>2, <4>1 DEF WaitRecv, PipeOK
    <3> QED BY <1>5, <3>1, <3>2
  <2> QED BY <1>5, <2>1 DEF WaitClean, WaitRecv, FlagsOK, request, flags
<1>6. CASE Poll
  <2>1. fingerLoop' = fingerLoop \/ fingerLoop' = FALSE
    BY <1>6 DEF Poll
  <2>2. fingerLoop' \in BOOLEAN
    BY <2>1, Zenon DEF FlagsOK
  <2> QED BY <1>6, <2>2 DEF Poll, FlagsOK, PipeOK, request, flags
<1>7. ASSUME NEW n, FingerReadyWait(n) PROVE SharedOK'
  <2>1. fingerReady' \in BOOLEAN
    BY <1>7, Zenon DEF FingerReadyWait
  <2> QED BY <1>7, <2>1 DEF FingerReadyWait, FlagsOK, PipeOK, request
<1>8. CASE SetWorkState("IDLE")
  BY <1>8, SetWorkStateType DEF States
<1>9. CASE EnrollTimeoutUnpause
  <2>1. enrollPause' \in BOOLEAN
    BY <1>9, Zenon DEF EnrollTimeoutUnpause
  <2> QED BY <1>9, <2>1 DEF EnrollTimeoutUnpause, FlagsOK, PipeOK, request
<1>10. CASE EnrollPauseWait \/ EnrollPauseWake
  <2>1. signaled' \in BOOLEAN
    BY <1>10, Zenon DEF EnrollPauseWait, EnrollPauseWake
  <2> QED BY <1>10, <2>1 DEF EnrollPauseWait, EnrollPauseWake, FlagsOK, PipeOK, request, flags
<1>11. CASE \E s \in {"IDLE", "WAIT"} : SetNoSignal(s)
  BY <1>11, SetNoSignalType DEF States
<1> QED BY <1>1, <1>2, <1>3, <1>4, <1>5, <1>6, <1>7, <1>8, <1>9, <1>10, <1>11, WorkerShared

-----------------------------------------------------------------------------
(* Locals of the worker                                                    *)
-----------------------------------------------------------------------------
LEMMA Bodies ==
  /\ EnrollPcs \subseteq BodyPcs /\ AuthPcs \subseteq BodyPcs /\ "finish" \in BodyPcs
  /\ \A c \in DOMAIN OtherPcs : OtherPcs[c] \subseteq BodyPcs
  BY DEF BodyPcs

LEMMA EnterWaitType ==
  ASSUME NEW p, NEW for \in {"down", "up", "nav"}, NEW u \in BOOLEAN, NEW k \in BOOLEAN,
         NEW next \in BodyPcs, EnterWait(p, for, u, k, next)
  PROVE  wait' \in WaitRecord
  BY DEF EnterWait, WaitRecord

LEMMA WaitFingerType ==
  ASSUME NEW for \in {"down", "up", "nav"}, NEW k \in BOOLEAN, NEW next \in BodyPcs,
         WaitFinger(for, k, next) \/ GetFinger(for, k, next)
  PROVE  wait' \in WaitRecord
  BY EnterWaitType DEF WaitFinger, GetFinger

LEMMA WaitReturnType ==
  ASSUME LocalsOK, NEW r \in Results, WaitReturn(r)
  PROVE  ret' \in Results /\ wait' \in WaitRecord
  BY Bodies DEF LocalsOK, WaitReturn, NoWait, WaitRecord

LEMMA WaitingLocals ==
  ASSUME LocalsOK, PositionOK, Waiting
  PROVE  LocalsOK'
<1>1. cmd' = cmd /\ left' = left /\ matchedOp' = matchedOp
  BY DEF Waiting, WaitArm, WaitCheck, WaitClean, WaitRecv, WaitEsd, Poll, locals
<1>2. \/ UNCHANGED <<ret, wait>>
      \/ \E r \in Results : WaitReturn(r)
      \/ /\ UNCHANGED ret
         /\ \/ wait.retry - 1 \in Nat /\ wait' = [wait EXCEPT !.retry = @ - 1]
            \/ wait' = [wait EXCEPT !.out = "canceled"]
  <2>1. CASE WaitArm
    <3>1. wait.retry - 1 \in Nat
      BY <2>1, PositionOf DEF WaitArm, LocalsOK, WaitRecord, CmdOK
    <3> QED BY <2>1, <3>1 DEF WaitArm, Results
  <2>2. CASE WaitCheck \/ WaitClean \/ WaitRecv \/ WaitEsd
    BY <2>2 DEF WaitCheck, WaitClean, WaitRecv, WaitEsd, Results, locals
  <2>3. CASE Poll
    BY <2>3 DEF Poll, Results, LocalsOK, WaitRecord
  <2> QED BY <2>1, <2>2, <2>3 DEF Waiting
<1>3. ret' \in Results /\ wait' \in WaitRecord
  BY <1>2, WaitReturnType DEF LocalsOK, WaitRecord
<1> QED BY <1>1, <1>3 DEF LocalsOK

LEMMA EnrollLocals ==
  ASSUME LocalsOK, PositionOK, CmdOK', Enroll
  PROVE  LocalsOK'
<1> USE DEF Enroll, EnrollBegin, EnrollTimeout, EnrollTimeoutUnpause, EnrollPauseTest,
            EnrollPauseWait, EnrollPauseWake, EnrollResume, EnrollDown, EnrollReady,
            EnrollReadyDone, EnrollStep, EnrollFailed, EnrollUp, EnrollWhile, EnrollEnd,
            EnrollCheck, EnrollNotice, EnrollIdle
<1>1. wait' \in WaitRecord
  <2>1. \/ UNCHANGED wait
        \/ \E for \in {"down", "up"}, k \in BOOLEAN, n \in {"e_down", "e_while", "finish"} :
             GetFinger(for, k, n)
    BY DEF FingerReadyWait, Local, locals
  <2>2. {"e_down", "e_while", "finish"} \subseteq BodyPcs
    BY DEF BodyPcs, EnrollPcs
  <2> QED BY <2>1, <2>2, WaitFingerType DEF LocalsOK
<1>2. ret' \in Results
  BY DEF FingerReadyWait, Local, locals, LocalsOK, Results
<1>3. left' \in 0 .. EnrollTimes
  <2>1. \/ left' = left \/ left' = EnrollTimes
        \/ left > 0 /\ left' = left - 1
    BY DEF FingerReadyWait, Local, locals
  <2> QED BY <2>1 DEF LocalsOK
<1>4. matchedOp' \in Nat
  BY DEF FingerReadyWait, Local, locals, LocalsOK
<1> QED BY <1>1, <1>2, <1>3, <1>4 DEF LocalsOK, CmdOK

LEMMA AuthLocals ==
  ASSUME LocalsOK, CmdOK', opId \in Nat, Auth
  PROVE  LocalsOK'
<1> USE DEF Auth, AuthBegin, AuthDown, AuthReady, AuthStep, AuthResult, AuthNotice, AuthIdle,
            AuthUp, AuthWhile
<1>1. wait' \in WaitRecord
  <2>1. \/ UNCHANGED wait
        \/ \E for \in {"down", "up"}, k \in BOOLEAN, n \in {"a_down", "a_while", "finish"} :
             WaitFinger(for, k, n)
    BY DEF FingerReadyWait, Local, locals
  <2>2. {"a_down", "a_while", "finish"} \subseteq BodyPcs
    BY DEF BodyPcs, AuthPcs
  <2> QED BY <2>1, <2>2, WaitFingerType DEF LocalsOK
<1>2. ret' \in Results /\ left' \in 0 .. EnrollTimes /\ matchedOp' \in Nat
  BY DEF FingerReadyWait, Local, locals, LocalsOK, Results
<1> QED BY <1>1, <1>2 DEF LocalsOK, CmdOK

LEMMA OtherLocals ==
  ASSUME LocalsOK, CmdOK', Other
  PROVE  LocalsOK'
<1> DEFINE Returns == {"l_down", "l_while", "n_step", "n_lite_while", "t_loop", "t_wait",
                       "x_up", "finish"}
<1> DEFINE Waits == \/ UNCHANGED wait
                    \/ \E for \in {"down", "up", "nav"}, k \in BOOLEAN, n \in Returns :
                         WaitFinger(for, k, n) \/ GetFinger(for, k, n)
                    \/ \E p : EnterWait(p, "up", TRUE, TRUE, "finish")
<1>1. Returns \subseteq BodyPcs
  BY DEF BodyPcs, OtherPcs
<1>2. Waits => wait' \in WaitRecord
  BY <1>1, WaitFingerType, EnterWaitType DEF LocalsOK
<1> HIDE DEF Waits
<1>3. ASSUME Waits, ret' \in {ret, "err"}, UNCHANGED <<left, matchedOp>> PROVE LocalsOK'
  BY <1>2, <1>3 DEF LocalsOK, CmdOK, Results
<1> USE DEF Local, locals, Waits
<1>4. CASE LockDownWait \/ LockUpWait \/ LockWhile \/ CommandEnd
  BY <1>3, <1>4 DEF LockDownWait, LockUpWait, LockWhile, CommandEnd
<1>5. CASE NavBegin \/ NavStep \/ NavLite \/ NavLiteWhile \/ NavEnd \/ NavIdle \/ NavUp
  BY <1>3, <1>5 DEF NavBegin, NavStep, NavLite, NavLiteWhile, NavEnd, NavIdle, NavUp
<1>6. CASE TestBegin \/ TestRun \/ TestWait \/ TestLoop \/ TestStep \/ TestEnd \/ TestSet
  BY <1>3, <1>6 DEF TestBegin, TestRun, TestWait, TestLoop, TestStep, TestEnd, TestSet
<1>7. CASE ExtCbBegin \/ ExtCbIdle \/ ExtCbLoop \/ ExtCbUp
  BY <1>3, <1>7 DEF ExtCbBegin, ExtCbIdle, ExtCbLoop, ExtCbUp
<1> QED BY <1>4, <1>5, <1>6, <1>7 DEF Other

LEMMA WorkerLocals ==
  ASSUME LocalsOK, PositionOK, CmdOK', opId \in Nat, Worker
  PROVE  LocalsOK'
<1>1. CASE Loop
  BY <1>1 DEF Loop, LoopTest, Gate, Wake, Dispatch, LoopEnd, locals, LocalsOK, CmdOK, Results
<1> QED BY <1>1, WaitingLocals, EnrollLocals, AuthLocals, OtherLocals DEF Worker

-----------------------------------------------------------------------------
(* What was observed: history and clients                                  *)
-----------------------------------------------------------------------------
\* Three steps of the worker are observable.
LEMMA WorkerHistory ==
  ASSUME Worker
  PROVE  \/ UNCHANGED history
         \/ EnrollNotice \/ AuthNotice
<1>1. CASE Loop
  BY <1>1 DEF Loop, LoopTest, Gate, Wake, Dispatch, LoopEnd
<1>2. CASE Waiting
  BY <1>2 DEF Waiting, WaitArm, WaitCheck, WaitClean, WaitRecv, WaitEsd, Poll
<1>3. CASE Enroll
  BY <1>3 DEF Enroll, EnrollBegin, EnrollTimeout, EnrollTimeoutUnpause, EnrollPauseTest,
              EnrollPauseWait, EnrollPauseWake, EnrollResume, EnrollDown, EnrollReady,
              EnrollReadyDone, EnrollStep, EnrollFailed, EnrollUp, EnrollWhile,
              EnrollEnd, EnrollCheck, EnrollIdle, FingerReadyWait, Local
<1>4. CASE Auth
  BY <1>4 DEF Auth, AuthBegin, AuthDown, AuthReady, AuthStep, AuthResult, AuthIdle,
              AuthUp, AuthWhile, FingerReadyWait, Local
<1>5. CASE Other
  <2> USE DEF Local
  <2>1. CASE LockDownWait \/ LockUpWait \/ LockWhile \/ CommandEnd
    BY <2>1 DEF LockDownWait, LockUpWait, LockWhile, CommandEnd
  <2>2. CASE NavBegin \/ NavStep \/ NavLite \/ NavLiteWhile \/ NavEnd \/ NavIdle \/ NavUp
    BY <2>2 DEF NavBegin, NavStep, NavLite, NavLiteWhile, NavEnd, NavIdle, NavUp
  <2>3. CASE TestBegin \/ TestRun \/ TestWait \/ TestLoop \/ TestStep \/ TestEnd \/ TestSet
    BY <2>3 DEF TestBegin, TestRun, TestWait, TestLoop, TestStep, TestEnd, TestSet
  <2>4. CASE ExtCbBegin \/ ExtCbIdle \/ ExtCbLoop \/ ExtCbUp
    BY <2>4 DEF ExtCbBegin, ExtCbIdle, ExtCbLoop, ExtCbUp
  <2> QED BY <1>5, <2>1, <2>2, <2>3, <2>4 DEF Other
<1> QED BY <1>1, <1>2, <1>3, <1>4, <1>5 DEF Worker

\* The worker makes no calls.
LEMMA WorkerClient == Worker => UNCHANGED client
<1>1. Loop => UNCHANGED client
  BY DEF Loop, LoopTest, Gate, Wake, Dispatch, LoopEnd
<1>2. Waiting => UNCHANGED client
  BY DEF Waiting, WaitArm, WaitCheck, WaitClean, WaitRecv, WaitEsd, Poll
<1>3. Enroll => UNCHANGED client
  BY DEF Enroll, EnrollBegin, EnrollTimeout, EnrollTimeoutUnpause, EnrollPauseTest,
         EnrollPauseWait, EnrollPauseWake, EnrollResume, EnrollDown, EnrollReady,
         EnrollReadyDone, EnrollStep, EnrollFailed, EnrollUp, EnrollWhile, EnrollEnd,
         EnrollCheck, EnrollNotice, EnrollIdle, FingerReadyWait, Local
<1>4. Auth => UNCHANGED client
  BY DEF Auth, AuthBegin, AuthDown, AuthReady, AuthStep, AuthResult, AuthNotice, AuthIdle,
         AuthUp, AuthWhile, FingerReadyWait, Local
<1>5. Other => UNCHANGED client
  <2> USE DEF Local
  <2>1. LockDownWait \/ LockUpWait \/ LockWhile \/ CommandEnd => UNCHANGED client
    BY DEF LockDownWait, LockUpWait, LockWhile, CommandEnd
  <2>2. NavBegin \/ NavStep \/ NavLite \/ NavLiteWhile \/ NavEnd \/ NavIdle \/ NavUp => UNCHANGED client
    BY DEF NavBegin, NavStep, NavLite, NavLiteWhile, NavEnd, NavIdle, NavUp
  <2>3. TestBegin \/ TestRun \/ TestWait \/ TestLoop \/ TestStep \/ TestEnd \/ TestSet => UNCHANGED client
    BY DEF TestBegin, TestRun, TestWait, TestLoop, TestStep, TestEnd, TestSet
  <2>4. ExtCbBegin \/ ExtCbIdle \/ ExtCbLoop \/ ExtCbUp => UNCHANGED client
    BY DEF ExtCbBegin, ExtCbIdle, ExtCbLoop, ExtCbUp
  <2> QED BY <2>1, <2>2, <2>3, <2>4 DEF Other
<1> QED BY <1>1, <1>2, <1>3, <1>4, <1>5 DEF Worker

\* What a step of a client can do: ask the worker for something, which also
\* cancels it, wake an idle worker for the screen, or neither.
LEMMA ClientStep ==
  ASSUME TypeOK, NEW t \in Callers, Client(t)
  PROVE  /\ SharedOK' /\ ClientOK' /\ UNCHANGED <<worker, history, navType>>
         /\ authCalls <= authCalls' /\ enrollCalls <= enrollCalls'
         /\ \/ /\ \E s \in States : SetWorkState(s)
               /\ workerState' = "SCAN" => workerState = "SCAN" \/ authCalls' = authCalls + 1
               /\ workerState' = "ENROLL" => workerState = "ENROLL" \/ enrollCalls' = enrollCalls + 1
            \/ UNCHANGED <<request, screenOn>> /\ (signaled => signaled')
            \/ \E on \in BOOLEAN : Screen(t, on)
<1> USE DEF TypeOK, SharedOK
<1>1. CASE Request(t)
  <2>1. PICK s \in States : SetWorkState(s) /\ \/ s = "ENROLL" /\ enrollCalls' = enrollCalls + 1
                                               \/ s \notin {"SCAN", "ENROLL"} /\ UNCHANGED enrollCalls
    BY <1>1 DEF Request, StateFor, States
  <2>2. SharedOK'
    BY <2>1, SetWorkStateType
  <2>3. ClientOK' /\ UNCHANGED <<worker, history, navType, authCalls>>
    BY <1>1, <2>1 DEF Request, Call, ClientOK, CallerPcs
  <2>4. workerState' \in {workerState, s}
    BY <2>1 DEF SetWorkState
  <2> QED BY <2>1, <2>2, <2>3, <2>4 DEF ClientOK
<1>2. CASE AuthRequest(t)
  <2>1. SharedOK'
    BY <1>2, SetWorkStateType DEF AuthRequest, States
  <2>2. ClientOK'
    BY <1>2 DEF AuthRequest, ClientOK, CallerPcs
  <2>3. workerState' \in {workerState, "SCAN"}
    BY <1>2 DEF AuthRequest, SetWorkState
  <2> QED BY <1>2, <2>1, <2>2, <2>3 DEF AuthRequest, ClientOK, States
<1>3. CASE Authenticate(t) \/ Pause(t)
  BY <1>3 DEF Authenticate, Pause, Call, ClientOK, CallerPcs, FlagsOK, PipeOK, shared, request, flags
<1>4. CASE SetPause(t)
  <2>1. enrollPause' \in BOOLEAN
    BY <1>4, Zenon DEF SetPause
  <2> QED BY <1>4, <2>1 DEF SetPause, ClientOK, CallerPcs, FlagsOK, PipeOK, request
<1>5. CASE PauseSignal(t)
  <2>1. signaled' \in BOOLEAN /\ (signaled => signaled')
    BY <1>5, SignalType DEF PauseSignal, Signal
  <2> QED BY <1>5, <2>1 DEF PauseSignal, ClientOK, CallerPcs, FlagsOK, PipeOK, request, flags
<1>6. CASE FingerReady(t)
  <2>1. fingerReady' \in BOOLEAN
    BY <1>6, Zenon DEF FingerReady
  <2> QED BY <1>6, <2>1 DEF FingerReady, Call, ClientOK, CallerPcs, FlagsOK, PipeOK, request
<1>7. ASSUME NEW on \in BOOLEAN, Screen(t, on) PROVE SharedOK' /\ ClientOK' /\ UNCHANGED <<worker, history, navType>>
  <2>1. workCancel' \in BOOLEAN /\ fingerReady' \in BOOLEAN
    BY <1>7, Zenon DEF Screen, FlagsOK, request
  <2>2. signaled' \in BOOLEAN
    BY <1>7, SignalType DEF Screen, FlagsOK
  <2>3. PipeOK'
    BY <1>7, SendType DEF Screen, PipeOK
  <2>4. workerState' \in States
    BY <1>7 DEF Screen, request, States
  <2>5. FlagsOK'
    BY <1>7, <2>1, <2>2 DEF Screen, FlagsOK
  <2> QED BY <1>7, <2>3, <2>4, <2>5 DEF Screen, Call, ClientOK, CallerPcs
<1>8. CASE \E on \in BOOLEAN : Screen(t, on)
  <2>1. UNCHANGED <<authCalls, enrollCalls>>
    BY <1>8 DEF Screen
  <2> QED BY <1>7, <1>8, <2>1 DEF ClientOK
<1> QED BY <1>1, <1>2, <1>3, <1>4, <1>5, <1>6, <1>8 DEF Client

LEMMA TouchType ==
  ASSUME TypeOK, Touch
  PROVE  TypeOK'
<1>1. fingerDown' \in BOOLEAN
  BY Zenon DEF Touch
<1>2. FlagsOK' /\ PipeOK' /\ workerState' \in States
  BY <1>1, SendType DEF TypeOK, Touch, FlagsOK, PipeOK, request
<1> QED BY <1>2 DEF TypeOK, Touch, worker, locals, client, history, LocalsOK, PositionOK, ClientOK, HistoryOK

-----------------------------------------------------------------------------
(* Type correctness                                                        *)
-----------------------------------------------------------------------------
LEMMA InitType == Init => TypeOK
<1> SUFFICES ASSUME Init PROVE TypeOK
  OBVIOUS
<1> USE DEF Init
<1>1. FlagsOK
  BY Zenon DEF FlagsOK
<1>2. PipeOK /\ workerState \in States
  BY DEF PipeOK, States
<1>3. LocalsOK /\ PositionOK
  BY Bodies DEF LocalsOK, PositionOK, NoWait, WaitRecord, LoopPcs, Commands, Results
<1>4. ClientOK /\ HistoryOK
  BY DEF ClientOK, HistoryOK, CallerPcs
<1> QED BY <1>1, <1>2, <1>3, <1>4 DEF TypeOK

LEMMA WorkerType ==
  ASSUME TypeOK, Worker
  PROVE  TypeOK'
<1> USE DEF TypeOK
<1>1. CmdOK /\ wait \in WaitRecord /\ opId \in Nat
  BY DEF LocalsOK, CmdOK, ClientOK
<1>2. PositionOK' /\ CmdOK'
  BY <1>1, WorkerPosition
<1>3. LocalsOK'
  BY <1>1, <1>2, WorkerLocals
<1>4. SharedOK'
  BY WorkerSharedType DEF SharedOK
<1>5. ClientOK'
  BY WorkerClient DEF ClientOK, client
<1>6. HistoryOK'
  <2>1. CASE EnrollNotice
    BY <2>1 DEF EnrollNotice, HistoryOK
  <2>2. CASE AuthNotice
    BY <2>2 DEF AuthNotice, HistoryOK, ClientOK, LocalsOK
  <2> QED BY <2>1, <2>2, WorkerHistory DEF HistoryOK, history
<1> QED BY <1>2, <1>3, <1>4, <1>5, <1>6 DEF SharedOK

LEMMA NextType == TypeOK /\ [Next]_vars => TypeOK'
<1> SUFFICES ASSUME TypeOK, [Next]_vars PROVE TypeOK'
  OBVIOUS
<1>1. ASSUME NEW t \in Callers, Client(t) PROVE TypeOK'
  BY <1>1, ClientStep DEF TypeOK, SharedOK, worker, locals, history, LocalsOK, PositionOK, HistoryOK
<1>2. CASE UNCHANGED vars
  BY <1>2 DEF TypeOK, vars, shared, request, flags, worker, locals, client, history,
              FlagsOK, PipeOK, LocalsOK, PositionOK, ClientOK, HistoryOK
<1> QED BY <1>1, <1>2, WorkerType, TouchType DEF Next, Clients

\* Type correctness: in particular the worker is always inside the command it
\* runs, the pipe holds at most PipeCap messages and a wait that begins a turn
\* has a try left.
THEOREM TypeCorrect == Spec => []TypeOK
  BY InitType, NextType, PTL DEF Spec

-----------------------------------------------------------------------------
(* What a step of the worker does to the request it serves                 *)
-----------------------------------------------------------------------------
\* The step leaves the request alone: the command goes on, gives nothing away
\* and, once it is completing, keeps completing.
Carries ==
  /\ UNCHANGED <<request, wins, announced>>
  /\ cmd' \in {cmd, "NONE"}
  /\ cmd' # "NONE" /\ Completing => Completing'
  /\ pc \notin {"a_idle", "e_idle"} /\ pc' # "parked"

\* The step withdraws the request: the command is completing from now on.
Withdraws ==
  /\ workerState' \in {"IDLE", "WAIT"}
  /\ UNCHANGED <<workCancel, wins, announced>>
  /\ cmd' = cmd
  /\ Completing' /\ pc' # "parked"

LEMMA LoopStep == Loop => Carries \/ Gate \/ Wake \/ Dispatch \/ LoopEnd
  BY DEF Loop, LoopTest, Carries, Completing, WaitPcs, Goto, shared, request, locals, history

LEMMA WaitingStep ==
  ASSUME PositionOK, CmdOK, wait \in WaitRecord, Waiting
  PROVE  Carries
<1> USE DEF Waiting, WaitArm, WaitCheck, WaitClean, WaitRecv, WaitEsd, Poll
<1>1. UNCHANGED <<request, wins, announced>> /\ cmd' = cmd
  BY DEF shared, request, locals, history
<1>2. pc \in WaitPcs
  BY DEF WaitPcs
<1>3. \/ pc' = wait.next
      \/ pc' \in WaitPcs /\ wait'.next = wait.next
  <2>1. CASE WaitArm \/ Poll
    BY <2>1 DEF WaitReturn, Goto, WaitPcs, WaitRecord
  <2>2. CASE WaitCheck \/ WaitClean \/ WaitRecv \/ WaitEsd
    BY <2>2 DEF WaitReturn, Goto, WaitPcs, locals
  <2> QED BY <2>1, <2>2
<1>4. wait.next # "parked" /\ "parked" \notin WaitPcs
  BY DEF WaitRecord, BodyPcs, EnrollPcs, AuthPcs, OtherPcs, WaitPcs
<1>5. pc \notin {"a_idle", "e_idle"}
  BY <1>2 DEF WaitPcs
<1>6. Completing => wait.next = "finish"
  BY <1>2 DEF Completing, WaitPcs
<1> QED BY <1>1, <1>3, <1>4, <1>5, <1>6 DEF Carries, Completing

LEMMA EnrollStepRequest ==
  ASSUME Enroll
  PROVE  Carries \/ Withdraws \/ EnrollTimeout \/ EnrollNotice
<1>1. EnrollIdle => Withdraws
  BY DEF EnrollIdle, SetNoSignal, GetFinger, EnterWait, Withdraws, Completing, WaitPcs, history
<1>2. EnrollEnd \/ EnrollCheck => Carries
  BY DEF EnrollEnd, EnrollCheck, Carries, Completing, WaitPcs, Goto, Finish, Local, shared,
         request, history
<1>3. CASE \/ EnrollBegin \/ EnrollTimeoutUnpause \/ EnrollPauseTest \/ EnrollPauseWait
           \/ EnrollPauseWake \/ EnrollResume \/ EnrollDown \/ EnrollReady \/ EnrollReadyDone
           \/ EnrollStep \/ EnrollFailed \/ EnrollUp \/ EnrollWhile
  <2> USE <1>3 DEF EnrollBegin, EnrollTimeoutUnpause, EnrollPauseTest, EnrollPauseWait,
                   EnrollPauseWake, EnrollResume, EnrollDown, EnrollReady, EnrollReadyDone,
                   EnrollStep, EnrollFailed, EnrollUp, EnrollWhile, Local, FingerReadyWait
  <2>1. UNCHANGED <<request, wins, announced>>
    BY DEF shared, request, history
  <2>2. cmd' \in {cmd, "NONE"}
    BY DEF locals, Finish
  <2>3. ~Completing /\ pc \notin {"a_idle", "e_idle"}
    BY DEF Completing, WaitPcs
  <2>4. pc' # "parked"
    BY DEF Goto, Finish, GetFinger, EnterWait, EnrollAttempt
  <2> QED BY <2>1, <2>2, <2>3, <2>4 DEF Carries
<1> QED BY <1>1, <1>2, <1>3 DEF Enroll

LEMMA AuthStepRequest ==
  ASSUME Auth
  PROVE  Carries \/ Withdraws \/ AuthNotice
<1>1. AuthIdle => Withdraws
  BY DEF AuthIdle, SetNoSignal, WaitFinger, EnterWait, Withdraws, Completing, WaitPcs, history
<1>2. CASE \/ AuthBegin \/ AuthDown \/ AuthReady \/ AuthStep \/ AuthResult \/ AuthUp \/ AuthWhile
  <2> USE <1>2 DEF AuthBegin, AuthDown, AuthReady, AuthStep, AuthResult, AuthUp, AuthWhile,
                   Local, FingerReadyWait
  <2>1. UNCHANGED <<request, wins, announced>>
    BY DEF shared, request, history
  <2>2. cmd' \in {cmd, "NONE"}
    BY DEF locals, Finish
  <2>3. ~Completing /\ pc \notin {"a_idle", "e_idle"}
    BY DEF Completing, WaitPcs
  <2>4. pc' # "parked"
    BY DEF Goto, Finish, WaitFinger, EnterWait
  <2> QED BY <2>1, <2>2, <2>3, <2>4 DEF Carries
<1> QED BY <1>1, <1>2 DEF Auth

LEMMA OtherStepRequest ==
  ASSUME Other
  PROVE  Carries \/ Withdraws
<1> USE DEF Carries, Withdraws, Completing, WaitPcs, SetNoSignal, WaitFinger, GetFinger,
            EnterWait, Goto, Finish, Local, shared, request, locals, history
<1>1. CASE LockDownWait \/ LockUpWait \/ LockWhile \/ CommandEnd
  BY <1>1 DEF LockDownWait, LockUpWait, LockWhile, CommandEnd
<1>2. CASE NavBegin \/ NavStep \/ NavLite \/ NavLiteWhile \/ NavEnd \/ NavIdle \/ NavUp
  BY <1>2 DEF NavBegin, NavStep, NavLite, NavLiteWhile, NavEnd, NavIdle, NavUp
<1>3. CASE TestBegin \/ TestRun \/ TestWait \/ TestLoop \/ TestStep \/ TestEnd \/ TestSet
  BY <1>3 DEF TestBegin, TestRun, TestWait, TestLoop, TestStep, TestEnd, TestSet
<1>4. CASE ExtCbBegin \/ ExtCbIdle \/ ExtCbLoop \/ ExtCbUp
  BY <1>4 DEF ExtCbBegin, ExtCbIdle, ExtCbLoop, ExtCbUp
<1> QED BY <1>1, <1>2, <1>3, <1>4 DEF Other

LEMMA WorkerStep ==
  ASSUME TypeOK, Worker
  PROVE  \/ Carries \/ Withdraws
         \/ Gate \/ Wake \/ Dispatch \/ LoopEnd
         \/ EnrollTimeout \/ EnrollNotice \/ AuthNotice
  BY LoopStep, WaitingStep, EnrollStepRequest, AuthStepRequest, OtherStepRequest
     DEF Worker, TypeOK, LocalsOK, CmdOK

-----------------------------------------------------------------------------
(* The properties                                                          *)
-----------------------------------------------------------------------------
IInv == /\ TypeOK
        /\ ServesCurrentRequest /\ NoLostWakeup
        /\ SuccessOncePerRequest /\ RequestsUnanswered

LEMMA InitIInv == Init => IInv
  BY InitType DEF IInv, Init, ServesCurrentRequest, NoLostWakeup, SuccessOncePerRequest,
                  RequestsUnanswered

LEMMA WorkerServes ==
  ASSUME IInv, Worker
  PROVE  ServesCurrentRequest'
<1> USE DEF IInv, ServesCurrentRequest
<1>1. CASE Carries
  BY <1>1 DEF Carries, request
<1>2. CASE Withdraws
  BY <1>2 DEF Withdraws
<1>3. CASE Gate \/ Wake \/ LoopEnd
  <2>1. cmd' = "NONE"
    BY <1>3, PositionOf DEF Gate, Wake, LoopEnd, LoopPcs, locals, TypeOK, LocalsOK, CmdOK
  <2> QED BY <2>1
<1>4. CASE Dispatch
  BY <1>4 DEF Dispatch, Finish, shared, request
<1>5. CASE EnrollTimeout
  BY <1>5 DEF EnrollTimeout, SetWorkState
<1>6. CASE EnrollNotice \/ AuthNotice
  <2>1. ~Completing
    BY <1>6 DEF EnrollNotice, AuthNotice, Completing, WaitPcs
  <2> QED BY <1>6, <2>1 DEF EnrollNotice, AuthNotice, shared, request, locals
<1> QED BY <1>1, <1>2, <1>3, <1>4, <1>5, <1>6, WorkerStep

LEMMA WorkerNoLostWakeup ==
  ASSUME IInv, Worker
  PROVE  NoLostWakeup'
<1>1. CASE Gate
  BY <1>1 DEF Gate, Goto, NoLostWakeup, Parkable, NavSupport, NavForce, flags, client
<1>2. ~Gate => pc' # "parked"
  BY WorkerStep DEF IInv, Carries, Withdraws, Wake, Dispatch, LoopEnd, EnrollTimeout, EnrollNotice,
                    AuthNotice, Goto, Finish, Entry, Commands
<1> QED BY <1>1, <1>2 DEF NoLostWakeup

LEMMA WorkerUnanswered ==
  ASSUME IInv, Worker
  PROVE  RequestsUnanswered' /\ SuccessOncePerRequest'
<1> USE DEF IInv, RequestsUnanswered, SuccessOncePerRequest
<1>1. UNCHANGED <<authCalls, enrollCalls>>
  BY WorkerClient DEF client
<1>2. CASE Carries
  BY <1>1, <1>2 DEF Carries, request
<1>3. CASE Withdraws
  BY <1>1, <1>3 DEF Withdraws
<1>4. CASE Gate \/ Wake \/ LoopEnd
  <2>1. cmd' = "NONE" /\ UNCHANGED <<wins, announced>> /\ pc \notin {"a_idle", "e_idle"}
    BY <1>4, PositionOf DEF Gate, Wake, LoopEnd, LoopPcs, locals, history, TypeOK, LocalsOK, CmdOK
  <2>2. workerState' \in {workerState, "NAV"}
    BY <1>4 DEF Gate, Wake, LoopEnd
  <2> QED BY <1>1, <2>1, <2>2
<1>5. CASE Dispatch
  BY <1>1, <1>5 DEF Dispatch, Finish, shared, request, history
<1>6. CASE EnrollTimeout
  <2>1. cmd = "ENROLL" /\ cmd' = cmd /\ pc = "e_timeout" /\ UNCHANGED <<wins, announced>>
    BY <1>6, PositionOf DEF EnrollTimeout, EnrollPcs, locals, history, TypeOK, LocalsOK, CmdOK
  <2>2. ~Completing
    BY <2>1 DEF Completing, WaitPcs
  <2>3. workerState' \in {"IDLE", workerState}
    BY <1>6 DEF EnrollTimeout, SetWorkState
  <2> QED BY <1>1, <2>1, <2>2, <2>3
<1>7. CASE EnrollNotice
  <2>1. cmd = "ENROLL" /\ cmd' = cmd /\ pc = "e_notice" /\ pc' = "e_idle"
    BY <1>7, PositionOf DEF EnrollNotice, Goto, EnrollPcs, locals, TypeOK, LocalsOK, CmdOK
  <2>2. ~Completing
    BY <2>1 DEF Completing, WaitPcs
  <2>3. workerState' = workerState /\ wins' = wins /\ announced' = announced + 1
    BY <1>7 DEF EnrollNotice, shared, request
  <2>4. announced + 1 <= enrollCalls
    BY <2>1, <2>2 DEF TypeOK, HistoryOK, ClientOK
  <2> QED BY <1>1, <2>1, <2>3, <2>4
<1>8. CASE AuthNotice
  <2>1. cmd = "SCAN" /\ cmd' = cmd /\ pc = "a_notice" /\ pc' = "a_idle"
    BY <1>8, PositionOf DEF AuthNotice, Goto, AuthPcs, locals, TypeOK, LocalsOK, CmdOK
  <2>2. ~Completing
    BY <2>1 DEF Completing, WaitPcs
  <2>3. workerState' = workerState /\ wins' = wins + 1 /\ announced' = announced
    BY <1>8 DEF AuthNotice, shared, request
  <2>4. wins + 1 <= authCalls
    BY <2>1, <2>2 DEF TypeOK, HistoryOK, ClientOK
  <2> QED BY <1>1, <2>1, <2>3, <2>4
<1> QED BY <1>2, <1>3, <1>4, <1>5, <1>6, <1>7, <1>8, WorkerStep

\* A client replaces the request only together with the cancel.
LEMMA ClientIInv ==
  ASSUME IInv, NEW t \in Callers, Client(t)
  PROVE  ServesCurrentRequest' /\ NoLostWakeup' /\ SuccessOncePerRequest' /\ RequestsUnanswered'
<1>1. /\ UNCHANGED <<pc, cmd, wait, wins, announced, navType>> /\ Completing' = Completing
      /\ authCalls <= authCalls' /\ enrollCalls <= enrollCalls'
      /\ {wins, announced, authCalls, enrollCalls, authCalls', enrollCalls'} \subseteq Nat
  <2>1. UNCHANGED <<pc, cmd, wait, wins, announced, navType>>
    BY ClientStep DEF IInv, worker, locals, history
  <2>2. Completing' = Completing
    BY <2>1 DEF Completing
  <2>3. ClientOK' /\ authCalls <= authCalls' /\ enrollCalls <= enrollCalls'
    BY ClientStep DEF IInv
  <2> QED BY <2>1, <2>2, <2>3 DEF IInv, TypeOK, HistoryOK, ClientOK
<1>2. SuccessOncePerRequest'
  BY <1>1 DEF IInv, SuccessOncePerRequest
<1>3. CASE /\ \E s \in States : SetWorkState(s)
           /\ workerState' = "SCAN" => workerState = "SCAN" \/ authCalls' = authCalls + 1
           /\ workerState' = "ENROLL" => workerState = "ENROLL" \/ enrollCalls' = enrollCalls + 1
  <2>1. workCancel' /\ (pc = "parked" => signaled')
    BY <1>3 DEF SetWorkState, Signal
  <2>2. RequestsUnanswered'
    BY <1>1, <1>3 DEF IInv, RequestsUnanswered, SuccessOncePerRequest
  <2> QED BY <1>1, <1>2, <2>1, <2>2 DEF ServesCurrentRequest, NoLostWakeup
<1>4. CASE UNCHANGED <<request, screenOn>> /\ (signaled => signaled')
  BY <1>1, <1>2, <1>4 DEF IInv, request, ServesCurrentRequest, NoLostWakeup, Parkable,
                          NavSupport, NavForce, RequestsUnanswered
<1>5. CASE \E on \in BOOLEAN : Screen(t, on)
  <2>1. \/ workerState' = workerState /\ workCancel' = workCancel
        \/ workerState' = "IDLE" /\ workCancel'
    BY <1>5 DEF Screen, request
  <2>2. ServesCurrentRequest' /\ RequestsUnanswered'
    BY <1>1, <2>1 DEF IInv, ServesCurrentRequest, RequestsUnanswered
  <2>3. NoLostWakeup'
    BY <1>1, <1>5 DEF IInv, NoLostWakeup, Screen, Signal, Parkable, request, NavSupport, NavForce
  <2> QED BY <1>2, <2>2, <2>3
<1> QED BY <1>3, <1>4, <1>5, ClientStep DEF IInv

LEMMA NextIInv == IInv /\ [Next]_vars => IInv'
<1> SUFFICES ASSUME IInv, [Next]_vars PROVE IInv'
  OBVIOUS
<1>1. TypeOK'
  BY NextType DEF IInv
<1>2. CASE Worker
  BY <1>1, <1>2, WorkerServes, WorkerNoLostWakeup, WorkerUnanswered DEF IInv
<1>3. CASE Clients
  BY <1>1, <1>3, ClientIInv DEF IInv, Clients
<1>4. CASE Touch \/ UNCHANGED vars
  BY <1>1, <1>4 DEF Touch, vars, shared, request, flags, worker, locals, client, history, IInv,
       ServesCurrentRequest, NoLostWakeup, SuccessOncePerRequest, RequestsUnanswered, Completing, Parkable,
       NavSupport, NavForce
<1> QED BY <1>2, <1>3, <1>4 DEF Next

LEMMA Inductive == Spec => []IInv
  BY InitIInv, NextIInv, PTL DEF Spec

\* However calls and the worker's unlocked reads interleave, a command that has
\* not seen a cancel serves the request that stands.
THEOREM ServesCurrent == Spec => []ServesCurrentRequest
  BY Inductive, PTL DEF IInv

\* The worker's sleep in the command loop never swallows a call.
THEOREM WakeupsKept == Spec => []NoLostWakeup
  BY Inductive, PTL DEF IInv

\* No request is answered with success twice.
THEOREM AnsweredOnce == Spec => []SuccessOncePerRequest
  BY Inductive, PTL DEF IInv

\* A request that stands, or is being served, still has its answer open.
THEOREM Unanswered == Spec => []RequestsUnanswered
  BY Inductive, PTL DEF IInv

-----------------------------------------------------------------------------
(* The hand-over implements Mailbox                                        *)
-----------------------------------------------------------------------------
LEMMA WorkerHandsOver ==
  ASSUME IInv, Worker
  PROVE  Hand!Next \/ UNCHANGED <<workerState, Serving>>
<1> USE DEF Hand!Next, Hand!GiveUp, Hand!Resting, Serving
\* The request stands, and what is served goes on or is given up.
<1>1. CASE workerState' = workerState /\ Serving' \in {Serving, "NONE"}
  BY <1>1
<1>2. CASE Carries
  <2>1. Serving' \in {Serving, "NONE"}
    BY <1>2 DEF Carries, request
  <2> QED BY <1>1, <1>2, <2>1 DEF Carries, request
<1>3. CASE Withdraws
  BY <1>3 DEF Withdraws
<1>4. CASE Gate \/ Wake \/ Dispatch \/ LoopEnd
  <2>1. cmd = "NONE"
    BY <1>4, PositionOf DEF Gate, Wake, Dispatch, LoopEnd, LoopPcs, IInv, TypeOK, LocalsOK, CmdOK
  <2>2. CASE Gate \/ Wake
    BY <2>1, <2>2 DEF Gate, Wake, locals
  <2>3. CASE LoopEnd
    BY <2>1, <2>3 DEF LoopEnd, locals, Hand!Navigate
  <2>4. CASE Dispatch
    BY <2>1, <2>4 DEF Dispatch, Finish, shared, request, Commands, Hand!Take, Hand!Commands
  <2> QED BY <1>4, <2>2, <2>3, <2>4
<1>5. CASE EnrollTimeout
  BY <1>5 DEF EnrollTimeout, SetWorkState, Hand!Ask, Hand!Final
<1>6. CASE EnrollNotice \/ AuthNotice
  <2>1. ~Completing
    BY <1>6 DEF EnrollNotice, AuthNotice, Completing, WaitPcs
  <2>2. UNCHANGED <<workerState, workCancel, cmd>>
    BY <1>6 DEF EnrollNotice, AuthNotice, shared, request, locals
  <2> QED BY <1>1, <2>1, <2>2
<1> QED BY <1>2, <1>3, <1>4, <1>5, <1>6, WorkerStep DEF IInv

LEMMA ClientHandsOver ==
  ASSUME IInv, NEW t \in Callers, Client(t)
  PROVE  Hand!Next \/ UNCHANGED <<workerState, Serving>>
<1> USE DEF Hand!Next, Hand!Ask, Hand!Final, Hand!Resting, Hand!Commands, Serving
<1>1. UNCHANGED <<pc, cmd, wait>> /\ Completing' = Completing
  BY ClientStep DEF IInv, worker, locals, Completing
<1>2. CASE \E s \in States : SetWorkState(s)
  BY <1>2 DEF SetWorkState, States
<1>3. CASE UNCHANGED <<request, screenOn>>
  BY <1>1, <1>3 DEF request
<1>4. CASE \E on \in BOOLEAN : Screen(t, on)
  <2>1. CASE UNCHANGED request
    BY <1>1, <2>1 DEF request
  <2>2. CASE workerState = "NAV" /\ workerState' = "IDLE" /\ workCancel'
    BY <2>2
  <2> QED BY <1>4, <2>1, <2>2 DEF Screen
<1> QED BY <1>2, <1>3, <1>4, ClientStep DEF IInv

\* However its flag, pipe, condition and unlocked reads interleave, the hand-over
\* behaves as one variable that clients write and the worker takes from.
THEOREM HandOverImplemented == Spec => HandsOver
<1>1. Init => Hand!Init
  BY DEF Init, Hand!Init, Serving
<1>2. IInv /\ [Next]_vars => [Hand!Next]_<<workerState, Serving>>
  <2> SUFFICES ASSUME IInv, [Next]_vars
               PROVE  Hand!Next \/ UNCHANGED <<workerState, Serving>>
    OBVIOUS
  <2>1. CASE Touch \/ UNCHANGED vars
    BY <2>1 DEF Touch, vars, shared, request, worker, locals, Serving, Completing
  <2> QED BY <2>1, WorkerHandsOver, ClientHandsOver DEF Next, Clients
<1> QED BY <1>1, <1>2, Inductive, PTL DEF Spec, HandsOver, Hand!Spec
=============================================================================
