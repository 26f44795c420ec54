------------------------------ MODULE TestCmd ------------------------------
(***************************************************************************)
(* Test commands: silead_fingerext.c and silead_test.c, which take them    *)
(* from the command hub, and silead_ext_cb.c, which takes them from the    *)
(* HAL.  Both leave the command in shared variables and then request       *)
(* STATE_TEST or STATE_EXT_CB of the worker, which reads them again:       *)
(*                                                                         *)
(*   hub     m_test_cmd_data, under m_test_data_lock, released before the  *)
(*           request is made and taken again for every look at the data;   *)
(*   HAL     m_cmd_id and m_calibrate_cmd_id, without a lock; only the     *)
(*           verdict of the SPI self-test is guarded, by m_lock.           *)
(*                                                                         *)
(* What a command does to the sensor is the subject of Sensor, how the     *)
(* packet reaches the hub that of ExtHub.  Here a command either answers   *)
(* or does not, and the TA's results are choices.                          *)
(***************************************************************************)
EXTENDS Integers, FiniteSets

CONSTANTS
  Requests,    \* what clients send: [id, len (after the id), magic]
  Callers,     \* threads that call into the HAL
  Calls,       \* the HAL calls they make
  MaxRequests, \* bound on the commands of clients
  MaxCalls     \* bound on the HAL calls

HalCalls == {"spi", "quality", "aging", "calibrate", "factory", "cancel", "deinit"}
Ids == {"capture", "speed", "frrfar", "clear", "step", "info", "touch"}

Free == "free"   \* who holds a lock that nobody holds

ASSUME TestConstants ==
  /\ Requests \subseteq [id : Ids, len : Int, magic : BOOLEAN]
  /\ Calls \subseteq HalCalls /\ Free \notin Callers
  /\ MaxRequests \in Nat /\ MaxCalls \in Nat

VARIABLES
  workerState,  \* m_worker_state
  workCancel,   \* m_work_cancel
  signaled,     \* m_worker_cond was signalled since the worker began to wait
  data,         \* m_test_cmd_data: the request (the n-th), req_len, offset and
                \*   cap, the size of the block at req (0 for NULL)
  dataLock,     \* who holds m_test_data_lock
  extId,        \* m_cmd_id
  stepId,       \* m_calibrate_cmd_id
  spiResult,    \* m_spi_test_result
  extLock,      \* the caller that holds m_lock of silead_ext_cb.c
  pc,           \* the worker's position
  run,          \* the command the worker runs
  hubPc,        \* the hub thread's position
  callerPc,     \* each caller's position, and in
  asks,         \*   what it asks for: <<call, calibration step>>
  sent, called, \* commands sent, HAL calls made
  owed,         \* what was requested last and is not served: a command of the
                \*   hub, a call of the HAL, or nothing
  credit,       \* requests for a test command, less the commands run
  passed,       \* callers for whom a self-test has passed since they began
  verdict       \* what the caller's last self-test returned

state   == <<workerState, workCancel, signaled>>
ext     == <<extId, stepId, spiResult, extLock>>
hal     == <<callerPc, asks, called, verdict>>
hub     == <<hubPc, sent>>
history == <<owed, credit, passed>>
vars == <<state, data, dataLock, ext, pc, run, hub, hal, history>>

NoRequest == [id |-> "info", len |-> 0, magic |-> FALSE]
NoData == [req |-> NoRequest, n |-> 0, len |-> 0, cap |-> 0, off |-> 0]
NoRun == [id |-> "info", n |-> 0]
Looping == {"capture", "speed"}   \* _ext_should_loop
Waiting == {"frrfar", "clear"}    \* _ext_should_goto_wait_status
Nothing == <<"nothing", 0>>
Command == <<"command", 0>>
Steps == {1, 2}                   \* FUN_CALIBRATE_CMD1, CMD2; 0 until one is asked

Goto(p) == pc' = p

\* Fault: the worker is not signalled.
SetWorkState_NoSignal(s) ==
  /\ workCancel' = TRUE
  /\ workerState' = IF workerState = "EXIT" THEN "EXIT" ELSE s
  /\ UNCHANGED signaled

\* silfp_finger_set_work_state, its section under the worker's lock.
SetWorkState(s) ==
  /\ workCancel' = TRUE
  /\ workerState' = IF workerState = "EXIT" THEN "EXIT" ELSE s
  /\ signaled' = (signaled \/ pc = "parked")

\* silfp_finger_set_work_state_no_signal, called by the worker.  A request
\* made since workCancel was looked at is overwritten.
SetNoSignal(s) ==
  /\ workerState' = s
  /\ owed' = IF workCancel THEN Nothing ELSE owed
  /\ UNCHANGED <<workCancel, signaled>>

\* A response or an error notice for the command that runs.
Answer == owed' = IF owed = Command /\ run.n = data.n THEN Nothing ELSE owed

\* The worker does what the HAL asked for.
Serve(ask) == owed' = IF owed = ask THEN Nothing ELSE owed
-----------------------------------------------------------------------------
(***************************************************************************)
(* The hub thread: silfp_ext_test_cmd                                      *)
(***************************************************************************)
\* Fault: the block is kept whatever its size.
Kept_Always(len) == data.cap

\* The block is kept when the last command was at least as long; it is freed
\* by the length of the last command, not by its own.
Kept(len) == IF data.len < len THEN 0 ELSE data.cap

\* Not a command, or a touch event, which is passed on at once.
HubOther(r) ==
  /\ r.len < 0 \/ r.id = "touch"
  /\ UNCHANGED <<data, hubPc, owed>>

HubStore(r, allocated) ==
  LET need  == r.len > 0 /\ Kept(r.len) = 0
      fails == need /\ ~allocated
  IN /\ dataLock = Free
     /\ r.len >= 0 /\ r.id # "touch"
     /\ data' = [req |-> r, n |-> sent + 1, off |-> 4,
                 len |-> IF fails THEN 0 ELSE r.len,
                 cap |-> IF ~need THEN Kept(r.len) ELSE IF fails THEN 0 ELSE r.len]
     /\ hubPc' = IF fails THEN "ready" ELSE "request"
     /\ owed' = IF owed = Command THEN Nothing ELSE owed

HubReceive ==
  /\ hubPc = "ready" /\ pc # "stopped" /\ sent < MaxRequests
  /\ sent' = sent + 1
  /\ \E r \in Requests, allocated \in BOOLEAN : HubOther(r) \/ HubStore(r, allocated)
  /\ UNCHANGED <<state, dataLock, ext, pc, run, hal, credit, passed>>

HubRequest ==
  /\ hubPc = "request"
  /\ SetWorkState("TEST")
  /\ owed' = IF workerState = "EXIT" THEN Nothing ELSE Command
  /\ credit' = credit + 1
  /\ hubPc' = "ready"
  /\ UNCHANGED <<data, dataLock, ext, pc, run, sent, hal, passed>>
-----------------------------------------------------------------------------
(***************************************************************************)
(* The HAL: silead_ext_cb.c                                                *)
(***************************************************************************)
At(c, p) == callerPc' = [callerPc EXCEPT ![c] = p]
Asks(c, op, step) == asks' = [asks EXCEPT ![c] = <<op, step>>]

\* Fault: the verdict of the last test stands.
SpiBegin_Keeps(c) == extLock' = c /\ extId' = "spi" /\ UNCHANGED <<stepId, spiResult>>

\* silfp_ext_cb_spi_test up to the request, under m_lock.
SpiBegin(c) ==
  /\ extLock' = c
  /\ spiResult' = 0
  /\ extId' = "spi"
  /\ UNCHANGED stepId

CallSpi(c) ==
  /\ extLock = Free
  /\ SpiBegin(c)
  /\ At(c, "spi")
  /\ passed' = passed \ {c}
  /\ verdict' = [verdict EXCEPT ![c] = FALSE]
  /\ Asks(c, "spi", 0)
  /\ UNCHANGED <<state, owed>>

\* Image quality, image capture loop, factory quality.
CallExt(c, op) ==
  /\ extId' = op
  /\ At(c, "ext")
  /\ Asks(c, op, 0)
  /\ UNCHANGED <<state, stepId, spiResult, extLock, verdict, owed, passed>>

\* silfp_ext_cb_calibrate_step: two words, written one after the other.
CallCalibrate(c) ==
  /\ extId' = "calibrate"
  /\ At(c, "step")
  /\ \E k \in Steps : Asks(c, "calibrate", k)
  /\ UNCHANGED <<state, stepId, spiResult, extLock, verdict, owed, passed>>

\* silfp_finger_cancel and silfp_ext_cb_image_quality_finish.
CallCancel ==
  /\ SetWorkState("IDLE")
  /\ owed' = Nothing
  /\ UNCHANGED <<ext, callerPc, asks, verdict, passed>>

\* silfp_finger_deinit, when the client's other calls have returned.
CallDeinit(c) ==
  /\ \A d \in Callers : callerPc[d] = "out"
  /\ SetWorkState("EXIT")
  /\ At(c, "join")
  /\ owed' = Nothing
  /\ UNCHANGED <<ext, asks, verdict, passed>>

HalCall(c) ==
  /\ callerPc[c] = "out" /\ pc # "stopped" /\ called < MaxCalls
  /\ \A d \in Callers : callerPc[d] # "join"
  /\ \E op \in Calls : \/ op = "spi" /\ CallSpi(c)
                       \/ op \in {"quality", "aging", "factory"} /\ CallExt(c, op)
                       \/ op = "calibrate" /\ CallCalibrate(c)
                       \/ op = "cancel" /\ CallCancel
                       \/ op = "deinit" /\ CallDeinit(c)
  /\ called' = called + 1
  /\ UNCHANGED <<data, dataLock, pc, run, hub, credit>>

HalStep(c) ==
  /\ callerPc[c] = "step"
  /\ stepId' = asks[c][2]
  /\ At(c, "ext")
  /\ UNCHANGED <<state, data, dataLock, extId, spiResult, extLock, pc, run,
                 hub, asks, called, verdict, history>>

HalRequest(c) ==
  /\ callerPc[c] \in {"ext", "spi"}
  /\ SetWorkState("EXT_CB")
  /\ owed' = asks[c]
  /\ Asks(c, "nothing", 0)
  /\ IF callerPc[c] = "spi" THEN At(c, "wait") /\ extLock' = Free
                            ELSE At(c, "out") /\ UNCHANGED extLock
  /\ UNCHANGED <<data, dataLock, extId, stepId, spiResult, pc, run, hub,
                 called, verdict, credit, passed>>

\* The wait is over: signalled, after one second or for no reason.
SpiReturn(c) ==
  /\ callerPc[c] = "wait" /\ extLock = Free
  /\ verdict' = [verdict EXCEPT ![c] = (spiResult = 1)]
  /\ At(c, "out")
  /\ UNCHANGED <<state, data, dataLock, ext, pc, run, hub, asks, called, history>>

\* silfp_ext_stop, once the worker and the hub thread have been joined.
Stop(c) ==
  /\ callerPc[c] = "join" /\ pc = "done" /\ hubPc = "ready"
  /\ data' = [data EXCEPT !.cap = 0]
  /\ pc' = "stopped" /\ At(c, "out")
  /\ UNCHANGED <<state, dataLock, ext, run, hub, asks, called, verdict, history>>

\* silfp_finger_init; what silead_ext_cb.c keeps is static.
Start ==
  /\ pc = "stopped"
  /\ workerState' = "IDLE" /\ workCancel' = FALSE /\ signaled' = FALSE
  /\ data' = [NoData EXCEPT !.n = sent]
  /\ credit' = 0
  /\ pc' = "top"
  /\ UNCHANGED <<dataLock, ext, run, hub, hal, owed, passed>>
-----------------------------------------------------------------------------
(***************************************************************************)
(* The worker: the command loop                                            *)
(***************************************************************************)
Top ==
  /\ pc = "top"
  /\ CASE workerState = "EXIT" -> Goto("done") /\ UNCHANGED <<workCancel, signaled>>
       [] workerState \in {"IDLE", "WAIT"} ->
            Goto("parked") /\ signaled' = FALSE /\ UNCHANGED workCancel
       [] OTHER -> Goto("read") /\ workCancel' = FALSE /\ UNCHANGED signaled
  /\ UNCHANGED <<workerState, data, dataLock, ext, run, hub, hal, history>>

Wake ==
  /\ pc = "parked" /\ signaled
  /\ workCancel' = FALSE
  /\ Goto("read")
  /\ UNCHANGED <<workerState, signaled, data, dataLock, ext, run, hub, hal, history>>

Read ==
  /\ pc = "read"
  /\ Goto(CASE workerState = "TEST" -> "verify"
            [] workerState = "EXT_CB" -> "dispatch"
            [] OTHER -> "top")
  /\ UNCHANGED <<state, data, dataLock, ext, run, hub, hal, history>>
-----------------------------------------------------------------------------
(***************************************************************************)
(* The worker: silfp_ext_request_commond                                   *)
(***************************************************************************)
\* silfp_test_data_verify: the data starts with the four bytes "slfp".
Verified == data.cap > 0 /\ data.len >= 4 /\ data.req.magic

\* A refused command is answered, and the lock is kept for what follows.
Verify ==
  /\ pc = "verify" /\ dataLock = Free
  /\ IF Verified
       THEN /\ Goto("verified")
            /\ run' = [id |-> data.req.id, n |-> data.n]
            /\ data' = [data EXCEPT !.off = 4]
            /\ UNCHANGED <<dataLock, owed>>
       ELSE /\ Goto("refused")
            /\ dataLock' = "worker"
            /\ owed' = IF owed = Command THEN Nothing ELSE owed
            /\ UNCHANGED <<data, run>>
  /\ UNCHANGED <<state, ext, hub, hal, credit, passed>>

Refused ==
  /\ pc = "refused"
  /\ IF workCancel THEN Goto("top") /\ dataLock' = Free
                   ELSE Goto("refuse") /\ UNCHANGED dataLock
  /\ UNCHANGED <<state, data, ext, run, hub, hal, history>>

Refuse ==
  /\ pc = "refuse"
  /\ SetNoSignal("IDLE")
  /\ dataLock' = Free
  /\ Goto("top")
  /\ UNCHANGED <<data, ext, run, hub, hal, credit, passed>>

\* Fault: a request that arrived meanwhile is not looked for.
Dispatch_Blind ==
  /\ pc = "verified" /\ Goto("run") /\ credit' = credit - 1
  /\ UNCHANGED <<state, data, dataLock, ext, run, hub, hal, owed, passed>>

\* silfp_finger_is_canceled: the flag is looked at without a lock.
Dispatch ==
  /\ pc = "verified"
  /\ IF workCancel THEN Goto("top") /\ run' = NoRun /\ UNCHANGED credit
                   ELSE Goto("run") /\ credit' = credit - 1 /\ UNCHANGED run
  /\ UNCHANGED <<state, data, dataLock, ext, hub, hal, owed, passed>>

\* Version, chip id, reset, dead pixels, end of the test, calibration, and
\* whatever is not known: one answer, also when it fails.
Info ==
  /\ pc = "run" /\ run.id \in {"info", "clear"}
  /\ Answer
  /\ Goto("end")
  /\ UNCHANGED <<state, data, dataLock, ext, run, hub, hal, credit, passed>>

\* _ext_do_test_get_image without an image size or a buffer for the
\* image: the answer is an error, and the request stands as it does
\* for a command that loops.
CaptureFails ==
  /\ pc = "run" /\ run.id = "capture"
  /\ Answer
  /\ credit' = credit + 1
  /\ Goto("end")
  /\ UNCHANGED <<state, data, dataLock, ext, run, hub, hal, passed>>

LoopBegin ==
  /\ pc = "run" /\ run.id \in Looping
  /\ Goto("loop")
  /\ UNCHANGED <<state, data, dataLock, ext, run, hub, hal, history>>

\* One touch of a loop.  A wait that fails begins again without an answer.
Touch ==
  /\ pc = "loop"
  /\ Answer
  /\ UNCHANGED <<state, data, dataLock, ext, pc, run, hub, hal, credit, passed>>

LoopEnd ==
  /\ pc = "loop" /\ workCancel
  /\ Goto("end")
  /\ UNCHANGED <<state, data, dataLock, ext, run, hub, hal, history>>

\* _ext_do_test_frrfar_send_image: the lock is held over the command.
FrrFar ==
  /\ pc = "run" /\ run.id = "frrfar" /\ dataLock = Free
  /\ data' = [data EXCEPT !.off = @ + 4]
  /\ Answer
  /\ Goto("end")
  /\ UNCHANGED <<state, dataLock, ext, run, hub, hal, credit, passed>>

\* _ext_do_test_calibrate_step: its argument is read in a second section.
StepArgument ==
  /\ pc = "run" /\ run.id = "step" /\ dataLock = Free
  /\ Goto(IF data.len >= data.off + 1 THEN "stepRun" ELSE "stepAnswer")
  /\ UNCHANGED <<state, data, dataLock, ext, run, hub, hal, history>>

\* silfp_test_calibrate_step requests IDLE whatever has been asked meanwhile.
StepRun ==
  /\ pc = "stepRun"
  /\ SetNoSignal("IDLE")
  /\ Goto("stepAnswer")
  /\ UNCHANGED <<data, dataLock, ext, run, hub, hal, credit, passed>>

StepAnswer ==
  /\ pc = "stepAnswer"
  /\ Answer
  /\ Goto("end")
  /\ UNCHANGED <<state, data, dataLock, ext, run, hub, hal, credit, passed>>

End ==
  /\ pc = "end"
  /\ IF workCancel \/ run.id \in Looping
       THEN Goto("top") /\ run' = NoRun
       ELSE Goto("finish") /\ UNCHANGED run
  /\ UNCHANGED <<state, data, dataLock, ext, hub, hal, history>>

Finish ==
  /\ pc = "finish"
  /\ SetNoSignal(IF run.id \in Waiting THEN "WAIT" ELSE "IDLE")
  /\ Goto("top") /\ run' = NoRun
  /\ UNCHANGED <<data, dataLock, ext, hub, hal, credit, passed>>
-----------------------------------------------------------------------------
(***************************************************************************)
(* The worker: silfp_ext_cb_command                                        *)
(***************************************************************************)
ExtDispatch ==
  /\ pc = "dispatch"
  /\ Goto(extId)
  /\ UNCHANGED <<state, data, dataLock, ext, run, hub, hal, history>>

\* _ext_cb_spi_test: the verdict goes to whoever waits.
SpiTest ==
  /\ pc = "spi" /\ extLock = Free
  /\ \E r \in {0, 1} :
       /\ spiResult' = r
       /\ passed' = IF r = 1 THEN passed \cup {c \in Callers : callerPc[c] = "wait"}
                             ELSE passed
  /\ Serve(<<"spi", 0>>)
  /\ Goto("ext_end")
  /\ UNCHANGED <<state, data, dataLock, extId, stepId, extLock, run, hub, hal,
                 credit>>

\* The step is the one stepId names when the command comes to it.
CalibrateStep ==
  /\ pc = "calibrate"
  /\ Serve(<<"calibrate", stepId>>)
  /\ Goto("ext_end")
  /\ UNCHANGED <<state, data, dataLock, ext, run, hub, hal, credit, passed>>

Factory ==
  /\ pc = "factory"
  /\ Serve(<<"factory", 0>>)
  /\ Goto("ext_end")
  /\ UNCHANGED <<state, data, dataLock, ext, run, hub, hal, credit, passed>>

\* SPI, calibration and factory test end with IDLE, cancelled or not.
ExtEnd ==
  /\ pc = "ext_end"
  /\ SetNoSignal("IDLE")
  /\ Goto("top")
  /\ UNCHANGED <<data, dataLock, ext, run, hub, hal, credit, passed>>

\* _ext_cb_image_quality_get leaves its request standing until it is replaced.
Quality ==
  /\ pc = "quality"
  /\ Serve(<<"quality", 0>>)
  /\ Goto("top")
  /\ UNCHANGED <<state, data, dataLock, ext, run, hub, hal, credit, passed>>

\* _ext_cb_image_capture_loop: a notice per image, until it is cancelled.
Aging ==
  /\ pc = "aging"
  /\ Serve(<<"aging", 0>>)
  /\ Goto("agingEnd")
  /\ UNCHANGED <<state, data, dataLock, ext, run, hub, hal, credit, passed>>

AgingEnd ==
  /\ pc = "agingEnd" /\ workCancel
  /\ Goto("top")
  /\ UNCHANGED <<state, data, dataLock, ext, run, hub, hal, history>>
-----------------------------------------------------------------------------
Worker == \/ Top \/ Wake \/ Read
          \/ Verify \/ Refused \/ Refuse \/ Dispatch \/ Info \/ CaptureFails
          \/ LoopBegin \/ FrrFar \/ StepArgument \/ StepRun \/ StepAnswer
          \/ End \/ Finish \/ LoopEnd
          \/ ExtDispatch \/ SpiTest \/ CalibrateStep \/ Factory \/ ExtEnd
          \/ Quality \/ Aging \/ AgingEnd

Hal(c) == HalStep(c) \/ HalRequest(c) \/ SpiReturn(c) \/ Stop(c)

Init ==
  /\ workerState = "IDLE" /\ workCancel = FALSE /\ signaled = FALSE
  /\ data = NoData /\ dataLock = Free
  /\ extId = "spi" /\ stepId = 0 /\ spiResult = 0 /\ extLock = Free
  /\ pc = "top" /\ run = NoRun
  /\ hubPc = "ready" /\ sent = 0
  /\ callerPc = [c \in Callers |-> "out"]
  /\ asks = [c \in Callers |-> Nothing]
  /\ called = 0
  /\ owed = Nothing /\ credit = 0 /\ passed = {}
  /\ verdict = [c \in Callers |-> FALSE]

Next == \/ Worker \/ Touch
        \/ HubReceive \/ HubRequest
        \/ \E c \in Callers : HalCall(c) \/ Hal(c)
        \/ Start

\* The threads go on; a finger is presented to a command that waits for one.
Fairness ==
  /\ WF_vars(Worker) /\ WF_vars(Touch) /\ WF_vars(HubRequest)
  /\ \A c \in Callers : WF_vars(Hal(c))

Spec == Init /\ [][Next]_vars /\ Fairness
-----------------------------------------------------------------------------
\* Every variable keeps its type; a position of the worker is one of the
\* command loop, of a test command or of a command of the HAL.
TypeOK ==
  /\ workerState \in {"IDLE", "WAIT", "TEST", "EXT_CB", "EXIT"}
  /\ workCancel \in BOOLEAN /\ signaled \in BOOLEAN
  /\ data \in [req : Requests \cup {NoRequest}, n : Nat, len : Nat, cap : Nat, off : Nat]
  /\ dataLock \in {Free, "worker"} /\ extLock \in Callers \cup {Free}
  /\ extId \in HalCalls \ {"cancel", "deinit"} /\ stepId \in {0} \cup Steps /\ spiResult \in {0, 1}
  /\ pc \in {"top", "parked", "read", "done", "stopped", "dispatch", "ext_end", "agingEnd"}
            \cup {"verify", "verified", "refused", "refuse"}
            \cup (HalCalls \ {"cancel", "deinit"})
            \cup {"run", "loop", "stepRun", "stepAnswer", "end", "finish"}
  /\ run \in [id : Ids, n : Nat]
  /\ hubPc \in {"ready", "request"} /\ sent \in 0 .. MaxRequests /\ called \in 0 .. MaxCalls
  /\ callerPc \in [Callers -> {"out", "ext", "spi", "step", "wait", "join"}]
  /\ asks \in [Callers -> (HalCalls \cup {"nothing"}) \X (0 .. 2)]
  /\ owed \in (HalCalls \cup {"nothing", "command"}) \X (0 .. 2)
  /\ credit \in Int /\ passed \subseteq Callers /\ verdict \in [Callers -> BOOLEAN]

\* The bytes the worker may look at lie in the block it looks at, whatever
\* the order of lengths and of failed allocations: req_len is kept below the
\* size of the block although it shrinks with every shorter command.
BufferHolds == data.len <= data.cap \/ pc = "stopped"

\* A test command is not run more often than test commands were requested:
\* the commands that end lower the request, those that loop run until the
\* next, and a request that arrives while one is read is served once.  (The
\* image capture that finds no buffer is the exception the code makes.)
RunsRequested == credit >= 0

\* A self-test is reported as passed only when one has passed since the call
\* began: the answer to a call that timed out is not taken for the next one
\* after the next has begun waiting, unless it arrives then.
SpiPassIsFresh == \A c \in Callers : verdict[c] => c \in passed

\* What was requested last is served, the test command answered and the HAL's
\* step run as it was asked for, unless another request takes its place or
\* the end of the command before it writes IDLE over it.
NewestServed == owed # Nothing ~> owed = Nothing
=============================================================================
