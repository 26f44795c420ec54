--------------------------- MODULE TestCmd_proofs ---------------------------
(***************************************************************************)
(* Proofs about the test application's two parts.                          *)
(*                                                                         *)
(* TestCmd: the types, the block of the command's data, the count of the   *)
(* commands, and the verdict of the self-test.                             *)
(*                                                                         *)
(* TestImage: the types, the pixels of an image on their way through the   *)
(* files and back to the TA, and the one answer to each image.             *)
(***************************************************************************)
EXTENDS TestCmd, TestImage, WellFoundedInduction, TLAPS

\* The worker is in a test command that it has taken from the requests.
InCommand == {"run", "loop", "stepRun", "stepAnswer", "end", "finish"}

\* It looks at a command it may still refuse.
Checking == {"verify", "verified", "refused", "refuse"}

\* A request for a test command that stands has not been counted as run.
CreditOK ==
  /\ credit >= 0
  /\ workerState = "TEST" /\ (workCancel \/ pc \notin InCommand) => credit > 0
  /\ pc \in Checking /\ ~ workCancel => workerState = "TEST"
  /\ pc = "end" /\ run.id \in Looping => workCancel \/ credit > 0
  /\ pc = "loop" => run.id \in Looping
  /\ pc \in {"stepRun", "stepAnswer"} => run.id = "step"

\* A verdict that stands was reached while those who wait for it were waiting.
VerdictOK ==
  /\ \A c \in Callers : callerPc[c] = "spi" => extLock = c /\ spiResult = 0
  /\ \A c \in Callers : callerPc[c] = "wait" /\ spiResult = 1 => c \in passed
  /\ SpiPassIsFresh

IInv == TypeOK /\ BufferHolds /\ CreditOK /\ VerdictOK
-----------------------------------------------------------------------------
\* Every step keeps the types.
LEMMA TypeStep == IInv /\ [Next]_vars => TypeOK'
<1> SUFFICES ASSUME IInv, [Next]_vars PROVE TypeOK'
  OBVIOUS
<1>1. TypeOK /\ TestConstants
  BY TestConstants DEF IInv
<1> USE DEF TestConstants
<1>2. CASE Top
  <2>1. pc' \in {"done", "parked", "read"}
    BY <1>2 DEF Top, Goto
  <2>2. workCancel' \in BOOLEAN /\ signaled' \in BOOLEAN
    BY <1>1, <1>2 DEF Top, TypeOK
  <2>3. UNCHANGED <<workerState, data, dataLock, ext, run, hub, hal, history>>
    BY <1>2 DEF Top
  <2> QED BY <1>1, <2>1, <2>2, <2>3 DEF ext, hal, hub, history, TypeOK
<1>3. CASE Wake
  BY <1>1, <1>3 DEF Wake, Goto, ext, hal, hub, history, TypeOK
<1>4. CASE Read
  BY <1>1, <1>4 DEF Read, Goto, state, ext, hal, hub, history, TypeOK, HalCalls, Ids, Steps,
     Nothing, Command, NoRequest, NoRun, NoData
<1>5. CASE Verify
  BY <1>1, <1>5 DEF Verify, Goto, Verified, state, ext, hal, hub, TypeOK, HalCalls, Ids, Steps,
     Nothing, Command, NoRequest, NoRun, NoData
<1>6. CASE Refused
  BY <1>1, <1>6 DEF Refused, Goto, state, ext, hal, hub, history, TypeOK, HalCalls, Ids, Steps,
     Nothing, Command, NoRequest, NoRun, NoData
<1>7. CASE Refuse
  BY <1>1, <1>7 DEF Refuse, SetNoSignal, Goto, ext, hal, hub, TypeOK, HalCalls, Ids, Steps,
     Nothing, Command, NoRequest, NoRun, NoData
<1>8. CASE Dispatch
  BY <1>1, <1>8 DEF Dispatch, Goto, state, ext, hal, hub, TypeOK, HalCalls, Ids, Steps,
     Nothing, Command, NoRequest, NoRun, NoData
<1>9. CASE Info
  BY <1>1, <1>9 DEF Info, Answer, Goto, state, ext, hal, hub, TypeOK, HalCalls, Ids, Steps,
     Nothing, Command, NoRequest, NoRun, NoData
<1>10. CASE CaptureFails
  BY <1>1, <1>10 DEF CaptureFails, Answer, Goto, state, ext, hal, hub, TypeOK, HalCalls, Ids,
     Steps, Nothing, Command, NoRequest, NoRun, NoData
<1>11. CASE LoopBegin
  BY <1>1, <1>11 DEF LoopBegin, Goto, state, ext, hal, hub, history, TypeOK, HalCalls, Ids,
     Steps, Nothing, Command, NoRequest, NoRun, NoData
<1>12. CASE FrrFar
  <2>1. ASSUME NEW R, NEW d \in [req : R, n : Nat, len : Nat, cap : Nat, off : Nat]
        PROVE  [d EXCEPT !.off = @ + 4] \in [req : R, n : Nat, len : Nat, cap : Nat, off : Nat]
    OBVIOUS
  <2>2. data' \in [req : Requests \cup {NoRequest}, n : Nat, len : Nat, cap : Nat, off : Nat]
    <3>1. data' = [data EXCEPT !.off = @ + 4]
      BY <1>12 DEF FrrFar
    <3>2. data \in [req : Requests \cup {NoRequest}, n : Nat, len : Nat, cap : Nat, off : Nat]
      BY <1>1 DEF TypeOK
    <3> QED BY <2>1, <3>1, <3>2
  <2> QED BY <1>1, <1>12, <2>2 DEF FrrFar, Answer, Goto, state, ext, hal, hub, TypeOK, Nothing
<1>13. CASE StepArgument
  BY <1>1, <1>13 DEF StepArgument, Goto, state, ext, hal, hub, history, TypeOK, HalCalls, Ids,
     Steps, Nothing, Command, NoRequest, NoRun, NoData
<1>14. CASE StepRun
  BY <1>1, <1>14 DEF StepRun, SetNoSignal, Goto, ext, hal, hub, TypeOK, HalCalls, Ids, Steps,
     Nothing, Command, NoRequest, NoRun, NoData
<1>15. CASE StepAnswer
  BY <1>1, <1>15 DEF StepAnswer, Answer, Goto, state, ext, hal, hub, TypeOK, HalCalls, Ids,
     Steps, Nothing, Command, NoRequest, NoRun, NoData
<1>16. CASE End
  BY <1>1, <1>16 DEF End, Goto, state, ext, hal, hub, history, TypeOK, HalCalls, Ids, Steps,
     Nothing, Command, NoRequest, NoRun, NoData
<1>17. CASE Finish
  BY <1>1, <1>17 DEF Finish, SetNoSignal, Goto, ext, hal, hub, TypeOK, HalCalls, Ids, Steps,
     Nothing, Command, NoRequest, NoRun, NoData
<1>18. CASE LoopEnd
  BY <1>1, <1>18 DEF LoopEnd, Goto, state, ext, hal, hub, history, TypeOK, HalCalls, Ids,
     Steps, Nothing, Command, NoRequest, NoRun, NoData
<1>19. CASE ExtDispatch
  BY <1>1, <1>19 DEF ExtDispatch, Goto, state, ext, hal, hub, history, TypeOK, HalCalls, Ids,
     Steps, Nothing, Command, NoRequest, NoRun, NoData
<1>20. CASE SpiTest
  BY <1>1, <1>20 DEF SpiTest, Serve, Goto, state, hal, hub, TypeOK, HalCalls, Ids, Steps,
     Nothing, Command, NoRequest, NoRun, NoData
<1>21. CASE CalibrateStep
  BY <1>1, <1>21 DEF CalibrateStep, Serve, Goto, state, ext, hal, hub, TypeOK, HalCalls, Ids,
     Steps, Nothing, Command, NoRequest, NoRun, NoData
<1>22. CASE Factory
  BY <1>1, <1>22 DEF Factory, Serve, Goto, state, ext, hal, hub, TypeOK, HalCalls, Ids, Steps,
     Nothing, Command, NoRequest, NoRun, NoData
<1>23. CASE ExtEnd
  BY <1>1, <1>23 DEF ExtEnd, SetNoSignal, Goto, ext, hal, hub, TypeOK, HalCalls, Ids, Steps,
     Nothing, Command, NoRequest, NoRun, NoData
<1>24. CASE Quality
  BY <1>1, <1>24 DEF Quality, Serve, Goto, state, ext, hal, hub, TypeOK, HalCalls, Ids, Steps,
     Nothing, Command, NoRequest, NoRun, NoData
<1>25. CASE Aging
  BY <1>1, <1>25 DEF Aging, Serve, Goto, state, ext, hal, hub, TypeOK, HalCalls, Ids, Steps,
     Nothing, Command, NoRequest, NoRun, NoData
<1>26. CASE AgingEnd
  BY <1>1, <1>26 DEF AgingEnd, Goto, state, ext, hal, hub, history, TypeOK, HalCalls, Ids,
     Steps, Nothing, Command, NoRequest, NoRun, NoData
<1>27. CASE Touch
  BY <1>1, <1>27 DEF Touch, Answer, state, ext, hal, hub, TypeOK, HalCalls, Ids, Steps,
     Nothing, Command, NoRequest, NoRun, NoData
<1>28. CASE HubReceive
  BY <1>1, <1>28 DEF HubReceive, HubOther, HubStore, Kept, state, ext, hal, TypeOK, HalCalls,
     Ids, Steps, Nothing, Command, NoRequest, NoRun, NoData
<1>29. CASE HubRequest
  BY <1>1, <1>29 DEF HubRequest, SetWorkState, ext, hal, TypeOK, HalCalls, Ids, Steps, Nothing,
     Command, NoRequest, NoRun, NoData
<1>30. CASE Start
  <2>1. sent \in Nat
    BY <1>1 DEF TypeOK
  <2>2. data' = [req |-> NoRequest, n |-> sent, len |-> 0, cap |-> 0, off |-> 0]
    BY <1>30 DEF Start, NoData
  <2>3. data' \in [req : Requests \cup {NoRequest}, n : Nat, len : Nat, cap : Nat, off : Nat]
    BY <2>1, <2>2
  <2>4. workerState' = "IDLE" /\ workCancel' \in BOOLEAN /\ signaled' \in BOOLEAN /\ pc' = "top" /\ credit' = 0
        /\ UNCHANGED <<dataLock, ext, run, hub, hal, owed, passed>>
    BY <1>30 DEF Start
  <2> QED BY <1>1, <2>3, <2>4 DEF ext, hal, hub, TypeOK
<1>31. ASSUME NEW c \in Callers, CallSpi(c),
               callerPc[c] = "out" /\ pc # "stopped" /\ called < MaxCalls /\ called' = called + 1,
               UNCHANGED <<data, dataLock, pc, run, hub, credit>> PROVE TypeOK'
  BY <1>1, <1>31 DEF CallSpi, At, Asks, SpiBegin, state, TypeOK, HalCalls, Ids, Steps, Nothing,
     Command, NoRequest, NoRun, NoData, ext, hal, hub, history
<1>32. ASSUME NEW c \in Callers, NEW op \in {"quality", "aging", "factory"}, CallExt(c, op),
               callerPc[c] = "out" /\ pc # "stopped" /\ called < MaxCalls /\ called' = called + 1,
               UNCHANGED <<data, dataLock, pc, run, hub, credit>> PROVE TypeOK'
  BY <1>1, <1>32 DEF CallExt, At, Asks, state, ext, TypeOK, HalCalls, Ids, Steps, Nothing,
     Command, NoRequest, NoRun, NoData, hal, hub, history
<1>33. ASSUME NEW c \in Callers, CallCalibrate(c),
               callerPc[c] = "out" /\ pc # "stopped" /\ called < MaxCalls /\ called' = called + 1,
               UNCHANGED <<data, dataLock, pc, run, hub, credit>> PROVE TypeOK'
  BY <1>1, <1>33 DEF CallCalibrate, At, Asks, state, TypeOK, HalCalls, Ids, Steps, Nothing,
     Command, NoRequest, NoRun, NoData, ext, hal, hub, history
<1>34. ASSUME NEW c \in Callers, CallCancel,
               callerPc[c] = "out" /\ pc # "stopped" /\ called < MaxCalls /\ called' = called + 1,
               UNCHANGED <<data, dataLock, pc, run, hub, credit>> PROVE TypeOK'
  BY <1>1, <1>34 DEF CallCancel, SetWorkState, ext, TypeOK, HalCalls, Ids, Steps, Nothing,
     Command, NoRequest, NoRun, NoData, state, hal, hub, history
<1>35. ASSUME NEW c \in Callers, CallDeinit(c),
               callerPc[c] = "out" /\ pc # "stopped" /\ called < MaxCalls /\ called' = called + 1,
               UNCHANGED <<data, dataLock, pc, run, hub, credit>> PROVE TypeOK'
  BY <1>1, <1>35 DEF CallDeinit, SetWorkState, At, ext, TypeOK, HalCalls, Ids, Steps, Nothing,
     Command, NoRequest, NoRun, NoData, state, hal, hub, history
<1>36. ASSUME NEW c \in Callers, HalStep(c) PROVE TypeOK'
  BY <1>1, <1>36 DEF HalStep, At, state, ext, hub, history, TypeOK, HalCalls, Ids, Steps,
     Nothing, Command, NoRequest, NoRun, NoData
<1>37. ASSUME NEW c \in Callers, HalRequest(c) PROVE TypeOK'
  <2>1. workerState' \in {"IDLE", "WAIT", "TEST", "EXT_CB", "EXIT"} /\ workCancel' = TRUE
        /\ signaled' = (signaled \/ pc = "parked")
    BY <1>1, <1>37 DEF HalRequest, SetWorkState, TypeOK
  <2>2. owed' \in (HalCalls \cup {"nothing", "command"}) \X (0 .. 2)
    BY <1>1, <1>37 DEF HalRequest, TypeOK
  <2>3. asks' \in [Callers -> (HalCalls \cup {"nothing"}) \X (0 .. 2)]
    BY <1>1, <1>37 DEF HalRequest, Asks, TypeOK
  <2>4. callerPc' \in [Callers -> {"out", "ext", "spi", "step", "wait", "join"}]
        /\ extLock' \in Callers \cup {Free}
    BY <1>1, <1>37 DEF HalRequest, At, TypeOK
  <2>5. UNCHANGED <<data, dataLock, extId, stepId, spiResult, pc, run, hub, called, verdict, credit, passed>>
    BY <1>37 DEF HalRequest
  <2> QED BY <1>1, <2>1, <2>2, <2>3, <2>4, <2>5 DEF hub, TypeOK
<1>38. ASSUME NEW c \in Callers, SpiReturn(c) PROVE TypeOK'
  BY <1>1, <1>38 DEF SpiReturn, At, state, ext, hub, history, TypeOK, HalCalls, Ids, Steps,
     Nothing, Command, NoRequest, NoRun, NoData
<1>39. ASSUME NEW c \in Callers, Stop(c) PROVE TypeOK'
  <2>1. data' \in [req : Requests \cup {NoRequest}, n : Nat, len : Nat, cap : Nat, off : Nat]
    BY <1>1, <1>39 DEF Stop, TypeOK
  <2> QED BY <1>1, <1>39, <2>1 DEF Stop, At, state, ext, hub, history, TypeOK
<1>40. CASE UNCHANGED vars
  BY <1>1, <1>40 DEF vars, state, ext, hal, hub, history, TypeOK, HalCalls, Ids, Steps,
     Nothing, Command, NoRequest, NoRun, NoData
<1> QED
  BY <1>2, <1>3, <1>4, <1>5, <1>6, <1>7, <1>8, <1>9, <1>10, <1>11, <1>12, <1>13, <1>14, <1>15,
     <1>16, <1>17, <1>18, <1>19, <1>20, <1>21, <1>22, <1>23, <1>24, <1>25, <1>26, <1>27, <1>28,
     <1>29, <1>30, <1>31, <1>32, <1>33, <1>34, <1>35, <1>36, <1>37, <1>38, <1>39, <1>40
     DEF Next, Worker, Hal, HalCall

\* Every step keeps the length within the block.
LEMMA BufferStep == IInv /\ [Next]_vars => BufferHolds'
<1> SUFFICES ASSUME IInv, [Next]_vars PROVE BufferHolds'
  OBVIOUS
<1>1. /\ BufferHolds /\ data \in [req : Requests \cup {NoRequest}, n : Nat, len : Nat, cap : Nat, off : Nat]
  BY DEF IInv, TypeOK
<1>2. CASE Top
  BY <1>1, <1>2 DEF Top, Goto, ext, hal, hub, history, BufferHolds
<1>3. CASE Wake
  BY <1>1, <1>3 DEF Wake, Goto, ext, hal, hub, history, BufferHolds
<1>4. CASE Read
  BY <1>1, <1>4 DEF Read, Goto, state, ext, hal, hub, history, BufferHolds
<1>5. CASE Verify
  BY <1>1, <1>5 DEF Verify, Goto, Verified, state, ext, hal, hub, BufferHolds
<1>6. CASE Refused
  BY <1>1, <1>6 DEF Refused, Goto, state, ext, hal, hub, history, BufferHolds
<1>7. CASE Refuse
  BY <1>1, <1>7 DEF Refuse, SetNoSignal, Goto, ext, hal, hub, BufferHolds
<1>8. CASE Dispatch
  BY <1>1, <1>8 DEF Dispatch, Goto, state, ext, hal, hub, BufferHolds
<1>9. CASE Info
  BY <1>1, <1>9 DEF Info, Answer, Goto, state, ext, hal, hub, BufferHolds
<1>10. CASE CaptureFails
  BY <1>1, <1>10 DEF CaptureFails, Answer, Goto, state, ext, hal, hub, BufferHolds
<1>11. CASE LoopBegin
  BY <1>1, <1>11 DEF LoopBegin, Goto, state, ext, hal, hub, history, BufferHolds
<1>12. CASE FrrFar
  BY <1>1, <1>12 DEF FrrFar, Answer, Goto, state, ext, hal, hub, BufferHolds
<1>13. CASE StepArgument
  BY <1>1, <1>13 DEF StepArgument, Goto, state, ext, hal, hub, history, BufferHolds
<1>14. CASE StepRun
  BY <1>1, <1>14 DEF StepRun, SetNoSignal, Goto, ext, hal, hub, BufferHolds
<1>15. CASE StepAnswer
  BY <1>1, <1>15 DEF StepAnswer, Answer, Goto, state, ext, hal, hub, BufferHolds
<1>16. CASE End
  BY <1>1, <1>16 DEF End, Goto, state, ext, hal, hub, history, BufferHolds
<1>17. CASE Finish
  BY <1>1, <1>17 DEF Finish, SetNoSignal, Goto, ext, hal, hub, BufferHolds
<1>18. CASE LoopEnd
  BY <1>1, <1>18 DEF LoopEnd, Goto, state, ext, hal, hub, history, BufferHolds
<1>19. CASE ExtDispatch
  BY <1>1, <1>19 DEF ExtDispatch, Goto, state, ext, hal, hub, history, BufferHolds
<1>20. CASE SpiTest
  BY <1>1, <1>20 DEF SpiTest, Serve, Goto, state, hal, hub, BufferHolds
<1>21. CASE CalibrateStep
  BY <1>1, <1>21 DEF CalibrateStep, Serve, Goto, state, ext, hal, hub, BufferHolds
<1>22. CASE Factory
  BY <1>1, <1>22 DEF Factory, Serve, Goto, state, ext, hal, hub, BufferHolds
<1>23. CASE ExtEnd
  BY <1>1, <1>23 DEF ExtEnd, SetNoSignal, Goto, ext, hal, hub, BufferHolds
<1>24. CASE Quality
  BY <1>1, <1>24 DEF Quality, Serve, Goto, state, ext, hal, hub, BufferHolds
<1>25. CASE Aging
  BY <1>1, <1>25 DEF Aging, Serve, Goto, state, ext, hal, hub, BufferHolds
<1>26. CASE AgingEnd
  BY <1>1, <1>26 DEF AgingEnd, Goto, state, ext, hal, hub, history, BufferHolds
<1>27. CASE Touch
  BY <1>1, <1>27 DEF Touch, Answer, state, ext, hal, hub, BufferHolds
<1>28. CASE HubReceive
  <2>1. PICK r \in Requests, allocated \in BOOLEAN : HubOther(r) \/ HubStore(r, allocated)
    BY <1>28 DEF HubReceive
  <2>2. r.len \in Int /\ pc # "stopped" /\ pc' = pc
    BY <1>28, TestConstants DEF HubReceive
  <2> QED BY <1>1, <2>1, <2>2 DEF HubOther, HubStore, Kept, BufferHolds
<1>29. CASE HubRequest
  BY <1>1, <1>29 DEF HubRequest, SetWorkState, ext, hal, BufferHolds
<1>30. CASE Start
  BY <1>30 DEF Start, NoData, BufferHolds
<1>31. ASSUME NEW c \in Callers, CallSpi(c),
               callerPc[c] = "out" /\ pc # "stopped" /\ called < MaxCalls /\ called' = called + 1,
               UNCHANGED <<data, dataLock, pc, run, hub, credit>> PROVE BufferHolds'
  BY <1>1, <1>31 DEF CallSpi, At, Asks, SpiBegin, state, BufferHolds, ext, hal, hub, history
<1>32. ASSUME NEW c \in Callers, NEW op \in {"quality", "aging", "factory"}, CallExt(c, op),
               callerPc[c] = "out" /\ pc # "stopped" /\ called < MaxCalls /\ called' = called + 1,
               UNCHANGED <<data, dataLock, pc, run, hub, credit>> PROVE BufferHolds'
  BY <1>1, <1>32 DEF CallExt, At, Asks, state, ext, BufferHolds, hal, hub, history
<1>33. ASSUME NEW c \in Callers, CallCalibrate(c),
               callerPc[c] = "out" /\ pc # "stopped" /\ called < MaxCalls /\ called' = called + 1,
               UNCHANGED <<data, dataLock, pc, run, hub, credit>> PROVE BufferHolds'
  BY <1>1, <1>33 DEF CallCalibrate, At, Asks, state, BufferHolds, ext, hal, hub, history
<1>34. ASSUME NEW c \in Callers, CallCancel,
               callerPc[c] = "out" /\ pc # "stopped" /\ called < MaxCalls /\ called' = called + 1,
               UNCHANGED <<data, dataLock, pc, run, hub, credit>> PROVE BufferHolds'
  BY <1>1, <1>34 DEF CallCancel, SetWorkState, ext, BufferHolds, state, hal, hub, history
<1>35. ASSUME NEW c \in Callers, CallDeinit(c),
               callerPc[c] = "out" /\ pc # "stopped" /\ called < MaxCalls /\ called' = called + 1,
               UNCHANGED <<data, dataLock, pc, run, hub, credit>> PROVE BufferHolds'
  BY <1>1, <1>35 DEF CallDeinit, SetWorkState, At, ext, BufferHolds, state, hal, hub, history
<1>36. ASSUME NEW c \in Callers, HalStep(c) PROVE BufferHolds'
  BY <1>1, <1>36 DEF HalStep, At, state, ext, hub, history, BufferHolds
<1>37. ASSUME NEW c \in Callers, HalRequest(c) PROVE BufferHolds'
  BY <1>1, <1>37 DEF HalRequest, SetWorkState, At, Asks, ext, hub, BufferHolds
<1>38. ASSUME NEW c \in Callers, SpiReturn(c) PROVE BufferHolds'
  BY <1>1, <1>38 DEF SpiReturn, At, state, ext, hub, history, BufferHolds
<1>39. ASSUME NEW c \in Callers, Stop(c) PROVE BufferHolds'
  BY <1>1, <1>39 DEF Stop, At, state, ext, hub, history, BufferHolds
<1>40. CASE UNCHANGED vars
  BY <1>1, <1>40 DEF vars, state, ext, hal, hub, history, BufferHolds
<1> QED
  BY <1>2, <1>3, <1>4, <1>5, <1>6, <1>7, <1>8, <1>9, <1>10, <1>11, <1>12, <1>13, <1>14, <1>15,
     <1>16, <1>17, <1>18, <1>19, <1>20, <1>21, <1>22, <1>23, <1>24, <1>25, <1>26, <1>27, <1>28,
     <1>29, <1>30, <1>31, <1>32, <1>33, <1>34, <1>35, <1>36, <1>37, <1>38, <1>39, <1>40
     DEF Next, Worker, Hal, HalCall

\* Every step keeps the count.
LEMMA CreditStep == IInv /\ [Next]_vars => CreditOK'
<1> SUFFICES ASSUME IInv, [Next]_vars PROVE CreditOK'
  OBVIOUS
<1>1. CreditOK /\ credit \in Int /\ workCancel \in BOOLEAN
      /\ extId \in HalCalls
  BY DEF IInv, TypeOK
<1>2. CASE Top
  BY <1>1, <1>2 DEF Top, Goto, ext, hal, hub, history, CreditOK, InCommand, Checking
<1>3. CASE Wake
  BY <1>1, <1>3 DEF Wake, Goto, ext, hal, hub, history, CreditOK, InCommand, Checking
<1>4. CASE Read
  BY <1>1, <1>4 DEF Read, Goto, state, ext, hal, hub, history, CreditOK, InCommand, Checking
<1>5. CASE Verify
  BY <1>1, <1>5 DEF Verify, Goto, Verified, state, ext, hal, hub, CreditOK, InCommand, Checking
<1>6. CASE Refused
  BY <1>1, <1>6 DEF Refused, Goto, state, ext, hal, hub, history, CreditOK, InCommand, Checking
<1>7. CASE Refuse
  BY <1>1, <1>7 DEF Refuse, SetNoSignal, Goto, ext, hal, hub, CreditOK, InCommand, Checking
<1>8. CASE Dispatch
  BY <1>1, <1>8 DEF Dispatch, Goto, state, ext, hal, hub, CreditOK, InCommand, Checking
<1>9. CASE Info
  BY <1>1, <1>9 DEF Info, Answer, Goto, state, ext, hal, hub, Looping, CreditOK, InCommand,
     Checking
<1>10. CASE CaptureFails
  BY <1>1, <1>10 DEF CaptureFails, Answer, Goto, state, ext, hal, hub, CreditOK, InCommand,
     Checking
<1>11. CASE LoopBegin
  BY <1>1, <1>11 DEF LoopBegin, Goto, state, ext, hal, hub, history, CreditOK, InCommand,
     Checking
<1>12. CASE FrrFar
  BY <1>1, <1>12 DEF FrrFar, Answer, Goto, state, ext, hal, hub, Looping, CreditOK, InCommand,
     Checking
<1>13. CASE StepArgument
  BY <1>1, <1>13 DEF StepArgument, Goto, state, ext, hal, hub, history, CreditOK, InCommand,
     Checking
<1>14. CASE StepRun
  BY <1>1, <1>14 DEF StepRun, SetNoSignal, Goto, ext, hal, hub, CreditOK, InCommand, Checking
<1>15. CASE StepAnswer
  BY <1>1, <1>15 DEF StepAnswer, Answer, Goto, state, ext, hal, hub, Looping, CreditOK,
     InCommand, Checking
<1>16. CASE End
  BY <1>1, <1>16 DEF End, Goto, state, ext, hal, hub, history, CreditOK, InCommand, Checking
<1>17. CASE Finish
  BY <1>1, <1>17 DEF Finish, SetNoSignal, Goto, ext, hal, hub, CreditOK, InCommand, Checking
<1>18. CASE LoopEnd
  BY <1>1, <1>18 DEF LoopEnd, Goto, state, ext, hal, hub, history, CreditOK, InCommand, Checking
<1>19. CASE ExtDispatch
  BY <1>1, <1>19 DEF ExtDispatch, Goto, state, history, HalCalls, CreditOK, InCommand, Checking
<1>20. CASE SpiTest
  BY <1>1, <1>20 DEF SpiTest, Serve, Goto, state, hal, hub, CreditOK, InCommand, Checking
<1>21. CASE CalibrateStep
  BY <1>1, <1>21 DEF CalibrateStep, Serve, Goto, state, ext, hal, hub, CreditOK, InCommand,
     Checking
<1>22. CASE Factory
  BY <1>1, <1>22 DEF Factory, Serve, Goto, state, ext, hal, hub, CreditOK, InCommand, Checking
<1>23. CASE ExtEnd
  BY <1>1, <1>23 DEF ExtEnd, SetNoSignal, Goto, ext, hal, hub, CreditOK, InCommand, Checking
<1>24. CASE Quality
  BY <1>1, <1>24 DEF Quality, Serve, Goto, state, ext, hal, hub, CreditOK, InCommand, Checking
<1>25. CASE Aging
  BY <1>1, <1>25 DEF Aging, Serve, Goto, state, ext, hal, hub, CreditOK, InCommand, Checking
<1>26. CASE AgingEnd
  BY <1>1, <1>26 DEF AgingEnd, Goto, state, ext, hal, hub, history, CreditOK, InCommand,
     Checking
<1>27. CASE Touch
  BY <1>1, <1>27 DEF Touch, Answer, state, ext, hal, hub, CreditOK, InCommand, Checking
<1>28. CASE HubReceive
  BY <1>1, <1>28 DEF HubReceive, HubOther, HubStore, Kept, state, ext, hal, CreditOK,
     InCommand, Checking
<1>29. CASE HubRequest
  BY <1>1, <1>29 DEF HubRequest, SetWorkState, ext, hal, CreditOK, InCommand, Checking
<1>30. CASE Start
  BY <1>1, <1>30 DEF Start, ext, hal, hub, CreditOK, InCommand, Checking
<1>31. ASSUME NEW c \in Callers, CallSpi(c),
               callerPc[c] = "out" /\ pc # "stopped" /\ called < MaxCalls /\ called' = called + 1,
               UNCHANGED <<data, dataLock, pc, run, hub, credit>> PROVE CreditOK'
  BY <1>1, <1>31 DEF CallSpi, At, Asks, SpiBegin, state, CreditOK, InCommand, Checking, ext,
     hal, hub, history
<1>32. ASSUME NEW c \in Callers, NEW op \in {"quality", "aging", "factory"}, CallExt(c, op),
               callerPc[c] = "out" /\ pc # "stopped" /\ called < MaxCalls /\ called' = called + 1,
               UNCHANGED <<data, dataLock, pc, run, hub, credit>> PROVE CreditOK'
  BY <1>1, <1>32 DEF CallExt, At, Asks, state, ext, CreditOK, InCommand, Checking, hal, hub,
     history
<1>33. ASSUME NEW c \in Callers, CallCalibrate(c),
               callerPc[c] = "out" /\ pc # "stopped" /\ called < MaxCalls /\ called' = called + 1,
               UNCHANGED <<data, dataLock, pc, run, hub, credit>> PROVE CreditOK'
  BY <1>1, <1>33 DEF CallCalibrate, At, Asks, state, CreditOK, InCommand, Checking, ext, hal,
     hub, history
<1>34. ASSUME NEW c \in Callers, CallCancel,
               callerPc[c] = "out" /\ pc # "stopped" /\ called < MaxCalls /\ called' = called + 1,
               UNCHANGED <<data, dataLock, pc, run, hub, credit>> PROVE CreditOK'
  BY <1>1, <1>34 DEF CallCancel, SetWorkState, ext, CreditOK, InCommand, Checking, state, hal,
     hub, history
<1>35. ASSUME NEW c \in Callers, CallDeinit(c),
               callerPc[c] = "out" /\ pc # "stopped" /\ called < MaxCalls /\ called' = called + 1,
               UNCHANGED <<data, dataLock, pc, run, hub, credit>> PROVE CreditOK'
  BY <1>1, <1>35 DEF CallDeinit, SetWorkState, At, ext, CreditOK, InCommand, Checking, state,
     hal, hub, history
<1>36. ASSUME NEW c \in Callers, HalStep(c) PROVE CreditOK'
  BY <1>1, <1>36 DEF HalStep, At, state, ext, hub, history, CreditOK, InCommand, Checking
<1>37. ASSUME NEW c \in Callers, HalRequest(c) PROVE CreditOK'
  BY <1>1, <1>37 DEF HalRequest, SetWorkState, At, Asks, ext, hub, CreditOK, InCommand, Checking
<1>38. ASSUME NEW c \in Callers, SpiReturn(c) PROVE CreditOK'
  BY <1>1, <1>38 DEF SpiReturn, At, state, ext, hub, history, CreditOK, InCommand, Checking
<1>39. ASSUME NEW c \in Callers, Stop(c) PROVE CreditOK'
  BY <1>1, <1>39 DEF Stop, At, state, ext, hub, history, CreditOK, InCommand, Checking
<1>40. CASE UNCHANGED vars
  BY <1>1, <1>40 DEF vars, state, ext, hal, hub, history, CreditOK, InCommand, Checking
<1> QED
  BY <1>2, <1>3, <1>4, <1>5, <1>6, <1>7, <1>8, <1>9, <1>10, <1>11, <1>12, <1>13, <1>14, <1>15,
     <1>16, <1>17, <1>18, <1>19, <1>20, <1>21, <1>22, <1>23, <1>24, <1>25, <1>26, <1>27, <1>28,
     <1>29, <1>30, <1>31, <1>32, <1>33, <1>34, <1>35, <1>36, <1>37, <1>38, <1>39, <1>40
     DEF Next, Worker, Hal, HalCall

\* Every step keeps what a verdict stands for.
LEMMA VerdictStep == IInv /\ [Next]_vars => VerdictOK'
<1> SUFFICES ASSUME IInv, [Next]_vars PROVE VerdictOK'
  OBVIOUS
<1>1. /\ VerdictOK /\ spiResult \in {0, 1} /\ Free \notin Callers /\ passed \subseteq Callers
      /\ callerPc \in [Callers -> {"out", "ext", "spi", "step", "wait", "join"}]
      /\ verdict \in [Callers -> BOOLEAN]
  BY TestConstants DEF IInv, TypeOK
<1>2. CASE Top
  BY <1>1, <1>2 DEF Top, Goto, ext, hal, hub, history, VerdictOK, SpiPassIsFresh
<1>3. CASE Wake
  BY <1>1, <1>3 DEF Wake, Goto, ext, hal, hub, history, VerdictOK, SpiPassIsFresh
<1>4. CASE Read
  BY <1>1, <1>4 DEF Read, Goto, state, ext, hal, hub, history, VerdictOK, SpiPassIsFresh
<1>5. CASE Verify
  BY <1>1, <1>5 DEF Verify, Goto, Verified, state, ext, hal, hub, VerdictOK, SpiPassIsFresh
<1>6. CASE Refused
  BY <1>1, <1>6 DEF Refused, Goto, state, ext, hal, hub, history, VerdictOK, SpiPassIsFresh
<1>7. CASE Refuse
  BY <1>1, <1>7 DEF Refuse, SetNoSignal, Goto, ext, hal, hub, VerdictOK, SpiPassIsFresh
<1>8. CASE Dispatch
  BY <1>1, <1>8 DEF Dispatch, Goto, state, ext, hal, hub, VerdictOK, SpiPassIsFresh
<1>9. CASE Info
  BY <1>1, <1>9 DEF Info, Answer, Goto, state, ext, hal, hub, VerdictOK, SpiPassIsFresh
<1>10. CASE CaptureFails
  BY <1>1, <1>10 DEF CaptureFails, Answer, Goto, state, ext, hal, hub, VerdictOK, SpiPassIsFresh
<1>11. CASE LoopBegin
  BY <1>1, <1>11 DEF LoopBegin, Goto, state, ext, hal, hub, history, VerdictOK, SpiPassIsFresh
<1>12. CASE FrrFar
  BY <1>1, <1>12 DEF FrrFar, Answer, Goto, state, ext, hal, hub, VerdictOK, SpiPassIsFresh
<1>13. CASE StepArgument
  BY <1>1, <1>13 DEF StepArgument, Goto, state, ext, hal, hub, history, VerdictOK,
     SpiPassIsFresh
<1>14. CASE StepRun
  BY <1>1, <1>14 DEF StepRun, SetNoSignal, Goto, ext, hal, hub, VerdictOK, SpiPassIsFresh
<1>15. CASE StepAnswer
  BY <1>1, <1>15 DEF StepAnswer, Answer, Goto, state, ext, hal, hub, VerdictOK, SpiPassIsFresh
<1>16. CASE End
  BY <1>1, <1>16 DEF End, Goto, state, ext, hal, hub, history, VerdictOK, SpiPassIsFresh
<1>17. CASE Finish
  BY <1>1, <1>17 DEF Finish, SetNoSignal, Goto, ext, hal, hub, VerdictOK, SpiPassIsFresh
<1>18. CASE LoopEnd
  BY <1>1, <1>18 DEF LoopEnd, Goto, state, ext, hal, hub, history, VerdictOK, SpiPassIsFresh
<1>19. CASE ExtDispatch
  BY <1>1, <1>19 DEF ExtDispatch, Goto, state, ext, hal, hub, history, VerdictOK, SpiPassIsFresh
<1>20. CASE SpiTest
  BY <1>1, <1>20 DEF SpiTest, Serve, Goto, state, hal, hub, VerdictOK, SpiPassIsFresh
<1>21. CASE CalibrateStep
  BY <1>1, <1>21 DEF CalibrateStep, Serve, Goto, state, ext, hal, hub, VerdictOK, SpiPassIsFresh
<1>22. CASE Factory
  BY <1>1, <1>22 DEF Factory, Serve, Goto, state, ext, hal, hub, VerdictOK, SpiPassIsFresh
<1>23. CASE ExtEnd
  BY <1>1, <1>23 DEF ExtEnd, SetNoSignal, Goto, ext, hal, hub, VerdictOK, SpiPassIsFresh
<1>24. CASE Quality
  BY <1>1, <1>24 DEF Quality, Serve, Goto, state, ext, hal, hub, VerdictOK, SpiPassIsFresh
<1>25. CASE Aging
  BY <1>1, <1>25 DEF Aging, Serve, Goto, state, ext, hal, hub, VerdictOK, SpiPassIsFresh
<1>26. CASE AgingEnd
  BY <1>1, <1>26 DEF AgingEnd, Goto, state, ext, hal, hub, history, VerdictOK, SpiPassIsFresh
<1>27. CASE Touch
  BY <1>1, <1>27 DEF Touch, Answer, state, ext, hal, hub, VerdictOK, SpiPassIsFresh
<1>28. CASE HubReceive
  BY <1>1, <1>28 DEF HubReceive, HubOther, HubStore, Kept, state, ext, hal, VerdictOK,
     SpiPassIsFresh
<1>29. CASE HubRequest
  BY <1>1, <1>29 DEF HubRequest, SetWorkState, ext, hal, VerdictOK, SpiPassIsFresh
<1>30. CASE Start
  BY <1>1, <1>30 DEF Start, ext, hal, hub, VerdictOK, SpiPassIsFresh
<1>31. ASSUME NEW c \in Callers, CallSpi(c),
               callerPc[c] = "out" /\ pc # "stopped" /\ called < MaxCalls /\ called' = called + 1,
               UNCHANGED <<data, dataLock, pc, run, hub, credit>> PROVE VerdictOK'
  BY <1>1, <1>31 DEF CallSpi, At, Asks, SpiBegin, state, VerdictOK, SpiPassIsFresh, ext, hal,
     hub, history
<1>32. ASSUME NEW c \in Callers, NEW op \in {"quality", "aging", "factory"}, CallExt(c, op),
               callerPc[c] = "out" /\ pc # "stopped" /\ called < MaxCalls /\ called' = called + 1,
               UNCHANGED <<data, dataLock, pc, run, hub, credit>> PROVE VerdictOK'
  BY <1>1, <1>32 DEF CallExt, At, Asks, state, ext, VerdictOK, SpiPassIsFresh, hal, hub, history
<1>33. ASSUME NEW c \in Callers, CallCalibrate(c),
               callerPc[c] = "out" /\ pc # "stopped" /\ called < MaxCalls /\ called' = called + 1,
               UNCHANGED <<data, dataLock, pc, run, hub, credit>> PROVE VerdictOK'
  BY <1>1, <1>33 DEF CallCalibrate, At, Asks, state, VerdictOK, SpiPassIsFresh, ext, hal, hub,
     history
<1>34. ASSUME NEW c \in Callers, CallCancel,
               callerPc[c] = "out" /\ pc # "stopped" /\ called < MaxCalls /\ called' = called + 1,
               UNCHANGED <<data, dataLock, pc, run, hub, credit>> PROVE VerdictOK'
  BY <1>1, <1>34 DEF CallCancel, SetWorkState, ext, VerdictOK, SpiPassIsFresh, state, hal, hub,
     history
<1>35. ASSUME NEW c \in Callers, CallDeinit(c),
               callerPc[c] = "out" /\ pc # "stopped" /\ called < MaxCalls /\ called' = called + 1,
               UNCHANGED <<data, dataLock, pc, run, hub, credit>> PROVE VerdictOK'
  BY <1>1, <1>35 DEF CallDeinit, SetWorkState, At, ext, VerdictOK, SpiPassIsFresh, state, hal,
     hub, history
<1>36. ASSUME NEW c \in Callers, HalStep(c) PROVE VerdictOK'
  BY <1>1, <1>36 DEF HalStep, At, state, ext, hub, history, VerdictOK, SpiPassIsFresh
<1>37. ASSUME NEW c \in Callers, HalRequest(c) PROVE VerdictOK'
  BY <1>1, <1>37 DEF HalRequest, SetWorkState, At, Asks, ext, hub, VerdictOK, SpiPassIsFresh
<1>38. ASSUME NEW c \in Callers, SpiReturn(c) PROVE VerdictOK'
  BY <1>1, <1>38 DEF SpiReturn, At, state, ext, hub, history, VerdictOK, SpiPassIsFresh
<1>39. ASSUME NEW c \in Callers, Stop(c) PROVE VerdictOK'
  BY <1>1, <1>39 DEF Stop, At, state, ext, hub, history, VerdictOK, SpiPassIsFresh
<1>40. CASE UNCHANGED vars
  BY <1>1, <1>40 DEF vars, state, ext, hal, hub, history, VerdictOK, SpiPassIsFresh
<1> QED
  BY <1>2, <1>3, <1>4, <1>5, <1>6, <1>7, <1>8, <1>9, <1>10, <1>11, <1>12, <1>13, <1>14, <1>15,
     <1>16, <1>17, <1>18, <1>19, <1>20, <1>21, <1>22, <1>23, <1>24, <1>25, <1>26, <1>27, <1>28,
     <1>29, <1>30, <1>31, <1>32, <1>33, <1>34, <1>35, <1>36, <1>37, <1>38, <1>39, <1>40
     DEF Next, Worker, Hal, HalCall

\* The initial states.
LEMMA InitIInv == Init => IInv
<1> SUFFICES ASSUME Init PROVE IInv
  OBVIOUS
<1> USE TestConstants DEF TestConstants, Init
<1>1. data = [req |-> NoRequest, n |-> 0, len |-> 0, cap |-> 0, off |-> 0]
  BY DEF NoData
<1>2. TypeOK
  <2>1. data \in [req : Requests \cup {NoRequest}, n : Nat, len : Nat, cap : Nat, off : Nat]
    BY <1>1
  <2>2. run \in [id : Ids, n : Nat]
    BY DEF NoRun, Ids
  <2>3. Nothing \in (HalCalls \cup {"nothing"}) \X (0 .. 2)
    BY DEF Nothing
  <2>4. owed \in (HalCalls \cup {"nothing", "command"}) \X (0 .. 2)
    BY DEF Nothing
  <2>5. asks \in [Callers -> (HalCalls \cup {"nothing"}) \X (0 .. 2)]
    BY <2>3
  <2>6. /\ callerPc \in [Callers -> {"out", "ext", "spi", "step", "wait", "join"}]
        /\ verdict \in [Callers -> BOOLEAN]
    OBVIOUS
  <2>7. extId \in HalCalls \ {"cancel", "deinit"}
    BY DEF HalCalls
  <2>8. sent \in 0 .. MaxRequests /\ called \in 0 .. MaxCalls
    OBVIOUS
  <2>9. workCancel \in BOOLEAN /\ signaled \in BOOLEAN
    OBVIOUS
  <2>10. /\ workerState = "IDLE" /\ dataLock = Free /\ extLock = Free /\ stepId = 0 /\ spiResult = 0
         /\ pc = "top" /\ hubPc = "ready" /\ credit = 0 /\ passed = {}
    OBVIOUS
  <2> HIDE DEF TestConstants, Init
  <2> QED BY <2>1, <2>2, <2>4, <2>5, <2>6, <2>7, <2>8, <2>9, <2>10 DEF TypeOK
<1>3. BufferHolds
  BY <1>1 DEF BufferHolds
<1>4. CreditOK
  BY DEF CreditOK, Checking
<1>5. VerdictOK
  BY DEF VerdictOK, SpiPassIsFresh
<1> QED BY <1>2, <1>3, <1>4, <1>5 DEF IInv

\* The types, the block, the count and the verdicts stand together.
LEMMA Invariance == Spec => []IInv
<1>1. Init => IInv
  BY InitIInv
<1>2. IInv /\ [Next]_vars => IInv'
  BY TypeStep, BufferStep, CreditStep, VerdictStep DEF IInv
<1> QED BY <1>1, <1>2, PTL DEF Spec
-----------------------------------------------------------------------------
\* Every variable keeps its type, for any clients, callers and packets.
THEOREM TypeCorrect == Spec => []TypeOK
<1>1. IInv => TypeOK
  BY DEF IInv
<1> QED BY <1>1, Invariance, PTL

\* The worker never looks beyond the block of the command's data, whatever
\* lengths follow each other and whichever allocations fail
\* (silfp_ext_test_cmd frees the block by the length of the last command).
THEOREM BufferSuffices == Spec => []BufferHolds
<1>1. IInv => BufferHolds
  BY DEF IInv
<1> QED BY <1>1, Invariance, PTL

\* No test command is run without having been requested, or twice, however
\* requests, cancels and the ends of commands fall between the worker's looks
\* at m_worker_state and m_work_cancel.
THEOREM NoRunUnrequested == Spec => []RunsRequested
<1>1. IInv => RunsRequested
  BY DEF IInv, CreditOK, RunsRequested
<1> QED BY <1>1, Invariance, PTL

\* A self-test is reported as passed only if one passed while the caller was
\* waiting for it, whoever else has called in between.
THEOREM PassesAreFresh == Spec => []SpiPassIsFresh
<1>1. IInv => SpiPassIsFresh
  BY DEF IInv, VerdictOK
<1> QED BY <1>1, Invariance, PTL
-----------------------------------------------------------------------------
(***************************************************************************)
(* TestImage: what the pictures are made of.                               *)
(*                                                                         *)
(* A picture goes through three layouts: the TA's buffer, the bitmap of    *)
(* the answer (padded rows, the last first), and the buffer again.         *)
(***************************************************************************)
LEMMA DivMod ==
  ASSUME NEW a \in Nat, NEW b \in Nat, b > 0
  PROVE  /\ a \div b \in Nat /\ a % b \in 0..(b - 1)
         /\ a = b * (a \div b) + (a % b)
OBVIOUS

\* Quotient and remainder are the only ones.
LEMMA DivModUnique ==
  ASSUME NEW b \in Nat, b > 0, NEW q \in Nat, NEW r \in 0..(b - 1)
  PROVE  (b * q + r) \div b = q /\ (b * q + r) % b = r
OBVIOUS

\* The rows before one take no more than their cells.
LEMMA RowsBefore ==
  ASSUME NEW b \in Nat, NEW q \in Nat, NEW m \in Nat, q < m
  PROVE  b * q + b <= b * m
OBVIOUS

\* Each of the b * m cells of a table is in a row and a column.
LEMMA CellOf ==
  ASSUME NEW b \in Nat, NEW m \in Nat, NEW k \in 1..b * m
  PROVE  /\ (k - 1) \div b \in 0..(m - 1) /\ (k - 1) % b \in 0..(b - 1)
         /\ k = b * ((k - 1) \div b) + ((k - 1) % b) + 1
<1>1. b > 0 /\ k - 1 \in Nat /\ m > 0
  OBVIOUS
<1>2. /\ (k - 1) \div b \in Nat /\ (k - 1) % b \in 0..(b - 1)
      /\ k - 1 = b * ((k - 1) \div b) + ((k - 1) % b)
  BY <1>1, DivMod
<1>3. ASSUME NEW q \in Nat, NEW r \in 0..(b - 1), k - 1 = b * q + r, q >= m
      PROVE  FALSE
  <2>1. b * m <= b * q
    BY <1>3
  <2> QED BY <1>3, <2>1
<1> QED BY <1>1, <1>2, <1>3

\* In each row and column is one of the cells.
LEMMA CellAt ==
  ASSUME NEW b \in Nat, NEW m \in Nat, NEW q \in 0..(m - 1), NEW r \in 0..(b - 1)
  PROVE  /\ b * q + r + 1 \in 1..b * m
         /\ (b * q + r + 1 - 1) \div b = q /\ (b * q + r + 1 - 1) % b = r
<1>1. b * q + b <= b * m /\ b * q \in Nat
  BY RowsBefore
<1>2. b * q + r + 1 - 1 = b * q + r
  BY <1>1
<1>3. (b * q + r) \div b = q /\ (b * q + r) % b = r
  BY DivModUnique
<1>4. b * q + r + 1 \in 1..b * m
  BY <1>1
<1> QED BY <1>2, <1>3, <1>4

\* A row fits its stride.
LEMMA StrideFits ==
  ASSUME NEW w \in Nat
  PROVE  Stride(w) \in Nat /\ w <= Stride(w)
BY DEF Stride

\* The row that is counted from the end, and the place of a cell in it.
LEMMA RowsTurned ==
  ASSUME NEW w \in Nat, NEW h \in Nat, NEW s \in Nat, w <= s, NEW k \in 1..w * h
  PROVE  LET row == (k - 1) \div w
             col == (k - 1) % w
             p   == s * (h - 1 - row) + col + 1
         IN /\ row \in 0..(h - 1) /\ col \in 0..(w - 1) /\ k = w * row + col + 1
            /\ p \in 1..s * h /\ (p - 1) \div s = h - 1 - row /\ (p - 1) % s = col
<1> DEFINE row == (k - 1) \div w
           col == (k - 1) % w
           q == h - 1 - row
<1>1. row \in 0..(h - 1) /\ col \in 0..(w - 1) /\ k = w * row + col + 1
  BY CellOf
<1> HIDE DEF row, col
<1>2. q \in 0..(h - 1) /\ col \in 0..(s - 1)
  BY <1>1
<1> HIDE DEF q
<1>3. /\ s * q + col + 1 \in 1..s * h
      /\ (s * q + col + 1 - 1) \div s = q /\ (s * q + col + 1 - 1) % s = col
  BY <1>2, CellAt
<1> QED BY <1>1, <1>3 DEF q, row, col

\* What was made a bitmap and taken out of it again is what it was: the
\* padding and the order of the rows leave no trace.
LEMMA RoundTrip ==
  ASSUME NEW w \in Nat, NEW h \in Nat, NEW buf
  PROVE  BmpData(BmpOf(buf, w, h)) = [k \in 1..w * h |-> buf[k]]
<1> DEFINE img == BmpOf(buf, w, h)
           s == Stride(w)
<1>1. img.w = w /\ img.h = h
  BY DEF BmpOf
<1>2. ASSUME NEW k \in 1..w * h
      PROVE  img.px[s * (h - 1 - ((k - 1) \div w)) + ((k - 1) % w) + 1] = buf[k]
  <2> DEFINE row == (k - 1) \div w
             col == (k - 1) % w
             q == h - 1 - row
             p == s * q + col + 1
  <2>1. s \in Nat /\ w <= s
    BY StrideFits
  <2> HIDE DEF s
  <2>2. /\ row \in 0..(h - 1) /\ col \in 0..(w - 1) /\ k = w * row + col + 1
        /\ p \in 1..s * h /\ (p - 1) \div s = q /\ (p - 1) % s = col
    BY <2>1, RowsTurned
  <2> HIDE DEF row, col, p
  <2>3. h - 1 - q = row
    BY <2>2
  <2> HIDE DEF q
  <2>4. img.px[p] = buf[w * row + col + 1]
    BY <2>2, <2>3 DEF BmpOf, s
  <2> QED BY <2>2, <2>4 DEF p, q, row, col
<1>3. BmpData(img) = [k \in 1..w * h |-> buf[k]]
  <2> HIDE DEF img
  <2> QED BY <1>1, <1>2 DEF BmpData, s
<1> QED BY <1>3
-----------------------------------------------------------------------------
(* The types of TestImage                                                  *)
Kinds == {"capture", "send", "clear", "finish"}
Images == {img \in [w : Nat, h : Nat, px : Seq(Int)] : Len(img.px) = Stride(img.w) * img.h}
Files == [img : Images, orig : 0..1, shot : Nat]
Packets == [id : Kinds, n : Nat, file : Files]
Errors == [kind : {"error", "next", "success"}, n : Nat]
Results == [kind : {"result"}, n : Nat, done : BOOLEAN]
Pictures == [kind : {"image"}, n : {0}, err : 0..1, img : Images, tpl : BOOLEAN,
             orig : 0..1, shot : Nat]
Tasks == [at : {"none", "next", "wait", "clear"}, file : 0..Samples, n : Nat, id : Nat,
          cancelled : BOOLEAN]
Messages == Errors \cup Results \cup Pictures
\* What wakes the task.
Wakings == [kind : {"error"}, n : Nat] \cup Results

ImageTypeOK ==
  /\ geo \in Geometries /\ dims \in [w : Nat, h : Nat, wo : Nat, ho : Nat]
  /\ buffer \in Seq(Int) /\ rspLen \in Nat
  /\ buffer # <<>> => dims.w > 0 /\ dims.h > 0
  /\ worker \in Kinds \cup {"idle", "loop", "shot", "answered", "settle"}
  /\ slot \in Packets /\ requested \in BOOLEAN
  /\ wire \in Seq(Messages) /\ inbox \in Seq(Messages) /\ out \in Seq(Packets)
  /\ linked \in BOOLEAN /\ client \in BOOLEAN
  /\ callback \in Nat /\ opened \in Nat /\ screen \in {"home", "gather", "test"}
  /\ enrolled \in 0..Samples /\ tplCount \in -1..Samples /\ mine \in BOOLEAN
  /\ files \in [1..Samples -> Files]
  /\ task \in Tasks /\ queued \in Nat
  /\ result \in {NoResult} \cup Wakings
  /\ touches \in Nat /\ asked \in Nat
  /\ given.px \in Seq(Int) /\ given.orig \in 0..1 /\ given.shot \in Nat
  /\ mixed \in BOOLEAN /\ cut \in BOOLEAN /\ dropped \in BOOLEAN

\* What Append and Tail do to the answers, the messages and the commands.
LEMMA Appended ==
  ASSUME NEW S, NEW s \in Seq(S), NEW e \in S
  PROVE  /\ Append(s, e) \in Seq(S) /\ DOMAIN Append(s, e) = 1..(Len(s) + 1)
         /\ DOMAIN s = 1..Len(s) /\ Len(s) \in Nat
         /\ \A i \in 1..Len(s) : Append(s, e)[i] = s[i]
         /\ Append(s, e)[Len(s) + 1] = e
OBVIOUS

\* Taking the first element off.
LEMMA Removed ==
  ASSUME NEW S, NEW s \in Seq(S), s # <<>>
  PROVE  /\ Tail(s) \in Seq(S) /\ DOMAIN Tail(s) = 1..(Len(s) - 1)
         /\ DOMAIN s = 1..Len(s) /\ Len(s) \in Nat \ {0}
         /\ \A i \in 1..(Len(s) - 1) : Tail(s)[i] = s[i + 1]
         /\ Head(s) = s[1] /\ Head(s) \in S
OBVIOUS

\* Min of a pair.
LEMMA MinOfTwo ==
  ASSUME NEW a \in Nat, NEW b \in Nat
  PROVE  Min({a, b}) \in {a, b} /\ Min({a, b}) <= a /\ Min({a, b}) <= b
<1>1. \E x \in {a, b} : \A y \in {a, b} : x <= y
  OBVIOUS
<1> QED BY <1>1 DEF Min

Less == {p \in Nat \X Nat : p[1] < p[2]}

\* The next image that is sent has a file.
LEMMA LeftIsLeft ==
  ASSUME Left # {}, task.file \in Nat, Samples \in Nat
  PROVE  Min(Left) \in 1..Samples /\ files[Min(Left)] # NoFile
<1>1. Left \subseteq Nat
  BY DEF Left
<1>2. IsWellFoundedOn(Less, Nat)
  BY NatLessThanWellFounded DEF OpToRel, Less
<1>3. PICK x \in Left : \A y \in Left : <<y, x>> \notin Less
  BY <1>1, <1>2, WFMin
<1>4. \A y \in Left : <<y, x>> \in Less <=> y < x
  BY <1>1 DEF Less
<1>5. \A y \in Left : ~ (y < x)
  BY <1>3, <1>4, Zenon
<1>6. \A y \in Left : x <= y
  BY <1>1, <1>5
<1> QED BY <1>6 DEF Min, Left

\* A number of pixels of a touch.
LEMMA ShotType ==
  ASSUME NEW touch \in Nat, NEW orig \in 0..1, NEW len \in Nat
  PROVE  Shot(touch, orig, len) \in Seq(Int) /\ Len(Shot(touch, orig, len)) = len
BY DEF Shot

\* A buffer keeps its length and takes the pixels from its start.
LEMMA FilledType ==
  ASSUME NEW raw \in Seq(Int), NEW px \in Seq(Int)
  PROVE  /\ Filled(raw, px) \in Seq(Int) /\ Len(Filled(raw, px)) = Len(raw)
         /\ \A i \in 1..Len(raw) : i <= Len(px) => Filled(raw, px)[i] = px[i]
BY DEF Filled

\* A bitmap made of a buffer is an image.
LEMMA BmpOfType ==
  ASSUME NEW w \in Nat, NEW h \in Nat, NEW buf \in Seq(Int), w * h <= Len(buf)
  PROVE  BmpOf(buf, w, h) \in Images
<1> DEFINE s == Stride(w)
           px == BmpOf(buf, w, h).px
<1>1. s \in Nat
  BY StrideFits
<1>2. s * h \in Nat
  BY <1>1
<1> HIDE DEF s
<1>3. ASSUME NEW k \in 1..s * h
      PROVE  (IF ((k - 1) % s) < w
                THEN buf[w * (h - 1 - ((k - 1) \div s)) + ((k - 1) % s) + 1] ELSE 0) \in Int
  <2> DEFINE row == (k - 1) \div s
             col == (k - 1) % s
             q == h - 1 - row
  <2>1. row \in 0..(h - 1) /\ col \in 0..(s - 1)
    BY <1>1, CellOf
  <2> HIDE DEF row, col
  <2>2. q \in 0..(h - 1)
    BY <2>1
  <2> HIDE DEF q
  <2>3. ASSUME col < w PROVE w * q + col + 1 \in 1..w * h
    <3>1. col \in 0..(w - 1)
      BY <2>1, <2>3
    <3> QED BY <2>2, <3>1, CellAt
  <2>4. ASSUME col < w PROVE buf[w * q + col + 1] \in Int
    BY <2>3, <2>4
  <2> QED BY <2>4 DEF q, row, col
<1>4. px = [k \in 1..s * h |-> IF ((k - 1) % s) < w
             THEN buf[w * (h - 1 - ((k - 1) \div s)) + ((k - 1) % s) + 1] ELSE 0]
  BY DEF BmpOf, s
<1>5. px \in Seq(Int) /\ Len(px) = s * h
  <2> HIDE DEF px
  <2> QED BY <1>2, <1>3, <1>4
<1> QED BY <1>5 DEF BmpOf, Images, s

\* The pixels of an image, by their number.
LEMMA BmpDataType ==
  ASSUME NEW img \in Images
  PROVE  BmpData(img) \in Seq(Int) /\ Len(BmpData(img)) = img.w * img.h
<1> DEFINE w == img.w
           h == img.h
           s == Stride(w)
<1>1. w \in Nat /\ h \in Nat /\ s \in Nat /\ w <= s /\ img.px \in Seq(Int) /\ Len(img.px) = s * h
  BY StrideFits DEF Images
<1>2. w * h \in Nat
  BY <1>1
<1>3. BmpData(img) = [k \in 1..w * h |->
        img.px[s * (h - 1 - ((k - 1) \div w)) + ((k - 1) % w) + 1]]
  BY DEF BmpData
<1> HIDE DEF w, h, s
<1>4. ASSUME NEW k \in 1..w * h
      PROVE  img.px[s * (h - 1 - ((k - 1) \div w)) + ((k - 1) % w) + 1] \in Int
  <2>1. s * (h - 1 - ((k - 1) \div w)) + ((k - 1) % w) + 1 \in 1..s * h
    BY <1>1, RowsTurned
  <2> QED BY <1>1, <2>1
<1>5. BmpData(img) \in Seq(Int) /\ Len(BmpData(img)) = w * h
  BY <1>2, <1>3, <1>4
<1> QED BY <1>5 DEF w, h

-----------------------------------------------------------------------------
(* What the worker does with the buffer                                    *)

\* The pixels of f, unless it is an original, are those of its touch.
Own(f) == f.orig = 0 => BmpData(f.img) = Shot(f.shot, 0, f.img.w * f.img.h)

\* No file has no pixels.
LEMMA NoFileOwn == NoFile \in Files /\ NoImage \in Images /\ Own(NoFile)
<1>1. Stride(0) * 0 = 0
  BY StrideFits
<1>2. NoImage \in Images /\ NoImage.w = 0 /\ NoImage.h = 0
  BY <1>1 DEF NoImage, Images
<1>3. BmpData(NoImage) \in Seq(Int) /\ Len(BmpData(NoImage)) = 0
  BY <1>2, BmpDataType
<1>4. Shot(0, 0, 0) \in Seq(Int) /\ Len(Shot(0, 0, 0)) = 0
  BY ShotType
<1>5. BmpData(NoImage) = <<>> /\ Shot(0, 0, 0) = <<>>
  BY <1>3, <1>4
<1> QED BY <1>2, <1>5 DEF NoFile, Files, Own

\* An image without pixels is of any touch.
LEMMA EmptyOwn ==
  ASSUME NEW f, f.img = NoImage, f.shot \in Nat
  PROVE  Own(f)
<1>1. NoImage \in Images /\ NoImage.w = 0 /\ NoImage.h = 0
  BY NoFileOwn DEF NoImage
<1>2. BmpData(NoImage) \in Seq(Int) /\ Len(BmpData(NoImage)) = 0
  BY <1>1, BmpDataType
<1>3. Shot(f.shot, 0, 0) \in Seq(Int) /\ Len(Shot(f.shot, 0, 0)) = 0
  BY ShotType
<1>4. BmpData(NoImage) = <<>> /\ Shot(f.shot, 0, 0) = <<>>
  BY <1>2, <1>3
<1> QED BY <1>1, <1>4 DEF Own

\* silfp_test_image_capture leaves the buffer its size; what it answers without
\* an error is the touch.
LEMMA CaptureFacts ==
  ASSUME ImageTypeOK, touches' \in Nat, NEW orig \in 0..1, ImageCapture(orig)
  PROVE  /\ buffer' \in Seq(Int) /\ Len(buffer') = Len(buffer)
         /\ \E m \in Pictures : Reply(m) /\ (m.err = 0 => Own(m))
<1>1. PICK how \in {"taken", "poor", "unreached"}, tpl \in BOOLEAN :
        LET w    == IF orig = 1 THEN dims.wo ELSE dims.w
            h    == IF orig = 1 THEN dims.ho ELSE dims.h
            room == Len(buffer)
            len  == IF how = "unreached" THEN room ELSE Min({w * h, room})
            fits == w * h <= len /\ rspLen >= 12 + BmpSize(w, h)
        IN /\ orig = 1 \/ how = "unreached" => ~tpl
           /\ buffer' = IF how = "unreached" THEN buffer
                                             ELSE Filled(buffer, Shot(touches', orig, len))
           /\ Reply([kind |-> "image", n |-> 0, err |-> Code(orig, how = "taken"),
                      img |-> IF fits THEN BmpOf(buffer', w, h) ELSE NoImage,
                      tpl |-> tpl, orig |-> orig, shot |-> touches'])
  BY DEF ImageCapture
<1> DEFINE w    == IF orig = 1 THEN dims.wo ELSE dims.w
           h    == IF orig = 1 THEN dims.ho ELSE dims.h
           room == Len(buffer)
           len  == IF how = "unreached" THEN room ELSE Min({w * h, room})
           fits == w * h <= len /\ rspLen >= 12 + BmpSize(w, h)
           img  == IF fits THEN BmpOf(buffer', w, h) ELSE NoImage
           err  == Code(orig, how = "taken")
           m    == [kind |-> "image", n |-> 0, err |-> err, img |-> img, tpl |-> tpl,
                    orig |-> orig, shot |-> touches']
<1>2. w \in Nat /\ h \in Nat /\ room \in Nat /\ buffer \in Seq(Int)
  BY DEF ImageTypeOK
<1>3. Reply(m)
  BY <1>1
<1>4. buffer' = IF how = "unreached" THEN buffer ELSE Filled(buffer, Shot(touches', orig, len))
  BY <1>1
<1>5. err \in 0..1 /\ (err = 0 /\ orig = 0 => how = "taken")
  BY DEF Code
<1> HIDE DEF w, h, err
<1>6. w * h \in Nat
  BY <1>2
<1>7. len \in Nat /\ len <= room /\ (how # "unreached" => len <= w * h)
  BY <1>2, <1>6, MinOfTwo
<1> HIDE DEF room, len
<1>8. /\ Shot(touches', orig, len) \in Seq(Int) /\ Len(Shot(touches', orig, len)) = len
  BY <1>7, ShotType
<1>9. /\ buffer' \in Seq(Int) /\ Len(buffer') = Len(buffer)
      /\ how # "unreached" => \A i \in 1..len : buffer'[i] = Shot(touches', orig, len)[i]
  <2>1. CASE how = "unreached"
    BY <1>2, <1>4, <2>1
  <2>2. CASE how # "unreached"
    <3> DEFINE px == Shot(touches', orig, len)
    <3>1. buffer' = Filled(buffer, px) /\ px \in Seq(Int) /\ Len(px) = len /\ buffer \in Seq(Int)
      BY <1>2, <1>4, <1>8, <2>2
    <3> HIDE DEF px
    <3>2. /\ Filled(buffer, px) \in Seq(Int) /\ Len(Filled(buffer, px)) = Len(buffer)
          /\ \A i \in 1..Len(buffer) : i <= Len(px) => Filled(buffer, px)[i] = px[i]
      BY <3>1, FilledType
    <3> QED BY <1>2, <1>7, <3>1, <3>2 DEF px, room
  <2> QED BY <2>1, <2>2
<1>10. fits => w * h <= Len(buffer') /\ (how # "unreached" => len = w * h)
  BY <1>6, <1>7, <1>9 DEF room
<1>11. img \in Images
  BY <1>2, <1>9, <1>10, BmpOfType, NoFileOwn
<1>12. m \in Pictures
  BY <1>5, <1>11 DEF Pictures
<1>13. ASSUME err = 0 PROVE Own(m)
  <2>1. CASE ~ fits
    BY <2>1, EmptyOwn
  <2>2. CASE fits /\ orig = 0
    <3>1. how = "taken" /\ len = w * h
      BY <1>5, <1>10, <1>13, <2>2
    <3>2. BmpData(img) = [k \in 1..w * h |-> buffer'[k]]
      BY <1>2, <2>2, RoundTrip
    <3>3. Shot(touches', 0, w * h) = [k \in 1..w * h |-> buffer'[k]]
      BY <1>9, <2>2, <3>1 DEF Shot
    <3>4. img.w = w /\ img.h = h
      BY <2>2 DEF BmpOf
    <3> HIDE DEF img
    <3>5. m.img = img /\ m.shot = touches'
      OBVIOUS
    <3> HIDE DEF m
    <3> QED BY <3>2, <3>3, <3>4, <3>5 DEF Own
  <2>3. CASE orig = 1
    BY <2>3 DEF Own
  <2> QED BY <2>1, <2>2, <2>3
<1> HIDE DEF m
<1> QED BY <1>3, <1>9, <1>12, <1>13 DEF m

\* The TA's image sizes and its buffer.
LEMMA SizeFacts ==
  ASSUME ImageTypeOK, NEW told \in BOOLEAN, NEW allocated \in BOOLEAN
  PROVE  /\ ImageSize(told) \in [w : Nat, h : Nat, wo : Nat, ho : Nat]
         /\ RawBuffer(told, allocated) \in Seq(Int)
         /\ RawBuffer(told, allocated) # <<>> => ImageSize(told).w > 0 /\ ImageSize(told).h > 0
<1>1. geo \in [w : Nat \ {0}, h : Nat \ {0}, wo : Nat, ho : Nat, size : Nat \ {0}]
  BY ImageConstants DEF ImageTypeOK
<1>2. dims \in [w : Nat, h : Nat, wo : Nat, ho : Nat] /\ buffer \in Seq(Int)
      /\ (buffer # <<>> => dims.w > 0 /\ dims.h > 0)
  BY DEF ImageTypeOK
<1>3. ImageSize(told) \in [w : Nat, h : Nat, wo : Nat, ho : Nat]
  BY <1>1, <1>2 DEF ImageSize
<1>4. RawBuffer(told, allocated) \in Seq(Int)
  BY <1>1, <1>2 DEF RawBuffer
<1>5. RawBuffer(told, allocated) # <<>> => ImageSize(told).w > 0 /\ ImageSize(told).h > 0
  BY <1>1, <1>2 DEF ImageSize, RawBuffer
<1> QED BY <1>3, <1>4, <1>5

\* silfp_test_frrfar_send_group_image: the TA is given the file's pixels; the
\* answer has the number of the command in the slot.
LEMMA SendFacts ==
  ASSUME ImageTypeOK, SendImage
  PROVE  /\ dims' \in [w : Nat, h : Nat, wo : Nat, ho : Nat] /\ buffer' \in Seq(Int)
         /\ buffer' # <<>> => dims'.w > 0 /\ dims'.h > 0
         /\ \E m \in Errors \cup Results :
              /\ Reply(m) /\ m.n = slot.n /\ m.kind \in {"error", "result"}
              /\ m.kind = "result" => slot.id = "send"
         /\ \/ given' = given
            \/ given' = [px |-> BmpData(slot.file.img), orig |-> slot.file.orig,
                         shot |-> slot.file.shot]
<1>1. PICK told \in BOOLEAN, allocated \in BOOLEAN, matched \in BOOLEAN, done \in BOOLEAN :
        LET raw == RawBuffer(told, allocated)
            px  == BmpData(slot.file.img)
        IN /\ buffer = <<>> \/ (told /\ allocated)
           /\ dims' = IF buffer = <<>> THEN ImageSize(told) ELSE dims
           /\ IF raw # <<>> /\ Parsed(slot, raw)
                THEN /\ given' = [px |-> px, orig |-> slot.file.orig,
                                  shot |-> slot.file.shot]
                     /\ buffer' = Filled(raw, IF matched THEN <<0>> \o Tail(px) ELSE px)
                     /\ Reply(IF matched
                                 THEN [kind |-> "result", n |-> slot.n, done |-> done]
                                 ELSE Error(slot.n))
                ELSE given' = given /\ buffer' = raw /\ Reply(Error(slot.n))
  BY DEF SendImage
<1> DEFINE raw == RawBuffer(told, allocated)
           px  == BmpData(slot.file.img)
           put == IF matched THEN <<0>> \o Tail(px) ELSE px
           res == [kind |-> "result", n |-> slot.n, done |-> done]
<1>2. /\ slot.n \in Nat /\ slot.file.img \in Images /\ buffer \in Seq(Int)
      /\ dims \in [w : Nat, h : Nat, wo : Nat, ho : Nat]
      /\ buffer # <<>> => dims.w > 0 /\ dims.h > 0
  BY DEF ImageTypeOK, Packets, Files
<1>3. /\ ImageSize(told) \in [w : Nat, h : Nat, wo : Nat, ho : Nat] /\ raw \in Seq(Int)
      /\ raw # <<>> => ImageSize(told).w > 0 /\ ImageSize(told).h > 0
  BY SizeFacts
<1>4. dims' = IF buffer = <<>> THEN ImageSize(told) ELSE dims
  BY <1>1
<1>5. dims' \in [w : Nat, h : Nat, wo : Nat, ho : Nat]
  BY <1>2, <1>3, <1>4
<1>6. raw # <<>> => dims'.w > 0 /\ dims'.h > 0
  BY <1>2, <1>3, <1>4 DEF RawBuffer
<1>7. px \in Seq(Int) /\ Len(px) = slot.file.img.w * slot.file.img.h
  BY <1>2, BmpDataType
<1>8. Error(slot.n) \in Errors /\ res \in Results
  BY <1>2 DEF Error, Errors, Results
<1>9. CASE raw # <<>> /\ Parsed(slot, raw)
  <2>1. /\ given' = [px |-> px, orig |-> slot.file.orig, shot |-> slot.file.shot]
        /\ buffer' = Filled(raw, put) /\ Reply(IF matched THEN res ELSE Error(slot.n))
    BY <1>1, <1>9
  <2>2. slot.id = "send" /\ slot.file.img.w = dims'.w /\ slot.file.img.h = dims'.h
    BY <1>9 DEF Parsed
  <2> DEFINE a == dims'.w
             b == dims'.h
  <2>3. a \in Nat \ {0} /\ b \in Nat \ {0} /\ Len(px) = a * b
    BY <1>5, <1>6, <1>7, <1>9, <2>2
  <2> HIDE DEF a, b, px
  <2>4. a * b > 0
    BY <2>3
  <2>5. put \in Seq(Int)
    BY <1>7, <2>3, <2>4
  <2> HIDE DEF put, raw
  <2>6. buffer' \in Seq(Int)
    BY <1>3, <2>1, <2>5, FilledType
  <2>7. \E m \in Errors \cup Results :
              /\ Reply(m) /\ m.n = slot.n /\ m.kind \in {"error", "result"}
              /\ m.kind = "result" => slot.id = "send"
    <3>1. CASE matched
      BY <1>8, <2>1, <2>2, <3>1
    <3>2. CASE ~ matched
      <4>1. Error(slot.n).kind = "error" /\ Error(slot.n).n = slot.n
        BY DEF Error
      <4> QED BY <1>8, <2>1, <3>2, <4>1
    <3> QED BY <3>1, <3>2
  <2> QED BY <1>5, <1>6, <1>9, <2>1, <2>6, <2>7 DEF px
<1>10. CASE ~ (raw # <<>> /\ Parsed(slot, raw))
  <2>1. given' = given /\ buffer' = raw /\ Reply(Error(slot.n))
    BY <1>1, <1>10
  <2>2. Error(slot.n).kind = "error" /\ Error(slot.n).n = slot.n
    BY DEF Error
  <2> QED BY <1>3, <1>5, <1>6, <1>8, <2>1, <2>2
<1> QED BY <1>9, <1>10

-----------------------------------------------------------------------------
\* The answer is put on the wire, if there is a connection.
LEMMA Replied ==
  ASSUME wire \in Seq(Messages), NEW m \in Messages, Reply(m)
  PROVE  wire' \in Seq(Messages) /\ (wire' = wire \/ wire' = Append(wire, m))
BY Appended DEF Reply

\* FingerManager.testCmd: a command joins those before the sender.
DemandTypes == out \in Seq(Packets) /\ asked \in Nat /\ callback \in Nat /\ client \in BOOLEAN

\* What a demand does to these.
LEMMA Demanded ==
  ASSUME out \in Seq(Packets), asked \in Nat, NEW id \in Kinds, NEW file \in Files,
         NEW who \in Nat, Demand(id, file, who)
  PROVE  /\ DemandTypes' /\ asked' = asked + 1
         /\ out' = Append(out, Packet(id, asked + 1, file)) /\ Packet(id, asked + 1, file) \in Packets
<1>1. Packet(id, asked + 1, file) \in Packets
  BY DEF Packet, Packets
<1>2. Append(out, Packet(id, asked + 1, file)) \in Seq(Packets)
  BY <1>1, Appended
<1> QED BY <1>1, <1>2 DEF Demand, DemandTypes

\* The history of what is not run, or not told.
LEMMA DropType == \A n : Drop(n) => dropped' \in BOOLEAN
BY Zenon DEF Drop

\* Every step of the images keeps the types.
LEMMA ImageTypeStep ==
  ASSUME ImageTypeOK, [ImageNext]_imageVars
  PROVE  ImageTypeOK'
<1>1. Samples \in Nat /\ MaxTouches \in Nat /\ MaxOpened \in Nat
  BY ImageConstants
<1>2. CASE Take
  <2>1. worker' \in Kinds
    BY <1>2 DEF Take, ImageTypeOK, Packets
  <2>2. requested' = FALSE /\ UNCHANGED <<geo, dims, buffer, rspLen, slot, link, app, imageHistory>>
    BY <1>2 DEF Take
  <2> QED BY <2>1, <2>2 DEF ImageTypeOK, link, app, gather, imageHistory
<1>3. CASE Skip
  BY <1>1, <1>3 DEF Skip, ImageTypeOK, app, gather, link, imageHal, imageHistory, Kinds
<1>4. CASE CaptureBegin
  <2>1. PICK told \in BOOLEAN, image \in BOOLEAN, response \in BOOLEAN :
          /\ dims' = ImageSize(told) /\ buffer' = RawBuffer(told, image)
          /\ LET sized == told /\ buffer' # <<>>
                 rsp   == IF rspLen = 0 /\ sized /\ response
                            THEN BmpSize(dims'.wo, dims'.ho) + 12 ELSE rspLen
             IN /\ rspLen' = rsp
                /\ IF sized /\ rsp > 0
                     THEN worker' = "loop" /\ UNCHANGED <<wire, requested>>
                     ELSE /\ worker' = "idle" /\ requested' = TRUE
                          /\ Len(wire) < MaxWaiting /\ Reply(Error(0))
    BY <1>4 DEF CaptureBegin
  <2>2. /\ dims' \in [w : Nat, h : Nat, wo : Nat, ho : Nat] /\ buffer' \in Seq(Int)
        /\ buffer' # <<>> => dims'.w > 0 /\ dims'.h > 0
    BY <2>1, SizeFacts
  <2>3. BmpSize(dims'.wo, dims'.ho) \in Nat
    <3>1. dims'.wo \in Nat /\ dims'.ho \in Nat /\ Header \in Nat
      BY <2>2, ImageConstants
    <3> DEFINE s == Stride(dims'.wo)
    <3>2. s \in Nat
      BY <3>1, StrideFits
    <3>3. BmpSize(dims'.wo, dims'.ho) = Header + s * dims'.ho
      BY DEF BmpSize
    <3> HIDE DEF s
    <3>4. s * dims'.ho \in Nat
      BY <3>1, <3>2
    <3> QED BY <3>1, <3>3, <3>4
  <2>4. rspLen' \in Nat
    BY <2>1, <2>3 DEF ImageTypeOK
  <2>5. Error(0) \in Messages
    BY DEF Error, Messages, Errors
  <2>6. wire' \in Seq(Messages) /\ requested' \in BOOLEAN /\ worker' \in {"loop", "idle"}
    BY <2>1, <2>5, Replied DEF ImageTypeOK
  <2>7. UNCHANGED <<geo, slot, linked, client, out, inbox, app, imageHistory>>
    BY <1>4 DEF CaptureBegin
  <2> QED BY <2>2, <2>4, <2>6, <2>7 DEF ImageTypeOK, app, gather, imageHistory
<1>5. CASE Processed
  <2>1. touches' \in Nat /\ ImageCapture(0)
    BY <1>5 DEF Processed, ImageTypeOK
  <2>2. /\ buffer' \in Seq(Int) /\ Len(buffer') = Len(buffer)
        /\ \E m \in Pictures : Reply(m)
    BY <2>1, CaptureFacts
  <2>3. wire' \in Seq(Messages)
    BY <2>2, Replied DEF ImageTypeOK, Messages
  <2>4. /\ worker' = "loop"
        /\ UNCHANGED <<geo, dims, rspLen, slot, requested, linked, client, out, inbox,
                       app, imageHistory>>
    BY <1>5 DEF Processed
  <2>5. buffer' # <<>> => buffer # <<>>
    BY <2>2 DEF ImageTypeOK
  <2> QED BY <2>2, <2>3, <2>4, <2>5 DEF ImageTypeOK, app, gather, imageHistory
<1>6. CASE NoShot
  BY <1>1, <1>6 DEF NoShot, ImageTypeOK, app, gather, link, imageHal, imageHistory
<1>7. CASE CaptureEnd
  BY <1>1, <1>7 DEF CaptureEnd, ImageTypeOK, app, gather, link, imageHal, imageHistory, Deinit, NoDims
<1>8. CASE SendImage
  <2>1. /\ dims' \in [w : Nat, h : Nat, wo : Nat, ho : Nat] /\ buffer' \in Seq(Int)
        /\ buffer' # <<>> => dims'.w > 0 /\ dims'.h > 0
        /\ \E m \in Errors \cup Results : Reply(m)
        /\ \/ given' = given
           \/ given' = [px |-> BmpData(slot.file.img), orig |-> slot.file.orig,
                        shot |-> slot.file.shot]
    BY <1>8, SendFacts
  <2>2. wire' \in Seq(Messages)
    BY <2>1, Replied DEF ImageTypeOK, Messages
  <2>3. slot.file.img \in Images /\ slot.file.orig \in 0..1 /\ slot.file.shot \in Nat
    BY DEF ImageTypeOK, Packets, Files
  <2>4. given'.px \in Seq(Int) /\ given'.orig \in 0..1 /\ given'.shot \in Nat
    <3>1. BmpData(slot.file.img) \in Seq(Int)
      BY <2>3, BmpDataType
    <3>2. CASE given' = given
      BY <3>2 DEF ImageTypeOK
    <3>3. CASE given' # given
      BY <2>1, <2>3, <3>1, <3>3
    <3> QED BY <3>2, <3>3
  <2>5. /\ worker' = "answered"
        /\ UNCHANGED <<geo, rspLen, slot, requested, linked, client, out, inbox, app,
                       touches, asked, mixed, cut, dropped>>
    BY <1>8 DEF SendImage
  <2> QED BY <2>1, <2>2, <2>4, <2>5 DEF ImageTypeOK, app, gather
<1>9. CASE FinishImages
  <2> DEFINE m == [kind |-> IF worker = "clear" THEN "next" ELSE "success", n |-> slot.n]
  <2>1. m \in Messages /\ Reply(m)
    BY <1>9 DEF FinishImages, ImageTypeOK, Messages, Errors, Packets
  <2>2. wire' \in Seq(Messages)
    BY <2>1, Replied DEF ImageTypeOK
  <2>3. /\ worker' = "answered" /\ buffer' = <<>> /\ dims' = NoDims
        /\ UNCHANGED <<geo, rspLen, slot, requested, linked, client, out, inbox, app,
                       imageHistory>>
    BY <1>9 DEF FinishImages, Deinit
  <2> QED BY <2>2, <2>3 DEF ImageTypeOK, NoDims, app, gather, imageHistory
<1>10. CASE Original
  <2>1. touches' \in Nat /\ ImageCapture(1)
    BY <1>10 DEF Original, ImageTypeOK
  <2>2. /\ buffer' \in Seq(Int) /\ Len(buffer') = Len(buffer)
        /\ \E m \in Pictures : Reply(m)
    BY <2>1, CaptureFacts
  <2>3. wire' \in Seq(Messages)
    BY <2>2, Replied DEF ImageTypeOK, Messages
  <2>4. /\ worker' = "shot"
        /\ UNCHANGED <<geo, dims, rspLen, slot, requested, linked, client, out, inbox,
                       app, asked, given, mixed, cut, dropped>>
    BY <1>10 DEF Original
  <2>5. buffer' # <<>> => buffer # <<>>
    BY <2>2 DEF ImageTypeOK
  <2> QED BY <2>1, <2>2, <2>3, <2>4, <2>5 DEF ImageTypeOK, app, gather
<1>11. CASE Send
  <2>1. Head(out) \in Packets /\ Tail(out) \in Seq(Packets)
    BY <1>11, Removed DEF Send, ImageTypeOK
  <2>2. Error(Head(out).n) \in Messages
    BY <2>1 DEF Error, Messages, Errors, Packets
  <2>3. /\ inbox' \in Seq(Messages) /\ client' \in BOOLEAN /\ slot' \in Packets
        /\ requested' \in BOOLEAN /\ out' \in Seq(Packets) /\ dropped' \in BOOLEAN
    <3>1. out' = Tail(out)
      BY <1>11 DEF Send
    <3>2. CASE slot' = Head(out) /\ requested' = TRUE /\ UNCHANGED <<inbox, client>>
      <4>1. dropped' \in BOOLEAN
        BY <1>11, DropType DEF Send, ResponseErr, ImageTypeOK
      <4> QED BY <2>1, <3>1, <3>2, <4>1 DEF ImageTypeOK
    <3>3. CASE ResponseErr(Head(out).n) /\ UNCHANGED <<slot, requested>>
      <4>1. dropped' \in BOOLEAN
        BY <3>3, DropType DEF ResponseErr, ImageTypeOK
      <4> QED BY <2>1, <2>2, <3>1, <3>3, <4>1, Appended DEF ResponseErr, ImageTypeOK
    <3> QED BY <1>11, <3>2, <3>3 DEF Send
  <2>4. UNCHANGED <<geo, dims, buffer, rspLen, worker, wire, linked, app, touches, asked,
                    given, mixed, cut>>
    BY <1>11 DEF Send
  <2> QED BY <2>3, <2>4 DEF ImageTypeOK, app, gather
<1>12. CASE Receive
  <2>1. Head(wire) \in Messages /\ Tail(wire) \in Seq(Messages)
    BY <1>12, Removed DEF Receive, ImageTypeOK
  <2>2. Decoded(Head(wire)) \in Messages
    BY <2>1 DEF Decoded, Error, Messages, Errors, Results, Pictures
  <2>3. /\ inbox' \in Seq(Messages) /\ wire' \in Seq(Messages) /\ linked' \in BOOLEAN
        /\ cut' \in BOOLEAN /\ dropped' \in BOOLEAN
    <3>1. inbox \in Seq(Messages) /\ linked \in BOOLEAN /\ cut \in BOOLEAN
      BY DEF ImageTypeOK
    <3>2. Append(inbox, Decoded(Head(wire))) \in Seq(Messages)
      BY <2>2, <3>1, Appended
    <3>3. inbox' \in Seq(Messages) /\ wire' \in Seq(Messages)
      <4>1. inbox' = inbox \/ inbox' = Append(inbox, Decoded(Head(wire)))
        BY <1>12 DEF Receive
      <4>2. wire' = Tail(wire) \/ wire' = <<>>
        BY <1>12 DEF Receive
      <4>3. <<>> \in Seq(Messages)
        OBVIOUS
      <4> QED BY <2>1, <3>1, <3>2, <4>1, <4>2, <4>3
    <3>4. linked' \in BOOLEAN
      BY <1>12, <3>1, Zenon DEF Receive
    <3>5. cut' \in BOOLEAN
      BY <1>12, <3>1, Zenon DEF Receive
    <3>6. dropped' \in BOOLEAN
      BY <1>12, DropType DEF Receive, ImageTypeOK
    <3> QED BY <3>3, <3>4, <3>5, <3>6
  <2>4. UNCHANGED <<geo, imageHal, client, out, app, touches, asked, given, mixed>>
    BY <1>12 DEF Receive
  <2> QED BY <2>3, <2>4 DEF ImageTypeOK, app, gather, imageHal
<1>13. CASE Reconnect
  BY <1>1, <1>13 DEF Reconnect, ImageTypeOK, app, gather, link, imageHal, imageHistory
<1>14. CASE Handle
  <2>1. Head(inbox) \in Messages /\ inbox' \in Seq(Messages)
    BY <1>14, Removed DEF Handle, ImageTypeOK
  <2>2. UNCHANGED <<geo, imageHal, wire, linked, client, out, callback, screen, opened,
                    queued, imageHistory>>
    BY <1>14 DEF Handle
  <2>3. CASE UpdateData(Head(inbox)) /\ UNCHANGED <<result, task>>
    <3>1. CASE UNCHANGED gather
      BY <2>1, <2>2, <2>3, <3>1 DEF ImageTypeOK, gather, imageHal, imageHistory
    <3>2. CASE /\ mine /\ Head(inbox).kind = "image" /\ enrolled < Samples
               /\ \E saved \in BOOLEAN :
                    /\ files' = [files EXCEPT ![enrolled + 1] =
                          IF saved THEN [img |-> Head(inbox).img, orig |-> Head(inbox).orig,
                                         shot |-> Head(inbox).shot]
                                   ELSE NoFile]
                    /\ UNCHANGED mine
                    /\ tplCount' = IF ~Head(inbox).tpl /\ tplCount < 0 THEN enrolled
                                                                     ELSE tplCount
                    /\ enrolled' = IF saved THEN enrolled + 1 ELSE enrolled
      <4>1. Head(inbox) \in Pictures
        BY <2>1, <3>2 DEF Messages, Errors, Results
      <4>2. [img |-> Head(inbox).img, orig |-> Head(inbox).orig, shot |-> Head(inbox).shot]
               \in Files
        BY <4>1 DEF Pictures, Files
      <4>3. files' \in [1..Samples -> Files]
        BY <1>1, <3>2, <4>2, NoFileOwn DEF ImageTypeOK
      <4>4. enrolled' \in 0..Samples /\ tplCount' \in -1..Samples /\ mine' = mine
        BY <1>1, <3>2 DEF ImageTypeOK
      <4> QED BY <2>1, <2>2, <2>3, <4>3, <4>4 DEF ImageTypeOK, imageHal, imageHistory
    <3> QED BY <2>3, <3>1, <3>2 DEF UpdateData
  <2>4. CASE Callback(Head(inbox)) /\ UNCHANGED gather
    <3>1. result' \in {NoResult} \cup Wakings
      BY <2>1, <2>4 DEF Callback, ImageTypeOK, Messages, Pictures, Errors, Results, Wakings
    <3>2. task' \in Tasks
      BY <2>4 DEF Callback, ImageTypeOK, Tasks
    <3> QED BY <2>1, <2>2, <2>4, <3>1, <3>2 DEF ImageTypeOK, gather, imageHal, imageHistory
  <2>5. CASE UNCHANGED <<gather, result, task>>
    BY <2>1, <2>2, <2>5 DEF ImageTypeOK, gather, imageHal, imageHistory
  <2> QED BY <1>14, <2>3, <2>4, <2>5 DEF Handle
<1>15. CASE NextImage
  <2>1. Min(Left) \in 1..Samples
    <3>1. task.file \in Nat
      BY <1>1 DEF ImageTypeOK, Tasks
    <3> QED BY <1>1, <1>15, <3>1, LeftIsLeft DEF NextImage
  <2>2. task' \in Tasks
    <3>1. task \in Tasks /\ asked + 1 \in Nat
      BY DEF ImageTypeOK
    <3>2. task' = [task EXCEPT !.at = "wait", !.file = Min(Left), !.n = asked + 1]
      BY <1>15 DEF NextImage
    <3>3. task' = [at |-> "wait", file |-> Min(Left), n |-> asked + 1, id |-> task.id,
                   cancelled |-> task.cancelled]
      BY <3>1, <3>2 DEF Tasks
    <3> QED BY <1>1, <2>1, <3>1, <3>3 DEF Tasks
  <2>3. files[Min(Left)] \in Files
    BY <2>1 DEF ImageTypeOK
  <2>4. Demand("send", files[Min(Left)], task.id) /\ result' = NoResult
        /\ dropped' = FALSE
    BY <1>15 DEF NextImage, Forget
  <2>5. UNCHANGED <<geo, imageHal, wire, linked, inbox, screen, opened, gather, queued,
                    touches, given, mixed, cut>>
    BY <1>15 DEF NextImage
  <2>6. DemandTypes'
    <3>1. out \in Seq(Packets) /\ asked \in Nat /\ task.id \in Nat /\ "send" \in Kinds
      BY DEF ImageTypeOK, Tasks, Kinds
    <3> QED BY <2>3, <2>4, <3>1, Demanded
  <2> QED BY <2>2, <2>4, <2>5, <2>6 DEF ImageTypeOK, DemandTypes, imageHal, gather
<1>16. CASE NextFinger
  <2>1. Demand("clear", NoFile, task.id) /\ task' = [task EXCEPT !.at = "clear", !.n = asked + 1]
    BY <1>16 DEF NextFinger
  <2>2. /\ dropped' = FALSE
        /\ UNCHANGED <<geo, imageHal, wire, linked, inbox, screen, opened, gather, queued,
                       result, touches, given, mixed, cut>>
    BY <1>16 DEF NextFinger
  <2>3. DemandTypes'
    <3>1. /\ out \in Seq(Packets) /\ asked \in Nat /\ task.id \in Nat /\ opened \in Nat
          /\ {"capture", "clear", "finish"} \subseteq Kinds
      BY DEF ImageTypeOK, Tasks, Kinds
    <3> QED BY <2>1, <3>1, Demanded, NoFileOwn
  <2>4. task' \in Tasks
    <3>1. task \in Tasks /\ asked + 1 \in Nat
      BY DEF ImageTypeOK
    <3> QED BY <2>1, <3>1 DEF Tasks
  <2> QED BY <2>2, <2>3, <2>4 DEF ImageTypeOK, DemandTypes, imageHal, gather
<1>17. CASE TakeResult
  <2>1. task' \in Tasks
    <3>1. task \in Tasks
      BY DEF ImageTypeOK
    <3>2. task' = [task EXCEPT !.at = "next",
                   !.file = IF result.kind = "result" /\ result.done THEN Samples ELSE task.file]
      BY <1>17 DEF TakeResult
    <3>3. task' = [at |-> "next", n |-> task.n, id |-> task.id, cancelled |-> task.cancelled,
                   file |-> IF result.kind = "result" /\ result.done THEN Samples
                                                                     ELSE task.file]
      BY <3>1, <3>2 DEF Tasks
    <3> QED BY <1>1, <3>1, <3>3 DEF Tasks
  <2>2. mixed' \in BOOLEAN
    BY <1>17 DEF TakeResult
  <2>3. UNCHANGED <<geo, imageHal, link, callback, screen, opened, gather, queued, result,
                    touches, asked, given, cut, dropped>>
    BY <1>17 DEF TakeResult
  <2> QED BY <2>1, <2>2, <2>3 DEF ImageTypeOK, imageHal, link, gather
<1>18. CASE TaskEnd
  <2>1. task' \in Tasks
    BY <1>18 DEF TaskEnd, ImageTypeOK, Tasks
  <2>2. UNCHANGED <<geo, imageHal, link, callback, screen, opened, gather, queued, result,
                    imageHistory>>
    BY <1>18 DEF TaskEnd
  <2> QED BY <2>1, <2>2 DEF ImageTypeOK, imageHal, link, gather, imageHistory
<1>19. CASE OpenGather
  <2>1. Demand("capture", NoFile, 0)
    BY <1>19 DEF OpenGather
  <2>2. DemandTypes'
    <3>1. /\ out \in Seq(Packets) /\ asked \in Nat /\ task.id \in Nat /\ opened \in Nat
          /\ {"capture", "clear", "finish"} \subseteq Kinds
      BY DEF ImageTypeOK, Tasks, Kinds
    <3> QED BY <2>1, <3>1, Demanded, NoFileOwn
  <2>3. files' \in [1..Samples -> Files] /\ mine' \in BOOLEAN
    BY <1>19, NoFileOwn DEF OpenGather, ImageTypeOK
  <2>4. screen' = "gather" /\ opened' = opened + 1 /\ enrolled' = 0 /\ tplCount' = -1
    BY <1>19 DEF OpenGather
  <2>5. UNCHANGED <<geo, imageHal, wire, linked, inbox, task, queued, result, touches,
                    given, mixed, cut, dropped>>
    BY <1>19 DEF OpenGather
  <2> QED BY <1>1, <2>2, <2>3, <2>4, <2>5 DEF ImageTypeOK, DemandTypes, imageHal
<1>20. CASE LeaveGather
  <2>1. Demand("finish", NoFile, 0) /\ screen' = "home"
    BY <1>20 DEF LeaveGather
  <2>2. DemandTypes'
    <3>1. /\ out \in Seq(Packets) /\ asked \in Nat /\ task.id \in Nat /\ opened \in Nat
          /\ {"capture", "clear", "finish"} \subseteq Kinds
      BY DEF ImageTypeOK, Tasks, Kinds
    <3> QED BY <2>1, <3>1, Demanded, NoFileOwn
  <2>3. UNCHANGED <<geo, imageHal, wire, linked, inbox, opened, gather, task, queued,
                    result, touches, given, mixed, cut, dropped>>
    BY <1>20 DEF LeaveGather
  <2> QED BY <2>1, <2>2, <2>3 DEF ImageTypeOK, DemandTypes, imageHal, gather
<1>21. CASE Again
  BY <1>1, <1>21 DEF Again, ImageTypeOK, app, gather, link, imageHal, imageHistory
<1>22. CASE OpenTest
  <2>1. opened + 1 \in Nat
    BY DEF ImageTypeOK
  <2>2. screen' = "test" /\ opened' = opened + 1 /\ queued' = opened + 1
    BY <1>22 DEF OpenTest
  <2>3. UNCHANGED <<geo, imageHal, link, callback, gather, task, result, imageHistory>>
    BY <1>22 DEF OpenTest
  <2> QED BY <2>1, <2>2, <2>3 DEF ImageTypeOK, imageHal, link, gather, imageHistory
<1>25. CASE StartTask
  <2>1. task' \in Tasks
    <3>1. queued \in Nat
      BY DEF ImageTypeOK
    <3>2. task' = [NoTask EXCEPT !.at = "next", !.id = queued]
      BY <1>25 DEF StartTask
    <3>3. task' = [at |-> "next", file |-> 0, n |-> 0, id |-> queued, cancelled |-> FALSE]
      BY <3>2 DEF NoTask
    <3> QED BY <1>1, <3>1, <3>3 DEF Tasks
  <2>2. queued' = 0
    BY <1>25 DEF StartTask
  <2>3. UNCHANGED <<geo, imageHal, link, callback, screen, opened, gather, result,
                    imageHistory>>
    BY <1>25 DEF StartTask
  <2> QED BY <2>1, <2>2, <2>3 DEF ImageTypeOK, imageHal, link, gather, imageHistory
<1>26. CASE Answered
  <2>1. worker' \in {"idle", "settle"}
    BY <1>26 DEF Answered
  <2>2. UNCHANGED <<geo, dims, buffer, rspLen, slot, requested, link, app, imageHistory>>
    BY <1>26 DEF Answered
  <2> QED BY <2>1, <2>2 DEF ImageTypeOK, link, app, gather, imageHistory
<1>27. CASE Settle
  <2>1. worker' = "idle" /\ requested' = FALSE
    BY <1>27 DEF Settle
  <2>2. dropped' \in BOOLEAN
    BY <1>27, DropType DEF Settle, ImageTypeOK
  <2>3. UNCHANGED <<geo, dims, buffer, rspLen, slot, link, app, touches, asked, given,
                    mixed, cut>>
    BY <1>27 DEF Settle
  <2> QED BY <2>1, <2>2, <2>3 DEF ImageTypeOK, link, app, gather
<1>23. CASE LeaveTest
  <2>1. Demand("finish", NoFile, opened) /\ screen' = "home"
        /\ task' = [task EXCEPT !.cancelled = TRUE] /\ queued' = 0
    BY <1>23 DEF LeaveTest
  <2>4. task' \in Tasks
    BY <2>1 DEF ImageTypeOK, Tasks
  <2>2. DemandTypes'
    <3>1. /\ out \in Seq(Packets) /\ asked \in Nat /\ task.id \in Nat /\ opened \in Nat
          /\ {"capture", "clear", "finish"} \subseteq Kinds
      BY DEF ImageTypeOK, Tasks, Kinds
    <3> QED BY <2>1, <3>1, Demanded, NoFileOwn
  <2>3. UNCHANGED <<geo, imageHal, wire, linked, inbox, opened, gather, result,
                    touches, given, mixed, cut, dropped>>
    BY <1>23 DEF LeaveTest
  <2> QED BY <2>1, <2>2, <2>3, <2>4 DEF ImageTypeOK, DemandTypes, imageHal, gather
<1>24. CASE UNCHANGED imageVars
  BY <1>24 DEF imageVars, ImageTypeOK, app, gather, link, imageHal, imageHistory
<1> QED BY <1>2, <1>3, <1>4, <1>5, <1>6, <1>7, <1>8, <1>9, <1>10, <1>11, <1>12,
       <1>13, <1>14, <1>15, <1>16, <1>17, <1>18, <1>19, <1>20, <1>21, <1>22,
       <1>23, <1>24, <1>25, <1>26, <1>27 DEF ImageNext, ImageWorker, Service, Task, User

-----------------------------------------------------------------------------
(* Pixels, on their way                                                    *)
OwnAnswer(a) == a.kind = "image" /\ a.err = 0 => Own(a)

FilesOwn == \A k \in 1..Samples : Own(files[k])
CommandsOwn == Own(slot.file) /\ \A i \in DOMAIN out : Own(out[i].file)
WireOwn == \A i \in DOMAIN wire : OwnAnswer(wire[i])
InboxOwn == \A i \in DOMAIN inbox : OwnAnswer(inbox[i])
GivenOwn == given.orig = 0 => given.px = Shot(given.shot, 0, Len(given.px))
PixelsOK == FilesOwn /\ CommandsOwn /\ WireOwn /\ InboxOwn /\ GivenOwn

\* An answer that joins others, or leaves them.
LEMMA AnswerJoins ==
  ASSUME NEW s \in Seq(Messages), NEW m \in Messages, OwnAnswer(m),
         \A i \in DOMAIN s : OwnAnswer(s[i])
  PROVE  \A i \in DOMAIN Append(s, m) : OwnAnswer(Append(s, m)[i])
<1> TAKE i \in DOMAIN Append(s, m)
<1>1. /\ DOMAIN Append(s, m) = 1..(Len(s) + 1) /\ DOMAIN s = 1..Len(s) /\ Len(s) \in Nat
      /\ \A j \in 1..Len(s) : Append(s, m)[j] = s[j]
      /\ Append(s, m)[Len(s) + 1] = m
  BY Appended
<1>2. i \in DOMAIN s \/ i = Len(s) + 1
  BY <1>1
<1> QED BY <1>1, <1>2

\* An answer is taken off its sequence.
LEMMA AnswerLeaves ==
  ASSUME NEW s \in Seq(Messages), s # <<>>, \A i \in DOMAIN s : OwnAnswer(s[i])
  PROVE  OwnAnswer(Head(s)) /\ \A i \in DOMAIN Tail(s) : OwnAnswer(Tail(s)[i])
<1>1. /\ DOMAIN Tail(s) = 1..(Len(s) - 1) /\ DOMAIN s = 1..Len(s) /\ Len(s) \in Nat \ {0}
      /\ \A i \in 1..(Len(s) - 1) : Tail(s)[i] = s[i + 1]
      /\ Head(s) = s[1]
  BY Removed
<1>2. 1 \in DOMAIN s /\ \A i \in DOMAIN Tail(s) : i + 1 \in DOMAIN s
  BY <1>1
<1> QED BY <1>1, <1>2

\* What the worker answers keeps the wire.
LEMMA RepliedOwn ==
  ASSUME ImageTypeOK, WireOwn, NEW m \in Messages, OwnAnswer(m), Reply(m)
  PROVE  WireOwn'
<1>1. wire \in Seq(Messages)
  BY DEF ImageTypeOK
<1>2. wire' = wire \/ wire' = Append(wire, m)
  BY DEF Reply
<1>3. CASE wire' = wire
  BY <1>3 DEF WireOwn
<1>4. CASE wire' = Append(wire, m)
  BY <1>1, <1>4, AnswerJoins DEF WireOwn
<1> QED BY <1>2, <1>3, <1>4

\* A command that joins those before the sender.
LEMMA DemandedOwn ==
  ASSUME ImageTypeOK, CommandsOwn, NEW id \in Kinds, NEW file \in Files, Own(file), NEW who \in Nat,
         Demand(id, file, who), UNCHANGED slot
  PROVE  CommandsOwn'
<1> DEFINE c == Packet(id, asked + 1, file)
<1>1. out \in Seq(Packets) /\ c \in Packets /\ out' = Append(out, c) /\ c.file = file
  BY Demanded DEF ImageTypeOK, Packet
<1> HIDE DEF c
<1>2. /\ DOMAIN out' = 1..(Len(out) + 1) /\ DOMAIN out = 1..Len(out) /\ Len(out) \in Nat
      /\ \A j \in 1..Len(out) : out'[j] = out[j]
      /\ out'[Len(out) + 1] = c
  BY <1>1, Appended
<1>3. \A i \in DOMAIN out' : i \in DOMAIN out \/ i = Len(out) + 1
  BY <1>2
<1>4. \A i \in DOMAIN out' : Own(out'[i].file)
  BY <1>1, <1>2, <1>3 DEF CommandsOwn
<1> QED BY <1>4 DEF CommandsOwn

\* Every step of the images keeps their pixels.
LEMMA PixelsStep ==
  ASSUME ImageTypeOK, PixelsOK, [ImageNext]_imageVars
  PROVE  PixelsOK'
<1>1. FilesOwn /\ CommandsOwn /\ WireOwn /\ InboxOwn /\ GivenOwn
  BY DEF PixelsOK
<1>2. Error(0) \in Messages /\ \A n : OwnAnswer(Error(n))
  BY DEF Error, Messages, Errors, OwnAnswer
<1>3. wire \in Seq(Messages) /\ inbox \in Seq(Messages) /\ out \in Seq(Packets) /\ slot \in Packets
  BY DEF ImageTypeOK
<1>4. /\ \A id \in {"capture", "clear", "finish", "send"} : id \in Kinds
      /\ task.id \in Nat /\ opened \in Nat
  BY DEF Kinds, ImageTypeOK, Tasks
<1>5. CASE UNCHANGED <<files, slot, out, wire, inbox, given>>
  BY <1>1, <1>5 DEF PixelsOK, FilesOwn, CommandsOwn, WireOwn, InboxOwn, GivenOwn
<1>6. CASE Take \/ Skip \/ NoShot \/ CaptureEnd \/ Answered \/ Settle
  BY <1>5, <1>6 DEF Take, Skip, NoShot, CaptureEnd, Answered, Settle, imageHistory, link, app, gather
<1>7. CASE Reconnect \/ Again \/ OpenTest \/ StartTask \/ TakeResult \/ TaskEnd
  BY <1>5, <1>7 DEF Reconnect, Again, OpenTest, StartTask, TakeResult, TaskEnd, imageHistory, imageHal,
     link, app, gather
<1>8. CASE CaptureBegin
  <2>1. wire' = wire \/ Reply(Error(0))
    BY <1>8 DEF CaptureBegin
  <2>2. UNCHANGED <<files, slot, out, inbox, given>>
    BY <1>8 DEF CaptureBegin, app, gather, imageHistory
  <2>3. WireOwn'
    BY <1>1, <1>2, <2>1, RepliedOwn DEF WireOwn
  <2> QED BY <1>1, <2>2, <2>3 DEF PixelsOK, FilesOwn, CommandsOwn, InboxOwn, GivenOwn
<1>9. CASE Processed \/ Original
  <2>1. touches' \in Nat /\ (ImageCapture(0) \/ ImageCapture(1))
    BY <1>9 DEF Processed, Original, ImageTypeOK
  <2>2. \E m \in Pictures : Reply(m) /\ (m.err = 0 => Own(m))
    BY <2>1, CaptureFacts
  <2>3. WireOwn'
    BY <1>1, <2>2, RepliedOwn DEF Messages, OwnAnswer
  <2>4. UNCHANGED <<files, slot, out, inbox, given>>
    BY <1>9 DEF Processed, Original, app, gather, imageHistory
  <2> QED BY <1>1, <2>3, <2>4 DEF PixelsOK, FilesOwn, CommandsOwn, InboxOwn, GivenOwn
<1>10. CASE SendImage
  <2>1. /\ \E m \in Errors \cup Results : Reply(m)
        /\ \/ given' = given
           \/ given' = [px |-> BmpData(slot.file.img), orig |-> slot.file.orig,
                        shot |-> slot.file.shot]
    BY <1>10, SendFacts
  <2>2. \A m \in Errors \cup Results : m \in Messages /\ OwnAnswer(m)
    BY DEF Messages, Errors, Results, OwnAnswer
  <2>3. WireOwn'
    BY <1>1, <2>1, <2>2, RepliedOwn
  <2>4. UNCHANGED <<files, slot, out, inbox>>
    BY <1>10 DEF SendImage, app, gather
  <2>5. GivenOwn'
    <3> DEFINE f == slot.file
    <3>1. CASE given' = given
      BY <1>1, <3>1 DEF GivenOwn
    <3>2. CASE given' = [px |-> BmpData(f.img), orig |-> f.orig, shot |-> f.shot] /\ f.orig = 0
      <4>1. f.img \in Images
        BY <1>3 DEF Packets, Files
      <4>2. Len(BmpData(f.img)) = f.img.w * f.img.h
        BY <4>1, BmpDataType
      <4>3. BmpData(f.img) = Shot(f.shot, 0, f.img.w * f.img.h)
        BY <1>1, <3>2 DEF CommandsOwn, Own
      <4> QED BY <3>2, <4>2, <4>3 DEF GivenOwn
    <3>3. CASE given' = [px |-> BmpData(f.img), orig |-> f.orig, shot |-> f.shot] /\ f.orig # 0
      BY <3>3 DEF GivenOwn
    <3> QED BY <2>1, <3>1, <3>2, <3>3
  <2> QED BY <1>1, <2>3, <2>4, <2>5 DEF PixelsOK, FilesOwn, CommandsOwn, InboxOwn
<1>11. CASE FinishImages
  <2> DEFINE m == [kind |-> IF worker = "clear" THEN "next" ELSE "success", n |-> slot.n]
  <2>1. m \in Messages /\ OwnAnswer(m) /\ Reply(m)
    BY <1>3, <1>11 DEF FinishImages, Messages, Errors, Packets, OwnAnswer
  <2>2. WireOwn'
    BY <1>1, <2>1, RepliedOwn
  <2>3. UNCHANGED <<files, slot, out, inbox, given>>
    BY <1>11 DEF FinishImages, app, gather, imageHistory
  <2> QED BY <1>1, <2>2, <2>3 DEF PixelsOK, FilesOwn, CommandsOwn, InboxOwn, GivenOwn
<1>12. CASE Send
  <2>1. /\ DOMAIN Tail(out) = 1..(Len(out) - 1) /\ DOMAIN out = 1..Len(out)
        /\ Len(out) \in Nat \ {0} /\ \A i \in 1..(Len(out) - 1) : Tail(out)[i] = out[i + 1]
        /\ Head(out) = out[1] /\ Head(out) \in Packets
    BY <1>3, <1>12, Removed DEF Send
  <2>2. out' = Tail(out) /\ (slot' = slot \/ slot' = Head(out))
    BY <1>12 DEF Send
  <2>3. 1 \in DOMAIN out /\ \A i \in DOMAIN out' : i + 1 \in DOMAIN out /\ out'[i] = out[i + 1]
    BY <2>1, <2>2
  <2>4. CommandsOwn'
    BY <1>1, <2>1, <2>2, <2>3 DEF CommandsOwn
  <2>5. inbox' = inbox \/ inbox' = Append(inbox, Error(Head(out).n))
    BY <1>12 DEF Send, ResponseErr
  <2>6. Error(Head(out).n) \in Messages
    BY <2>1 DEF Error, Messages, Errors, Packets
  <2>7. InboxOwn'
    BY <1>1, <1>2, <1>3, <2>5, <2>6, AnswerJoins DEF InboxOwn
  <2>8. UNCHANGED <<files, wire, given>>
    BY <1>12 DEF Send, app, gather, imageHistory
  <2> QED BY <1>1, <2>4, <2>7, <2>8 DEF PixelsOK, FilesOwn, WireOwn, GivenOwn
<1>13. CASE Receive
  <2>1. wire # <<>> /\ (wire' = Tail(wire) \/ wire' = <<>>)
    BY <1>13 DEF Receive
  <2>2. OwnAnswer(Head(wire)) /\ \A i \in DOMAIN Tail(wire) : OwnAnswer(Tail(wire)[i])
    BY <1>1, <1>3, <2>1, AnswerLeaves DEF WireOwn
  <2>3. WireOwn'
    BY <2>1, <2>2 DEF WireOwn
  <2>4. inbox' = inbox \/ inbox' = Append(inbox, Decoded(Head(wire)))
    BY <1>13 DEF Receive
  <2>5. Head(wire) \in Messages
    BY <1>3, <2>1, Removed
  <2>6. Decoded(Head(wire)) \in Messages /\ OwnAnswer(Decoded(Head(wire)))
    BY <1>2, <2>2, <2>5 DEF Decoded, Error, Messages, Errors, Results, Pictures
  <2>7. InboxOwn'
    BY <1>1, <1>3, <2>4, <2>6, AnswerJoins DEF InboxOwn
  <2>8. UNCHANGED <<files, slot, out, given>>
    BY <1>13 DEF Receive, app, gather, imageHal
  <2> QED BY <1>1, <2>3, <2>7, <2>8 DEF PixelsOK, FilesOwn, CommandsOwn, GivenOwn
<1>14. CASE Handle
  <2>1. inbox # <<>> /\ inbox' = Tail(inbox)
    BY <1>14 DEF Handle
  <2>2. OwnAnswer(Head(inbox)) /\ \A i \in DOMAIN Tail(inbox) : OwnAnswer(Tail(inbox)[i])
    BY <1>1, <1>3, <2>1, AnswerLeaves DEF InboxOwn
  <2>3. InboxOwn'
    BY <2>1, <2>2 DEF InboxOwn
  <2>4. files' = files \/ UpdateData(Head(inbox))
    BY <1>14 DEF Handle, gather
  <2>5. FilesOwn'
    <3>1. CASE files' = files
      BY <1>1, <3>1 DEF FilesOwn
    <3>2. CASE files' # files
      <4> DEFINE m == Head(inbox)
                 f == [img |-> m.img, orig |-> m.orig, shot |-> m.shot]
      <4>1. /\ m.kind = "image" /\ m.err = 0
            /\ files' = [files EXCEPT ![enrolled + 1] = f] \/ files' = [files EXCEPT ![enrolled + 1] = NoFile]
        BY <2>4, <3>2 DEF UpdateData, gather
      <4>2. Own(m)
        BY <2>2, <4>1 DEF OwnAnswer
      <4>3. Own(f)
        BY <4>2 DEF Own
      <4>4. files \in [1..Samples -> Files]
        BY DEF ImageTypeOK
      <4> HIDE DEF f
      <4>5. \A k \in 1..Samples : files'[k] \in {files[k], f, NoFile}
        BY <4>1, <4>4
      <4> QED BY <1>1, <4>3, <4>5, NoFileOwn DEF FilesOwn
    <3> QED BY <3>1, <3>2
  <2>6. UNCHANGED <<slot, out, wire, given>>
    BY <1>14 DEF Handle, imageHal, imageHistory
  <2> QED BY <1>1, <2>3, <2>5, <2>6 DEF PixelsOK, CommandsOwn, WireOwn, GivenOwn
<1>15. CASE NextImage
  <2>1. Min(Left) \in 1..Samples
    <3>1. task.file \in Nat /\ Samples \in Nat
      BY ImageConstants DEF ImageTypeOK, Tasks
    <3> QED BY <1>15, <3>1, LeftIsLeft DEF NextImage
  <2>2. files[Min(Left)] \in Files /\ Own(files[Min(Left)])
    BY <1>1, <2>1 DEF ImageTypeOK, FilesOwn
  <2>3. /\ Demand("send", files[Min(Left)], task.id)
        /\ UNCHANGED <<files, slot, wire, inbox, given>>
    BY <1>15 DEF NextImage, gather, imageHal
  <2>4. CommandsOwn'
    BY <1>1, <1>4, <2>2, <2>3, DemandedOwn
  <2> QED BY <1>1, <2>3, <2>4 DEF PixelsOK, FilesOwn, WireOwn, InboxOwn, GivenOwn
<1>16. CASE NextFinger \/ LeaveGather \/ LeaveTest \/ OpenGather
  <2>1. /\ \E id \in {"capture", "clear", "finish"}, who \in Nat : Demand(id, NoFile, who)
        /\ UNCHANGED <<slot, wire, inbox, given>>
    BY <1>4, <1>16 DEF NextFinger, LeaveGather, LeaveTest, OpenGather, imageHal
  <2>2. CommandsOwn'
    BY <1>1, <1>4, <2>1, NoFileOwn, DemandedOwn
  <2>3. FilesOwn'
    <3>1. files' = files \/ files' = [k \in 1..Samples |-> NoFile]
      BY <1>16 DEF NextFinger, LeaveGather, LeaveTest, OpenGather, gather
    <3> QED BY <1>1, <3>1, NoFileOwn DEF FilesOwn
  <2> QED BY <1>1, <2>1, <2>2, <2>3 DEF PixelsOK, WireOwn, InboxOwn, GivenOwn
<1>17. CASE UNCHANGED imageVars
  BY <1>5, <1>17 DEF imageVars, imageHal, link, app, gather, imageHistory
<1> QED BY <1>6, <1>7, <1>8, <1>9, <1>10, <1>11, <1>12, <1>13, <1>14, <1>15, <1>16, <1>17
        DEF ImageNext, ImageWorker, Service, Task, User

-----------------------------------------------------------------------------
(***************************************************************************)
(* The one answer to the image the task waits for.                         *)
(*                                                                         *)
(* Unless the two have come out of step, the command of that image is in   *)
(* one place at most: before the sender, with the worker, or, as the       *)
(* answer, on the wire, before the main thread or with the task; and       *)
(* nothing else that is under way is an image or the result of one.        *)
(***************************************************************************)
Awaits == task.at = "wait"

\* An answer that tells the task of its command, and where there is one.
Tells(a) == a.kind \in {"error", "result"} /\ a.n = task.n
Told(s) == \E i \in DOMAIN s : Tells(s[i])

\* The worker has an image, or is about to take one.
InWorker == worker = "send" \/ (slot.id = "send" /\ requested)

NumbersOK ==
  /\ task.n <= asked /\ slot.n <= asked /\ result.n <= asked
  /\ \A i \in DOMAIN out : out[i].n <= asked
  /\ \A i \in DOMAIN wire : wire[i].n <= asked
  /\ \A i \in DOMAIN inbox : inbox[i].n <= asked
  /\ \A i, j \in DOMAIN out : out[i].n = out[j].n => i = j
  /\ \A i \in DOMAIN out : out[i].n # slot.n
  /\ Awaits => task.n > 0

OutOK ==
  \A i \in DOMAIN out :
    /\ out[i].id = "send" => Awaits /\ out[i].n = task.n
    /\ Awaits /\ out[i].n = task.n =>
         out[i].id = "send" /\ ~ InWorker /\ ~ Told(wire) /\ ~ Told(inbox) /\ ~ Tells(result)

SlotOK ==
  /\ worker \in {"capture", "loop", "shot"} /\ ~ requested => slot.id = "capture"
  /\ worker = "send" => (slot.id = "send" <=> ~ requested)
  /\ InWorker => Awaits /\ ~ Told(wire) /\ ~ Told(inbox) /\ ~ Tells(result)
  /\ InWorker /\ slot.id = "send" => slot.n = task.n
  /\ Awaits /\ slot.n = task.n => slot.id = "send"

WireOK ==
  /\ \A i \in DOMAIN wire : wire[i].kind = "result" => Awaits /\ wire[i].n = task.n
  /\ Awaits => \A i, j \in DOMAIN wire : Tells(wire[i]) /\ Tells(wire[j]) => i = j
  /\ Awaits /\ Told(wire) => ~ Told(inbox) /\ ~ Tells(result)

InboxOK ==
  /\ \A i \in DOMAIN inbox : inbox[i].kind = "result" => Awaits /\ inbox[i].n = task.n
  /\ Awaits => \A i, j \in DOMAIN inbox : Tells(inbox[i]) /\ Tells(inbox[j]) => i = j
  /\ Awaits /\ Told(inbox) => ~ Tells(result)

ResultOK == Awaits /\ result.kind = "result" => result.n = task.n

InStep == mixed \/ cut \/ (OutOK /\ SlotOK /\ WireOK /\ InboxOK /\ ResultOK)

\* Where the elements of a sequence are after Append and Tail.
LEMMA PlacesAppended ==
  ASSUME NEW S, NEW s \in Seq(S), NEW e \in S, NEW u, u = Append(s, e)
  PROVE  /\ \A i \in DOMAIN u : \/ i \in DOMAIN s /\ u[i] = s[i]
                                \/ i = Len(s) + 1 /\ u[i] = e
         /\ Len(s) + 1 \notin DOMAIN s /\ Len(s) + 1 \in DOMAIN u
         /\ \A i \in DOMAIN s : i \in DOMAIN u
<1>1. /\ DOMAIN u = 1..(Len(s) + 1) /\ DOMAIN s = 1..Len(s) /\ Len(s) \in Nat
      /\ \A i \in 1..Len(s) : u[i] = s[i]
      /\ u[Len(s) + 1] = e
  BY Appended
<1> QED BY <1>1

\* So are the places when the first element is taken off.
LEMMA PlacesRemoved ==
  ASSUME NEW S, NEW s \in Seq(S), s # <<>>, NEW u, u = Tail(s)
  PROVE  /\ \A i \in DOMAIN u : i + 1 \in DOMAIN s /\ u[i] = s[i + 1] /\ i \in Nat /\ i > 0
         /\ 1 \in DOMAIN s /\ s[1] = Head(s) /\ Head(s) \in S
<1>1. /\ DOMAIN u = 1..(Len(s) - 1) /\ DOMAIN s = 1..Len(s) /\ Len(s) \in Nat \ {0}
      /\ \A i \in 1..(Len(s) - 1) : u[i] = s[i + 1]
      /\ Head(s) = s[1] /\ Head(s) \in S
  BY Removed
<1> QED BY <1>1

\* An answer that tells nothing of the task changes nothing.
LEMMA WireJoined ==
  ASSUME wire \in Seq(Messages), NEW m \in Messages, Reply(m), UNCHANGED task
  PROVE  /\ Told(wire)' => Told(wire) \/ Tells(m)
         /\ WireOK /\ UNCHANGED <<inbox, result>> /\ ~ Tells(m) /\ m.kind # "result" => WireOK'
         /\ WireOK /\ UNCHANGED <<inbox, result>> /\ ~ Told(wire) /\ Awaits
              /\ (m.kind = "result" => m.n = task.n)
              /\ (Tells(m) => ~ Told(inbox) /\ ~ Tells(result)) => WireOK'
<1>1. wire' = wire \/ wire' = Append(wire, m)
  BY DEF Reply
<1>2. CASE wire' = wire
  BY <1>2 DEF WireOK, Awaits, Told, Tells
<1>3. CASE wire' = Append(wire, m)
  <2> DEFINE u == wire'
  <2>1. /\ \A i \in DOMAIN u : \/ i \in DOMAIN wire /\ u[i] = wire[i]
                               \/ i = Len(wire) + 1 /\ u[i] = m
        /\ Len(wire) + 1 \notin DOMAIN wire /\ Len(wire) + 1 \in DOMAIN u
        /\ \A i \in DOMAIN wire : i \in DOMAIN u
    BY <1>3, PlacesAppended
  <2> QED BY <2>1 DEF WireOK, Awaits, Told, Tells
<1> QED BY <1>1, <1>2, <1>3

\* A command that is asked for joins with a number of its own.
LEMMA CommandJoins ==
  ASSUME ImageTypeOK, NumbersOK, NEW id \in Kinds, NEW file \in Files, NEW who \in Nat,
         Demand(id, file, who)
  PROVE  /\ asked' = asked + 1 /\ asked \in Nat
         /\ \A i \in DOMAIN out' :
              \/ i \in DOMAIN out /\ out'[i] = out[i] /\ out[i].n # asked + 1
              \/ /\ i = Len(out) + 1
                 /\ out'[i].id = id /\ out'[i].n = asked + 1
<1> DEFINE c == Packet(id, asked + 1, file)
           u == out'
<1>1. out \in Seq(Packets) /\ c \in Packets /\ u = Append(out, c) /\ asked' = asked + 1
      /\ asked \in Nat /\ c.id = id /\ c.n = asked + 1
  BY Demanded DEF ImageTypeOK, Packet
<1> HIDE DEF c, u
<1>2. /\ \A i \in DOMAIN u : \/ i \in DOMAIN out /\ u[i] = out[i]
                             \/ i = Len(out) + 1 /\ u[i] = c
  BY <1>1, PlacesAppended
<1>3. \A i \in DOMAIN out : out[i].n # asked + 1
  <2> TAKE i \in DOMAIN out
  <2>1. out[i] \in Packets /\ out[i].n <= asked
    BY <1>1 DEF NumbersOK
  <2> QED BY <1>1, <2>1 DEF Packets
<1> QED BY <1>1, <1>2, <1>3 DEF u

\* Numbers of what is under way, as numbers.
LEMMA NumberTypes ==
  ASSUME ImageTypeOK
  PROVE  /\ asked \in Nat /\ task.n \in Nat /\ slot.n \in Nat /\ result.n \in Nat
         /\ \A i \in DOMAIN out : out[i].n \in Nat
         /\ \A i \in DOMAIN wire : wire[i].n \in Nat
         /\ \A i \in DOMAIN inbox : inbox[i].n \in Nat
<1>1. /\ asked \in Nat /\ task \in Tasks /\ slot \in Packets /\ out \in Seq(Packets)
      /\ wire \in Seq(Messages) /\ inbox \in Seq(Messages)
      /\ result \in {NoResult} \cup Wakings
  BY DEF ImageTypeOK
<1>2. \A m \in Messages : m.n \in Nat
  BY DEF Messages, Errors, Results, Pictures
<1>3. result.n \in Nat
  BY <1>1 DEF NoResult, Wakings, Results
<1>4. \A c \in Packets : c.n \in Nat
  BY DEF Packets
<1>5. task.n \in Nat
  BY <1>1 DEF Tasks
<1> QED BY <1>1, <1>2, <1>3, <1>4, <1>5

\* What the worker answers has the number of a command.
LEMMA NumberReplied ==
  ASSUME ImageTypeOK, NumbersOK, NEW m \in Messages, m.n <= asked, Reply(m), UNCHANGED asked
  PROVE  \A i \in DOMAIN wire' : wire'[i].n <= asked'
<1> DEFINE u == wire'
<1>1. wire \in Seq(Messages) /\ (u = wire \/ u = Append(wire, m))
  BY DEF ImageTypeOK, Reply
<1>2. CASE u = wire
  BY <1>2 DEF NumbersOK
<1>3. CASE u = Append(wire, m)
  <2>1. \A i \in DOMAIN u : (i \in DOMAIN wire /\ u[i] = wire[i]) \/ u[i] = m
    BY <1>1, <1>3, PlacesAppended
  <2> QED BY <2>1 DEF NumbersOK
<1> QED BY <1>1, <1>2, <1>3

\* A command that is asked for has a number that no other has.
LEMMA NumberDemanded ==
  ASSUME ImageTypeOK, NumbersOK, NEW id \in Kinds, NEW file \in Files, NEW who \in Nat,
         Demand(id, file, who), UNCHANGED <<slot, wire, inbox>>,
         result' = result \/ result' = NoResult,
         task'.n = task.n \/ task'.n = asked + 1, Awaits' => task'.n > 0
  PROVE  NumbersOK'
<1>1. /\ asked' = asked + 1 /\ asked \in Nat
      /\ \A i \in DOMAIN out' : \/ i \in DOMAIN out /\ out'[i] = out[i] /\ out[i].n # asked + 1
                                \/ i = Len(out) + 1 /\ out'[i].n = asked + 1
  BY CommandJoins
<1>2. /\ task.n \in Nat /\ slot.n \in Nat /\ result.n \in Nat
      /\ \A i \in DOMAIN out : out[i].n \in Nat
      /\ \A i \in DOMAIN wire : wire[i].n \in Nat
      /\ \A i \in DOMAIN inbox : inbox[i].n \in Nat
  BY NumberTypes
<1>3. task'.n <= asked' /\ slot'.n <= asked' /\ result'.n <= asked'
  BY <1>1, <1>2 DEF NumbersOK, NoResult
<1>4. /\ \A i \in DOMAIN wire' : wire'[i].n <= asked'
      /\ \A i \in DOMAIN inbox' : inbox'[i].n <= asked'
      /\ \A i \in DOMAIN out' : out'[i].n <= asked'
  BY <1>1, <1>2 DEF NumbersOK
<1>5. \A i, j \in DOMAIN out' : out'[i].n = out'[j].n => i = j
  BY <1>1 DEF NumbersOK
<1>6. \A i \in DOMAIN out' : out'[i].n # slot'.n
  BY <1>1, <1>2 DEF NumbersOK
<1> QED BY <1>3, <1>4, <1>5, <1>6 DEF NumbersOK

\* Every step keeps the order of the numbers.
LEMMA NumbersStep ==
  ASSUME ImageTypeOK, NumbersOK, [ImageNext]_imageVars
  PROVE  NumbersOK'
<1>1. /\ asked \in Nat /\ task.n \in Nat /\ slot.n \in Nat /\ result.n \in Nat
      /\ \A i \in DOMAIN out : out[i].n \in Nat
      /\ \A i \in DOMAIN wire : wire[i].n \in Nat
      /\ \A i \in DOMAIN inbox : inbox[i].n \in Nat
  BY NumberTypes
<1>2. wire \in Seq(Messages) /\ inbox \in Seq(Messages) /\ out \in Seq(Packets) /\ slot \in Packets
      /\ task \in Tasks
  BY DEF ImageTypeOK
<1>3. CASE UNCHANGED <<asked, task, result, out, slot, inbox>> /\ \A i \in DOMAIN wire' : wire'[i].n <= asked'
  BY <1>3 DEF NumbersOK, Awaits
<1>4. CASE Take \/ Skip \/ NoShot \/ CaptureEnd \/ Answered \/ Settle
  BY <1>3, <1>4 DEF Take, Skip, NoShot, CaptureEnd, Answered, Settle, imageHistory, link, app, gather,
     NumbersOK
<1>5. CASE Reconnect \/ Again \/ OpenTest
  BY <1>3, <1>5 DEF Reconnect, Again, OpenTest, imageHistory, imageHal, link, app, gather, NumbersOK
<1>6. CASE CaptureBegin
  <2>1. Error(0) \in Messages /\ Error(0).n = 0 /\ 0 <= asked
    BY <1>1 DEF Error, Messages, Errors
  <2>2. (wire' = wire \/ Reply(Error(0))) /\ UNCHANGED <<asked, task, result, out, slot, inbox>>
    BY <1>6 DEF CaptureBegin, app, imageHistory
  <2>3. \A i \in DOMAIN wire' : wire'[i].n <= asked'
    BY <2>1, <2>2, NumberReplied DEF NumbersOK
  <2> QED BY <1>3, <2>2, <2>3
<1>7. CASE Processed \/ Original
  <2>1. touches' \in Nat /\ (ImageCapture(0) \/ ImageCapture(1))
    BY <1>7 DEF Processed, Original, ImageTypeOK
  <2>2. \E m \in Pictures : Reply(m)
    BY <2>1, CaptureFacts
  <2>3. \A m \in Pictures : m \in Messages /\ m.n <= asked
    BY <1>1 DEF Pictures, Messages
  <2>4. UNCHANGED <<asked, task, result, out, slot, inbox>>
    BY <1>7 DEF Processed, Original, app, imageHistory
  <2>5. \A i \in DOMAIN wire' : wire'[i].n <= asked'
    BY <2>2, <2>3, <2>4, NumberReplied
  <2> QED BY <1>3, <2>4, <2>5
<1>8. CASE SendImage
  <2>1. \E m \in Errors \cup Results : Reply(m) /\ m.n = slot.n
    BY <1>8, SendFacts
  <2>2. UNCHANGED <<asked, task, result, out, slot, inbox>>
    BY <1>8 DEF SendImage, app
  <2>3. \A i \in DOMAIN wire' : wire'[i].n <= asked'
    BY <2>1, <2>2, NumberReplied DEF NumbersOK, Messages
  <2> QED BY <1>3, <2>2, <2>3
<1>9. CASE FinishImages
  <2> DEFINE m == [kind |-> IF worker = "clear" THEN "next" ELSE "success", n |-> slot.n]
  <2>1. m \in Messages /\ Reply(m) /\ m.n = slot.n
    BY <1>2, <1>9 DEF FinishImages, Messages, Errors, Packets
  <2>2. UNCHANGED <<asked, task, result, out, slot, inbox>>
    BY <1>9 DEF FinishImages, app, imageHistory
  <2> HIDE DEF m
  <2>3. \A i \in DOMAIN wire' : wire'[i].n <= asked'
    BY <2>1, <2>2, NumberReplied DEF NumbersOK
  <2> QED BY <1>3, <2>2, <2>3
<1>10. CASE Send
  <2> DEFINE u == out'
             v == inbox'
  <2>1. out # <<>> /\ u = Tail(out) /\ UNCHANGED <<asked, task, result, wire>>
        /\ (slot' = slot \/ slot' = Head(out))
        /\ (v = inbox \/ v = Append(inbox, Error(Head(out).n)))
    BY <1>10 DEF Send, ResponseErr, app, imageHistory
  <2> HIDE DEF u, v
  <2>2. /\ \A i \in DOMAIN u : i + 1 \in DOMAIN out /\ u[i] = out[i + 1] /\ i \in Nat /\ i > 0
        /\ 1 \in DOMAIN out /\ out[1] = Head(out) /\ Head(out) \in Packets
    BY <1>2, <2>1, PlacesRemoved
  <2>3. slot'.n \in {slot.n, out[1].n}
    BY <2>1, <2>2
  <2>4. \A i \in DOMAIN u : u[i].n <= asked /\ u[i].n # slot.n /\ u[i].n # out[1].n
    BY <2>2 DEF NumbersOK
  <2>5. \A i, j \in DOMAIN u : u[i].n = u[j].n => i = j
    BY <2>2 DEF NumbersOK
  <2>6. \A i \in DOMAIN v : v[i].n <= asked
    <3>1. Error(Head(out).n) \in Messages /\ Error(Head(out).n).n = out[1].n
      BY <1>1, <2>2 DEF Error, Messages, Errors
    <3>2. \A i \in DOMAIN v : (i \in DOMAIN inbox /\ v[i] = inbox[i]) \/ v[i].n = out[1].n
      BY <1>2, <2>1, <3>1, PlacesAppended
    <3> QED BY <2>2, <3>2 DEF NumbersOK
  <2> QED BY <2>1, <2>2, <2>3, <2>4, <2>5, <2>6 DEF NumbersOK, Awaits, u, v
<1>11. CASE Receive
  <2> DEFINE u == wire'
             v == inbox'
  <2>1. wire # <<>> /\ (u = Tail(wire) \/ u = <<>>) /\ UNCHANGED <<asked, task, result, out, slot>>
        /\ (v = inbox \/ v = Append(inbox, Decoded(Head(wire))))
    BY <1>11 DEF Receive, app, imageHal
  <2> HIDE DEF u, v
  <2>2. \A i \in DOMAIN u : i + 1 \in DOMAIN wire /\ u[i] = wire[i + 1]
    BY <1>2, <2>1, PlacesRemoved
  <2>3. 1 \in DOMAIN wire /\ wire[1] = Head(wire) /\ Head(wire) \in Messages
    BY <1>2, <2>1, PlacesRemoved
  <2>4. Decoded(Head(wire)) \in Messages /\ Decoded(Head(wire)).n = wire[1].n
    BY <2>3 DEF Decoded, Error, Messages, Errors, Results, Pictures
  <2>5. \A i \in DOMAIN v : (i \in DOMAIN inbox /\ v[i] = inbox[i]) \/ v[i].n = wire[1].n
    BY <1>2, <2>1, <2>4, PlacesAppended
  <2>6. (\A i \in DOMAIN u : u[i].n <= asked) /\ \A i \in DOMAIN v : v[i].n <= asked
    BY <2>2, <2>3, <2>5 DEF NumbersOK
  <2> QED BY <2>1, <2>6 DEF NumbersOK, Awaits, u, v
<1>12. CASE Handle
  <2> DEFINE v == inbox'
  <2>1. inbox # <<>> /\ v = Tail(inbox) /\ UNCHANGED <<asked, out, slot, wire>>
    BY <1>12 DEF Handle, imageHal, imageHistory
  <2> HIDE DEF v
  <2>2. /\ \A i \in DOMAIN v : i + 1 \in DOMAIN inbox /\ v[i] = inbox[i + 1]
        /\ 1 \in DOMAIN inbox /\ inbox[1] = Head(inbox)
    BY <1>2, <2>1, PlacesRemoved
  <2>3. /\ result' = result \/ result' = Head(inbox)
        /\ task' = task \/ task' = [task EXCEPT !.at = "none"]
    BY <1>12 DEF Handle, Callback
  <2>4. task'.n = task.n /\ (task'.at = "wait" => task.at = "wait")
    BY <1>2, <2>3 DEF Tasks
  <2> QED BY <2>1, <2>2, <2>3, <2>4 DEF NumbersOK, Awaits, v
<1>13. CASE TakeResult \/ TaskEnd \/ StartTask
  <2>1. UNCHANGED <<asked, result, out, slot, wire, inbox>>
    BY <1>13 DEF TakeResult, TaskEnd, StartTask, link, app, imageHal, imageHistory
  <2>2. task'.at \in {"next", "none"} /\ task'.n \in {task.n, 0}
    BY <1>2, <1>13 DEF TakeResult, TaskEnd, StartTask, NoTask, Tasks
  <2> QED BY <1>1, <2>1, <2>2 DEF NumbersOK, Awaits
<1>14. CASE NextImage \/ NextFinger \/ LeaveGather \/ LeaveTest \/ OpenGather
  <2>1. \E id \in Kinds, file \in Files, who \in Nat : Demand(id, file, who)
    <3>1. task.id \in Nat /\ opened \in Nat /\ {"capture", "clear", "finish", "send"} \subseteq Kinds
      BY DEF Kinds, ImageTypeOK, Tasks
    <3>2. CASE NextImage
      <4>1. task.file \in Nat /\ Samples \in Nat
        BY ImageConstants DEF ImageTypeOK, Tasks
      <4>2. Min(Left) \in 1..Samples
        BY <3>2, <4>1, LeftIsLeft DEF NextImage
      <4>3. files[Min(Left)] \in Files
        BY <4>2 DEF ImageTypeOK
      <4> QED BY <3>1, <3>2, <4>3 DEF NextImage
    <3> QED BY <1>14, <3>1, <3>2, NoFileOwn DEF NextFinger, LeaveGather, LeaveTest, OpenGather
  <2>2. /\ UNCHANGED <<slot, wire, inbox>> /\ (result' = result \/ result' = NoResult)
    BY <1>14 DEF NextImage, NextFinger, LeaveGather, LeaveTest, OpenGather, imageHal, Forget
  <2>3. (task'.n = task.n /\ (Awaits' => Awaits)) \/ task'.n = asked + 1
    BY <1>2, <1>14 DEF NextImage, NextFinger, LeaveGather, LeaveTest, OpenGather, Tasks, Awaits
  <2>4. Awaits' => task'.n > 0
    BY <1>1, <2>3 DEF NumbersOK
  <2> QED BY <2>1, <2>2, <2>3, <2>4, NumberDemanded
<1>15. CASE UNCHANGED imageVars
  BY <1>3, <1>15 DEF imageVars, imageHal, link, app, gather, imageHistory, NumbersOK
<1> QED BY <1>4, <1>5, <1>6, <1>7, <1>8, <1>9, <1>10, <1>11, <1>12, <1>13, <1>14, <1>15
        DEF ImageNext, ImageWorker, Service, Task, User

\* What the command that is asked for, unless it is an image, leaves in step.
LEMMA OutJoined ==
  ASSUME ImageTypeOK, NumbersOK, OutOK, NEW id \in Kinds \ {"send"}, NEW file \in Files,
         NEW who \in Nat, Demand(id, file, who),
         UNCHANGED <<worker, slot, requested, wire, inbox, result>>,
         (task'.at = task.at /\ task'.n = task.n) \/ (~ Awaits /\ ~ Awaits')
  PROVE  OutOK'
<1>1. /\ asked' = asked + 1 /\ asked \in Nat
      /\ \A i \in DOMAIN out' :
           \/ i \in DOMAIN out /\ out'[i] = out[i] /\ out[i].n # asked + 1
           \/ /\ i = Len(out) + 1
              /\ out'[i].id = id /\ out'[i].n = asked + 1
  BY CommandJoins
<1>2. task.n \in Nat /\ task.n <= asked
  BY NumberTypes DEF NumbersOK
<1> QED BY <1>1, <1>2 DEF OutOK, Awaits, InWorker, Told, Tells

\* Steps that leave the answers and the task alone.
LEMMA RestInStep ==
  ASSUME WireOK, InboxOK, ResultOK, UNCHANGED <<task, result, wire, inbox>>
  PROVE  WireOK' /\ InboxOK' /\ ResultOK'
BY DEF WireOK, InboxOK, ResultOK, Awaits, Told, Tells

\* The worker's answers that tell the task nothing.
LEMMA QuietReply ==
  ASSUME ImageTypeOK, OutOK, SlotOK, WireOK, InboxOK, ResultOK, NEW m \in Messages, Reply(m),
         ~ Tells(m), m.kind # "result", UNCHANGED <<task, result, out, slot, inbox>>,
         InWorker' => InWorker
  PROVE  OutOK' /\ WireOK' /\ InboxOK' /\ ResultOK' /\ (Told(wire)' => Told(wire))
<1>1. wire \in Seq(Messages)
  BY DEF ImageTypeOK
<1>2. (Told(wire)' => Told(wire)) /\ WireOK'
  BY <1>1, WireJoined
<1>3. OutOK'
  BY <1>2 DEF OutOK, Awaits, Told, Tells
<1>4. InboxOK' /\ ResultOK'
  BY DEF InboxOK, ResultOK, Awaits, Told, Tells
<1> QED BY <1>2, <1>3, <1>4

\* Every step keeps the task and its answers in step, or is the one that
\* puts them out of it.
LEMMA InStepStep ==
  ASSUME ImageTypeOK, NumbersOK, InStep, [ImageNext]_imageVars
  PROVE  InStep'
<1>1. (mixed => mixed') /\ (cut => cut')
  <2>1. CASE ImageWorker
    BY <2>1 DEF ImageWorker, Take, Skip, CaptureBegin, Processed, NoShot, CaptureEnd, SendImage,
       FinishImages, Answered, Settle, imageHistory
  <2>2. CASE Original \/ Send \/ Reconnect \/ Handle
    BY <2>2 DEF Original, Send, Reconnect, Handle, imageHistory
  <2>3. CASE Receive
    <3>1. mixed' = mixed
      BY <2>3 DEF Receive
    <3>2. cut => cut'
      <4>1. CASE cut' = cut
        BY <4>1, Zenon
      <4>2. CASE cut' = TRUE
        BY <4>2, Zenon
      <4> QED BY <2>3, <4>1, <4>2 DEF Receive
    <3> QED BY <3>1, <3>2, Zenon
  <2>4. CASE StartTask \/ NextImage \/ NextFinger \/ TaskEnd
    BY <2>4 DEF StartTask, NextImage, NextFinger, TaskEnd, imageHistory
  <2>5. CASE TakeResult
    <3>1. cut' = cut /\ mixed' = (mixed \/ (result.kind = "error" /\ result.n # task.n))
      BY <2>5 DEF TakeResult
    <3> QED BY <3>1, Zenon
  <2>6. CASE User
    BY <2>6 DEF User, OpenGather, LeaveGather, Again, OpenTest, LeaveTest, imageHistory
  <2>7. CASE UNCHANGED imageVars
    BY <2>7 DEF imageVars, imageHistory
  <2> QED BY <2>1, <2>2, <2>3, <2>4, <2>5, <2>6, <2>7 DEF ImageNext, Service, Task
<1> SUFFICES ASSUME ~ mixed', ~ cut' PROVE OutOK' /\ SlotOK' /\ WireOK' /\ InboxOK' /\ ResultOK'
  BY DEF InStep
<1>2. OutOK /\ SlotOK /\ WireOK /\ InboxOK /\ ResultOK
  BY <1>1 DEF InStep
<1>3. wire \in Seq(Messages) /\ inbox \in Seq(Messages) /\ out \in Seq(Packets) /\ slot \in Packets
      /\ task \in Tasks /\ result \in {NoResult} \cup Wakings
  BY DEF ImageTypeOK
<1>4. /\ asked \in Nat /\ task.n \in Nat /\ slot.n \in Nat /\ result.n \in Nat
      /\ \A i \in DOMAIN out : out[i].n \in Nat
  BY NumberTypes
<1>5. CASE UNCHANGED <<task, result, out, inbox, wire, slot, worker, requested>>
  BY <1>2, <1>5 DEF OutOK, SlotOK, WireOK, InboxOK, ResultOK, Awaits, InWorker, Told, Tells
<1>6. CASE Reconnect \/ Again \/ OpenTest
  BY <1>5, <1>6 DEF Reconnect, Again, OpenTest, imageHal, link, app, gather
<1>7. CASE Take \/ Skip \/ NoShot \/ CaptureEnd \/ Answered \/ Settle
  <2>1. UNCHANGED <<task, result, out, inbox, wire, slot>>
    BY <1>7 DEF Take, Skip, NoShot, CaptureEnd, Answered, Settle, link, app
  <2>2. InWorker' => InWorker
    BY <1>7 DEF Take, Skip, NoShot, CaptureEnd, Answered, Settle, InWorker
  <2>3. OutOK'
    BY <1>2, <2>1, <2>2 DEF OutOK, Awaits, Told, Tells
  <2>4. SlotOK'
    <3>1. (InWorker => Awaits /\ ~ Told(wire) /\ ~ Told(inbox) /\ ~ Tells(result))'
      BY <1>2, <2>1, <2>2 DEF SlotOK, Awaits, Told, Tells
    <3>2. /\ (InWorker /\ slot.id = "send" => slot.n = task.n)'
          /\ (Awaits /\ slot.n = task.n => slot.id = "send")'
      BY <1>2, <2>1, <2>2 DEF SlotOK, Awaits
    <3>3. CASE Take
      <4>1. worker' = slot.id /\ requested' = FALSE /\ slot' = slot
        BY <2>1, <3>3 DEF Take
      <4>2. /\ worker' \in {"capture", "loop", "shot"} => slot'.id = "capture"
            /\ worker' = "send" => slot'.id = "send"
        BY <1>3, <4>1 DEF Packets, Kinds
      <4>3. requested' = FALSE
        BY <4>1
      <4> QED BY <3>1, <3>2, <4>2, <4>3, Zenon DEF SlotOK
    <3>4. CASE Skip \/ CaptureEnd \/ Answered \/ Settle
      <4>1. worker' \in {"idle", "settle"}
        BY <3>4 DEF Skip, CaptureEnd, Answered, Settle
      <4> QED BY <3>1, <3>2, <4>1 DEF SlotOK
    <3>5. CASE NoShot
      <4>1. worker = "shot" /\ worker' = "loop" /\ requested' = requested
        BY <3>5 DEF NoShot
      <4> QED BY <1>2, <2>1, <3>1, <3>2, <4>1 DEF SlotOK
    <3> QED BY <1>7, <3>3, <3>4, <3>5
  <2> QED BY <1>2, <2>1, <2>3, <2>4, RestInStep
<1>8. CASE CaptureBegin
  <2>1. /\ UNCHANGED <<task, result, out, slot, inbox>> /\ worker = "capture"
        /\ worker' \in {"idle", "loop"}
        /\ \/ UNCHANGED <<wire, requested>>
           \/ requested' = TRUE /\ Reply(Error(0))
    BY <1>8 DEF CaptureBegin, app
  <2>2. InWorker' => InWorker
    BY <1>2, <2>1 DEF InWorker, SlotOK
  <2>3. CASE UNCHANGED wire
    <3>1. OutOK'
      BY <1>2, <2>1, <2>2, <2>3 DEF OutOK, Awaits, Told, Tells
    <3>2. SlotOK'
      BY <1>2, <2>1, <2>2, <2>3 DEF SlotOK, InWorker, Awaits, Told, Tells
    <3> QED BY <1>2, <2>1, <2>3, <3>1, <3>2, RestInStep
  <2>4. CASE Reply(Error(0)) /\ requested' = TRUE
    <3>1. CASE Awaits
      <4>1. Error(0) \in Messages /\ ~ Tells(Error(0)) /\ Error(0).kind # "result"
        BY <1>4, <3>1 DEF Error, Messages, Errors, Tells, NumbersOK
      <4>2. OutOK' /\ WireOK' /\ InboxOK' /\ ResultOK' /\ (Told(wire)' => Told(wire))
        BY <1>2, <2>1, <2>2, <2>4, <4>1, QuietReply
      <4>3. SlotOK'
        BY <1>2, <2>1, <2>2, <2>4, <4>2 DEF SlotOK, InWorker, Awaits, Told, Tells
      <4> QED BY <4>2, <4>3
    <3>2. CASE ~ Awaits
      <4>1. Error(0) \in Messages /\ Error(0).kind # "result"
        BY DEF Error, Messages, Errors
      <4> DEFINE u == wire'
      <4>2. u = wire \/ u = Append(wire, Error(0))
        BY <2>4 DEF Reply
      <4>3. \A i \in DOMAIN u : (i \in DOMAIN wire /\ u[i] = wire[i]) \/ u[i].kind # "result"
        BY <1>3, <4>1, <4>2, PlacesAppended
      <4> HIDE DEF u
      <4>4. ~ Awaits'
        BY <2>1, <3>2 DEF Awaits
      <4>5. WireOK'
        BY <1>2, <3>2, <4>3, <4>4 DEF WireOK, u
      <4>6. OutOK' /\ InboxOK' /\ ResultOK'
        BY <1>2, <2>1, <3>2, <4>4 DEF OutOK, InboxOK, ResultOK
      <4>7. SlotOK'
        BY <1>2, <2>1, <2>2, <2>4, <3>2, <4>4 DEF SlotOK, InWorker
      <4> QED BY <4>5, <4>6, <4>7
    <3> QED BY <3>1, <3>2
  <2> QED BY <2>1, <2>3, <2>4
<1>9. CASE Processed \/ Original
  <2>1. touches' \in Nat /\ (ImageCapture(0) \/ ImageCapture(1))
    BY <1>9 DEF Processed, Original, ImageTypeOK
  <2>2. PICK m \in Pictures : Reply(m)
    BY <2>1, CaptureFacts
  <2>3. m \in Messages /\ ~ Tells(m) /\ m.kind # "result"
    BY DEF Pictures, Messages, Tells
  <2>4. /\ UNCHANGED <<task, result, out, slot, inbox, requested>>
        /\ worker \in {"loop", "shot"} /\ worker' \in {"loop", "shot"}
    BY <1>9 DEF Processed, Original, app
  <2>5. InWorker' => InWorker
    BY <2>4 DEF InWorker
  <2>6. OutOK' /\ WireOK' /\ InboxOK' /\ ResultOK' /\ (Told(wire)' => Told(wire))
    BY <1>2, <2>2, <2>3, <2>4, <2>5, QuietReply
  <2>7. SlotOK'
    BY <1>2, <2>4, <2>5, <2>6 DEF SlotOK, InWorker, Awaits, Told, Tells
  <2> QED BY <2>6, <2>7
<1>10. CASE SendImage
  <2>1. PICK m \in Errors \cup Results :
          /\ Reply(m) /\ m.n = slot.n /\ m.kind \in {"error", "result"}
          /\ m.kind = "result" => slot.id = "send"
    BY <1>10, SendFacts
  <2>2. m \in Messages
    BY DEF Messages
  <2>3. /\ UNCHANGED <<task, result, out, slot, inbox, requested>>
        /\ worker = "send" /\ worker' = "answered"
    BY <1>10 DEF SendImage, app
  <2>4. InWorker /\ Awaits /\ ~ Told(wire) /\ ~ Told(inbox) /\ ~ Tells(result)
    BY <1>2, <2>3 DEF SlotOK, InWorker
  <2>5. ~ InWorker'
    BY <1>2, <2>3 DEF SlotOK, InWorker
  <2>6. m.kind = "result" => m.n = task.n
    BY <1>2, <2>1, <2>4 DEF SlotOK
  <2>7. WireOK'
    BY <1>2, <1>3, <2>1, <2>2, <2>3, <2>4, <2>6, WireJoined
  <2>8. \A i \in DOMAIN out : out[i].n # task.n
    BY <1>2, <2>4 DEF OutOK
  <2>9. OutOK'
    BY <1>2, <2>3, <2>8 DEF OutOK, Awaits
  <2>10. SlotOK'
    BY <1>2, <2>3, <2>5 DEF SlotOK, Awaits
  <2>11. InboxOK' /\ ResultOK'
    BY <1>2, <2>3 DEF InboxOK, ResultOK, Awaits, Told, Tells
  <2> QED BY <2>7, <2>9, <2>10, <2>11
<1>11. CASE FinishImages
  <2> DEFINE m == [kind |-> IF worker = "clear" THEN "next" ELSE "success", n |-> slot.n]
  <2>1. m \in Messages /\ Reply(m) /\ ~ Tells(m) /\ m.kind # "result"
    BY <1>3, <1>11 DEF FinishImages, Messages, Errors, Packets, Tells
  <2>2. /\ UNCHANGED <<task, result, out, slot, inbox, requested>>
        /\ worker # "send" /\ worker' = "answered"
    BY <1>11 DEF FinishImages, app
  <2>3. InWorker' => InWorker
    BY <2>2 DEF InWorker
  <2> HIDE DEF m
  <2>4. OutOK' /\ WireOK' /\ InboxOK' /\ ResultOK' /\ (Told(wire)' => Told(wire))
    BY <1>2, <2>1, <2>2, <2>3, QuietReply
  <2>5. SlotOK'
    BY <1>2, <2>2, <2>3, <2>4 DEF SlotOK, InWorker, Awaits, Told, Tells
  <2> QED BY <2>4, <2>5
<1>12. CASE Send
  <2> DEFINE u == out'
             v == inbox'
  <2>1. out # <<>> /\ u = Tail(out) /\ UNCHANGED <<task, result, wire, worker>>
    BY <1>12 DEF Send, app
  <2>2. \/ slot' = Head(out) /\ requested' = TRUE /\ v = inbox
        \/ /\ UNCHANGED <<slot, requested>>
           /\ v = inbox \/ v = Append(inbox, Error(Head(out).n))
    BY <1>12 DEF Send, ResponseErr
  <2> HIDE DEF u, v
  <2>3. /\ \A i \in DOMAIN u : i + 1 \in DOMAIN out /\ u[i] = out[i + 1] /\ i \in Nat /\ i > 0
        /\ 1 \in DOMAIN out /\ out[1] = Head(out) /\ Head(out) \in Packets
    BY <1>3, <2>1, PlacesRemoved
  <2> DEFINE c == Head(out)
  <2>4. \A i \in DOMAIN u : u[i].n # c.n
    BY <2>3 DEF NumbersOK
  <2>5. /\ c.id = "send" => Awaits /\ c.n = task.n
        /\ Awaits /\ c.n = task.n =>
             c.id = "send" /\ ~ InWorker /\ ~ Told(wire) /\ ~ Told(inbox) /\ ~ Tells(result)
    BY <1>2, <2>3 DEF OutOK
  <2>6. \A i \in DOMAIN u :
          /\ u[i].id = "send" => Awaits /\ u[i].n = task.n
          /\ Awaits /\ u[i].n = task.n =>
               u[i].id = "send" /\ ~ InWorker /\ ~ Told(wire) /\ ~ Told(inbox) /\ ~ Tells(result)
    BY <1>2, <2>3 DEF OutOK
  <2> HIDE DEF c
  <2>7. CASE slot' = c /\ requested' = TRUE /\ v = inbox
    <3>1. InWorker' => InWorker \/ c.id = "send"
      BY <2>1, <2>7 DEF InWorker
    <3>2. OutOK'
      BY <2>1, <2>4, <2>5, <2>6, <2>7, <3>1 DEF OutOK, Awaits, Told, Tells, u, v
    <3>3. SlotOK'
      <4>1. CASE c.id = "send"
        <5>1. ~ InWorker /\ Awaits /\ c.n = task.n
          BY <2>5, <4>1
        <5> QED BY <2>1, <2>5, <2>7, <4>1, <5>1 DEF SlotOK, InWorker, Awaits, Told, Tells, v
      <4>2. CASE c.id # "send"
        <5>1. Awaits => c.n # task.n
          BY <2>5, <4>2
        <5> QED BY <1>2, <2>1, <2>7, <4>2, <5>1 DEF SlotOK, InWorker, Awaits, Told, Tells, v
      <4> QED BY <4>1, <4>2
    <3> QED BY <1>2, <2>1, <2>7, <3>2, <3>3, RestInStep DEF v
  <2>8. CASE UNCHANGED <<slot, requested>> /\ v = inbox
    <3>1. OutOK'
      BY <2>1, <2>6, <2>8 DEF OutOK, Awaits, InWorker, Told, Tells, u, v
    <3>2. SlotOK'
      BY <1>2, <2>1, <2>8 DEF SlotOK, InWorker, Awaits, Told, Tells, v
    <3> QED BY <1>2, <2>1, <2>8, <3>1, <3>2, RestInStep DEF v
  <2>9. CASE UNCHANGED <<slot, requested>> /\ v = Append(inbox, Error(c.n))
    <3>1. Error(c.n) \in Messages /\ Error(c.n).n = c.n /\ Error(c.n).kind = "error"
      BY <1>4, <2>3 DEF Error, Messages, Errors, c
    <3>2. /\ \A i \in DOMAIN v : \/ i \in DOMAIN inbox /\ v[i] = inbox[i]
                                 \/ i = Len(inbox) + 1 /\ v[i] = Error(c.n)
          /\ Len(inbox) + 1 \notin DOMAIN inbox
      BY <1>3, <2>9, <3>1, PlacesAppended
    <3>3. Awaits /\ Told(v) => Told(inbox) \/ c.n = task.n
      BY <3>1, <3>2 DEF Told, Tells
    <3>4. OutOK'
      BY <2>1, <2>4, <2>6, <2>9, <3>3 DEF OutOK, Awaits, InWorker, Told, Tells, u, v
    <3>5. SlotOK'
      BY <1>2, <2>1, <2>5, <2>9, <3>3 DEF SlotOK, InWorker, Awaits, Told, Tells, v
    <3>6. WireOK'
      BY <1>2, <2>1, <2>5, <3>3 DEF WireOK, Awaits, Told, Tells, v
    <3>7. InboxOK'
      BY <1>2, <2>1, <2>5, <3>1, <3>2, <3>3 DEF InboxOK, Awaits, Told, Tells, v
    <3>8. ResultOK'
      BY <1>2, <2>1 DEF ResultOK, Awaits
    <3> QED BY <3>4, <3>5, <3>6, <3>7, <3>8
  <2> QED BY <2>2, <2>7, <2>8, <2>9 DEF c
<1>13. CASE Receive
  <2> DEFINE u == wire'
             v == inbox'
             a == Decoded(Head(wire))
  <2>1. /\ wire # <<>> /\ u = Tail(wire) /\ (v = inbox \/ v = Append(inbox, a))
        /\ UNCHANGED <<task, result, out, slot, worker, requested>>
    BY <1>13 DEF Receive, app, imageHal
  <2> HIDE DEF u, v
  <2>2. /\ \A i \in DOMAIN u : i + 1 \in DOMAIN wire /\ u[i] = wire[i + 1] /\ i \in Nat /\ i > 0
        /\ 1 \in DOMAIN wire /\ wire[1] = Head(wire) /\ Head(wire) \in Messages
    BY <1>3, <2>1, PlacesRemoved
  <2>3. Told(u) => Told(wire)
    BY <2>2 DEF Told
  <2>4. a \in Messages /\ a.n = Head(wire).n
    BY <2>2 DEF Decoded, Error, Messages, Errors, Results, Pictures
  <2>5. a = Head(wire) \/ (a.kind = "error" /\ a.n = 0)
    BY <2>2 DEF Decoded, Error, Messages, Errors, Results, Pictures
  <2>6. Awaits /\ Tells(a) => Tells(Head(wire))
    BY <2>5 DEF Tells, NumbersOK
  <2> HIDE DEF a
  <2>7. CASE v = inbox
    <3>1. OutOK'
      BY <1>2, <2>1, <2>3, <2>7 DEF OutOK, Awaits, InWorker, Told, Tells, u, v
    <3>2. SlotOK'
      BY <1>2, <2>1, <2>3, <2>7 DEF SlotOK, InWorker, Awaits, Told, Tells, u, v
    <3>3. WireOK'
      BY <1>2, <2>1, <2>2, <2>3, <2>7 DEF WireOK, Awaits, Told, Tells, u, v
    <3>4. InboxOK' /\ ResultOK'
      BY <1>2, <2>1, <2>7 DEF InboxOK, ResultOK, Awaits, Told, Tells, v
    <3> QED BY <3>1, <3>2, <3>3, <3>4
  <2>8. CASE v = Append(inbox, a)
    <3>1. /\ \A i \in DOMAIN v : \/ i \in DOMAIN inbox /\ v[i] = inbox[i]
                                 \/ i = Len(inbox) + 1 /\ v[i] = a
          /\ Len(inbox) + 1 \notin DOMAIN inbox
      BY <1>3, <2>4, <2>8, PlacesAppended
    <3>2. Awaits /\ Told(v) => Told(inbox) \/ Told(wire)
      BY <2>2, <2>6, <3>1 DEF Told
    <3>3. Awaits /\ Tells(a) => ~ Told(u) /\ ~ Told(inbox) /\ ~ Tells(result)
      <4> SUFFICES ASSUME Awaits, Tells(a) PROVE ~ Told(u) /\ ~ Told(inbox) /\ ~ Tells(result)
        OBVIOUS
      <4>1. Tells(wire[1]) /\ 1 \in DOMAIN wire /\ Told(wire)
        BY <2>2, <2>6 DEF Told
      <4>2. \A i \in DOMAIN u : ~ Tells(u[i])
        BY <1>2, <2>2, <4>1 DEF WireOK
      <4> QED BY <1>2, <4>1, <4>2 DEF WireOK, Told
    <3>4. Awaits /\ Told(v) => Told(inbox) \/ Tells(a)
      BY <3>1 DEF Told
    <3>5. OutOK'
      BY <1>2, <2>1, <2>3, <3>2 DEF OutOK, Awaits, InWorker, Told, Tells, u, v
    <3>6. SlotOK'
      BY <1>2, <2>1, <2>3, <3>2 DEF SlotOK, InWorker, Awaits, Told, Tells, u, v
    <3>7. WireOK'
      <4>1. Awaits /\ Told(u) => ~ Told(v) /\ ~ Tells(result)
        BY <1>2, <2>3, <3>3, <3>4 DEF WireOK
      <4>2. /\ \A i \in DOMAIN u : u[i].kind = "result" => Awaits /\ u[i].n = task.n
            /\ Awaits => \A i, j \in DOMAIN u : Tells(u[i]) /\ Tells(u[j]) => i = j
        BY <1>2, <2>2 DEF WireOK
      <4> QED BY <2>1, <4>1, <4>2 DEF WireOK, Awaits, Told, Tells, u, v
    <3>8. InboxOK'
      <4>1. Awaits /\ Told(v) => ~ Tells(result)
        BY <1>2, <3>3, <3>4 DEF InboxOK
      <4>2. \A i \in DOMAIN v : v[i].kind = "result" => Awaits /\ v[i].n = task.n
        BY <1>2, <2>2, <2>5, <3>1 DEF InboxOK, WireOK
      <4>3. Awaits => \A i, j \in DOMAIN v : Tells(v[i]) /\ Tells(v[j]) => i = j
        BY <1>2, <3>1, <3>3 DEF InboxOK, Told
      <4> QED BY <2>1, <4>1, <4>2, <4>3 DEF InboxOK, Awaits, Told, Tells, v
    <3>9. ResultOK'
      BY <1>2, <2>1 DEF ResultOK, Awaits
    <3> QED BY <3>5, <3>6, <3>7, <3>8, <3>9
  <2> QED BY <2>1, <2>7, <2>8
<1>14. CASE Handle
  <2> DEFINE v == inbox'
             a == Head(inbox)
  <2>1. inbox # <<>> /\ v = Tail(inbox) /\ UNCHANGED <<out, slot, wire, worker, requested>>
    BY <1>14 DEF Handle, imageHal
  <2> HIDE DEF v
  <2>2. /\ \A i \in DOMAIN v : i + 1 \in DOMAIN inbox /\ v[i] = inbox[i + 1] /\ i \in Nat /\ i > 0
        /\ 1 \in DOMAIN inbox /\ inbox[1] = a /\ a \in Messages
    BY <1>3, <2>1, PlacesRemoved
  <2>3. Told(v) => Told(inbox)
    BY <2>2 DEF Told
  <2>4. \/ UNCHANGED result
        \/ result' = a /\ a.kind \in {"error", "result"}
    BY <1>14 DEF Handle, Callback
  <2>5. \/ UNCHANGED task
        \/ ~ Awaits /\ ~ Awaits'
    BY <1>3, <1>14 DEF Handle, Callback, Awaits, Tasks
  <2>6. Awaits /\ Tells(a) => Told(inbox) /\ ~ Told(v)
    BY <1>2, <2>2 DEF InboxOK, Told
  <2> HIDE DEF a
  <2>7. CASE ~ Awaits
    <3>1. ~ Awaits'
      BY <2>5, <2>7 DEF Awaits
    <3>2. OutOK'
      BY <1>2, <2>1, <2>7, <3>1 DEF OutOK
    <3>3. SlotOK'
      BY <1>2, <2>1, <2>7, <3>1 DEF SlotOK, InWorker
    <3>4. WireOK'
      BY <1>2, <2>1, <2>7, <3>1 DEF WireOK
    <3>5. InboxOK'
      BY <1>2, <2>2, <2>7, <3>1 DEF InboxOK, v
    <3>6. ResultOK'
      BY <3>1 DEF ResultOK
    <3> QED BY <3>2, <3>3, <3>4, <3>5, <3>6
  <2>8. CASE Awaits
    <3>1. UNCHANGED task /\ Awaits'
      BY <2>5, <2>8 DEF Awaits
    <3>2. Tells(result') => Tells(result) \/ Tells(a)
      BY <2>4 DEF Tells
    <3>3. Tells(result') => Tells(result) \/ Told(inbox)
      BY <2>6, <2>8, <3>2
    <3>4. OutOK'
      BY <1>2, <2>1, <2>3, <2>8, <3>1, <3>3 DEF OutOK, Awaits, InWorker, Told, Tells, v
    <3>5. SlotOK'
      BY <1>2, <2>1, <2>3, <2>8, <3>1, <3>3 DEF SlotOK, InWorker, Awaits, Told, Tells, v
    <3>6. WireOK'
      BY <1>2, <2>1, <2>3, <2>8, <3>1, <3>3 DEF WireOK, Awaits, Told, Tells, v
    <3>7. InboxOK'
      <4>1. Told(v) => ~ Tells(result')
        BY <1>2, <2>3, <2>6, <2>8, <3>2 DEF InboxOK
      <4>2. /\ \A i \in DOMAIN v : v[i].kind = "result" => Awaits /\ v[i].n = task.n
            /\ \A i, j \in DOMAIN v : Tells(v[i]) /\ Tells(v[j]) => i = j
        BY <1>2, <2>2, <2>8 DEF InboxOK
      <4> QED BY <3>1, <4>1, <4>2 DEF InboxOK, Awaits, Told, Tells, v
    <3>8. ResultOK'
      <4>1. a.kind = "result" => a.n = task.n
        BY <1>2, <2>2 DEF InboxOK
      <4> QED BY <1>2, <2>4, <2>8, <3>1, <4>1 DEF ResultOK, Awaits
    <3> QED BY <3>4, <3>5, <3>6, <3>7, <3>8
  <2> QED BY <2>7, <2>8
<1>15. CASE NextImage
  <2>1. ~ Awaits /\ UNCHANGED <<slot, wire, inbox, worker, requested>> /\ result' = NoResult
    BY <1>15 DEF NextImage, Awaits, imageHal, Forget
  <2>2. task' = [task EXCEPT !.at = "wait", !.file = Min(Left), !.n = asked + 1]
    BY <1>15 DEF NextImage
  <2>3. Awaits' /\ task'.n = asked + 1
    BY <1>3, <2>2 DEF Awaits, Tasks
  <2>4. Min(Left) \in 1..Samples
    <3>1. task.file \in Nat /\ Samples \in Nat
      BY ImageConstants DEF ImageTypeOK, Tasks
    <3> QED BY <1>15, <3>1, LeftIsLeft DEF NextImage
  <2>5. files[Min(Left)] \in Files /\ task.id \in Nat /\ "send" \in Kinds
    BY <2>4 DEF ImageTypeOK, Tasks, Kinds
  <2>6. \A i \in DOMAIN out' :
          \/ i \in DOMAIN out /\ out'[i] = out[i] /\ out[i].n # asked + 1
          \/ /\ i = Len(out) + 1
             /\ out'[i].id = "send" /\ out'[i].n = asked + 1
    BY <1>15, <2>5, CommandJoins DEF NextImage
  <2>7. ~ InWorker /\ (\A i \in DOMAIN out : out[i].id # "send")
        /\ (\A i \in DOMAIN wire : wire[i].kind # "result")
        /\ \A i \in DOMAIN inbox : inbox[i].kind # "result"
    BY <1>2, <2>1 DEF OutOK, SlotOK, WireOK, InboxOK
  <2>8. /\ \A i \in DOMAIN wire : wire[i].n \in Nat /\ wire[i].n <= asked
        /\ \A i \in DOMAIN inbox : inbox[i].n \in Nat /\ inbox[i].n <= asked
        /\ slot.n \in Nat /\ slot.n <= asked
    BY NumberTypes DEF NumbersOK
  <2>9. ~ Told(wire)' /\ ~ Told(inbox)' /\ ~ Tells(result)'
    <3>1. \A i \in DOMAIN wire : wire[i].n # asked + 1
      BY <1>4, <2>8
    <3>2. \A i \in DOMAIN inbox : inbox[i].n # asked + 1
      BY <1>4, <2>8
    <3> QED BY <2>1, <2>3, <3>1, <3>2 DEF Told, Tells, NoResult
  <2>10. ~ InWorker'
    BY <2>1, <2>7 DEF InWorker
  <2>11. OutOK'
    BY <2>3, <2>6, <2>7, <2>9, <2>10 DEF OutOK
  <2>12. SlotOK'
    <3>1. slot.n # asked + 1
      BY <1>4, <2>8
    <3> QED BY <1>2, <2>1, <2>3, <2>10, <3>1 DEF SlotOK, InWorker
  <2>13. WireOK' /\ InboxOK'
    BY <2>1, <2>7, <2>9 DEF WireOK, InboxOK, Told
  <2>14. ResultOK'
    BY <2>1 DEF ResultOK, NoResult
  <2> QED BY <2>11, <2>12, <2>13, <2>14
<1>16. CASE NextFinger \/ LeaveGather \/ LeaveTest \/ OpenGather
  <2>1. /\ \E id \in {"capture", "clear", "finish"}, who \in Nat : Demand(id, NoFile, who)
        /\ UNCHANGED <<slot, wire, inbox, worker, requested, result>>
    <3>1. task.id \in Nat /\ opened \in Nat
      BY DEF ImageTypeOK, Tasks
    <3> QED BY <1>16, <3>1 DEF NextFinger, LeaveGather, LeaveTest, OpenGather, imageHal
  <2>2. (task'.at = task.at /\ task'.n = task.n) \/ (~ Awaits /\ ~ Awaits')
    BY <1>3, <1>16 DEF NextFinger, LeaveGather, LeaveTest, OpenGather, Awaits, Tasks
  <2>3. {"capture", "clear", "finish"} \subseteq Kinds \ {"send"}
    BY DEF Kinds
  <2>4. OutOK'
    BY <1>2, <2>1, <2>2, <2>3, NoFileOwn, OutJoined
  <2>5. CASE ~ Awaits /\ ~ Awaits'
    BY <1>2, <2>1, <2>4, <2>5 DEF SlotOK, InWorker, WireOK, InboxOK, ResultOK
  <2>6. CASE task'.at = task.at /\ task'.n = task.n
    <3>1. SlotOK'
      BY <1>2, <2>1, <2>6 DEF SlotOK, InWorker, Awaits, Told, Tells
    <3>2. WireOK' /\ InboxOK' /\ ResultOK'
      BY <1>2, <2>1, <2>6 DEF WireOK, InboxOK, ResultOK, Awaits, Told, Tells
    <3> QED BY <2>4, <3>1, <3>2
  <2> QED BY <2>2, <2>5, <2>6
<1>17. CASE TakeResult
  <2>1. /\ Awaits /\ result # NoResult /\ ~ (result.kind = "error" /\ result.n # task.n)
        /\ UNCHANGED <<slot, wire, inbox, worker, requested, result, out>>
    BY <1>17 DEF TakeResult, Awaits, imageHal, link
  <2>2. Tells(result)
    <3>1. result \in [kind : {"error"}, n : Nat] \/ result \in Results
      BY <1>3, <2>1 DEF Wakings
    <3>2. CASE result \in [kind : {"error"}, n : Nat]
      BY <2>1, <3>2 DEF Tells
    <3>3. CASE result \in Results
      BY <1>2, <2>1, <3>3 DEF ResultOK, Tells, Results
    <3> QED BY <3>1, <3>2, <3>3
  <2>3. ~ Awaits'
    BY <1>3, <1>17 DEF TakeResult, Tasks, Awaits
  <2>4. /\ ~ InWorker /\ (\A i \in DOMAIN out : out[i].id # "send")
        /\ \A i \in DOMAIN wire : wire[i].kind # "result"
        /\ \A i \in DOMAIN inbox : inbox[i].kind # "result"
    <3>1. ~ InWorker /\ \A i \in DOMAIN out : out[i].id # "send"
      BY <1>2, <2>1, <2>2 DEF OutOK, SlotOK
    <3>2. ~ Told(wire) /\ ~ Told(inbox)
      BY <1>2, <2>1, <2>2 DEF WireOK, InboxOK
    <3> QED BY <1>2, <3>1, <3>2 DEF WireOK, InboxOK, Told, Tells
  <2>5. OutOK' /\ WireOK' /\ InboxOK' /\ ResultOK'
    BY <2>1, <2>3, <2>4 DEF OutOK, WireOK, InboxOK, ResultOK
  <2>6. SlotOK'
    BY <1>2, <2>1, <2>3, <2>4 DEF SlotOK, InWorker
  <2> QED BY <2>5, <2>6
<1>18. CASE TaskEnd \/ StartTask
  <2>1. UNCHANGED <<slot, wire, inbox, worker, requested, result, out>>
    BY <1>18 DEF TaskEnd, StartTask, imageHal, link, app
  <2>2. ~ Awaits /\ ~ Awaits'
    BY <1>3, <1>18 DEF TaskEnd, StartTask, Tasks, Awaits, NoTask
  <2> QED BY <1>2, <2>1, <2>2 DEF OutOK, SlotOK, InWorker, WireOK, InboxOK, ResultOK
<1>19. CASE UNCHANGED imageVars
  BY <1>5, <1>19 DEF imageVars, imageHal, link, app
<1> QED BY <1>6, <1>7, <1>8, <1>9, <1>10, <1>11, <1>12, <1>13, <1>14, <1>15, <1>16, <1>17,
        <1>18, <1>19 DEF ImageNext, ImageWorker, Service, Task, User

-----------------------------------------------------------------------------
ImageIInv == ImageTypeOK /\ PixelsOK /\ NumbersOK /\ InStep

\* The initial states.
LEMMA InitImageIInv == ImageInit => ImageIInv
<1> SUFFICES ASSUME ImageInit PROVE ImageIInv
  OBVIOUS
<1> USE DEF ImageInit
<1>1. Samples \in Nat /\ geo \in [w : Nat \ {0}, h : Nat \ {0}, wo : Nat, ho : Nat, size : Nat \ {0}]
  BY ImageConstants
<1>2. Earlier(geo) \in Files /\ Own(Earlier(geo))
  <2> DEFINE w == geo.w
             h == geo.h
             px == Shot(0, 0, w * h)
  <2>1. w \in Nat /\ h \in Nat
    BY <1>1
  <2> HIDE DEF w, h
  <2>2. w * h \in Nat
    BY <2>1
  <2>3. px \in Seq(Int) /\ Len(px) = w * h
    BY <2>2, ShotType
  <2>4. px = [k \in 1..w * h |-> px[k]]
    BY DEF Shot
  <2> HIDE DEF px
  <2>5. BmpOf(px, w, h) \in Images
    BY <2>1, <2>2, <2>3, BmpOfType
  <2>6. BmpData(BmpOf(px, w, h)) = px
    <3>1. BmpData(BmpOf(px, w, h)) = [k \in 1..w * h |-> px[k]]
      BY <2>1, RoundTrip
    <3> QED BY <2>4, <3>1
  <2>7. BmpOf(px, w, h).w = w /\ BmpOf(px, w, h).h = h
    BY DEF BmpOf
  <2>8. Earlier(geo) = [img |-> BmpOf(px, w, h), orig |-> 0, shot |-> 0]
    BY DEF Earlier, px, w, h
  <2> QED BY <2>5, <2>6, <2>7, <2>8 DEF Files, Own, px
<1>3. ImageTypeOK
  <2>1. slot \in Packets
    BY NoFileOwn DEF Packets, Packet, Kinds
  <2>2. task \in Tasks
    BY <1>1 DEF Tasks, NoTask
  <2>3. files \in [1..Samples -> Files]
    BY <1>2
  <2>4. /\ buffer \in Seq(Int) /\ wire \in Seq(Messages) /\ inbox \in Seq(Messages)
        /\ out \in Seq(Packets) /\ given.px \in Seq(Int)
    OBVIOUS
  <2>5. dims \in [w : Nat, h : Nat, wo : Nat, ho : Nat]
    BY DEF NoDims
  <2>6. tplCount \in -1..Samples /\ enrolled \in 0..Samples
    BY <1>1
  <2>7. given.orig \in 0..1 /\ given.shot \in Nat
    OBVIOUS
  <2>8. /\ requested \in BOOLEAN /\ linked \in BOOLEAN /\ client \in BOOLEAN /\ mine \in BOOLEAN
        /\ mixed \in BOOLEAN /\ cut \in BOOLEAN /\ dropped \in BOOLEAN
    BY Zenon
  <2>9. /\ geo \in Geometries /\ rspLen \in Nat /\ (buffer # <<>> => dims.w > 0 /\ dims.h > 0)
        /\ worker \in Kinds \cup {"idle", "loop", "shot", "answered", "settle"}
        /\ callback \in Nat /\ opened \in Nat /\ queued \in Nat
        /\ screen \in {"home", "gather", "test"} /\ result \in {NoResult} \cup Wakings
        /\ touches \in Nat /\ asked \in Nat
    OBVIOUS
  <2> QED BY <2>1, <2>2, <2>3, <2>4, <2>5, <2>6, <2>7, <2>8, <2>9, Zenon DEF ImageTypeOK
<1>4. PixelsOK
  <2>1. FilesOwn
    BY <1>2 DEF FilesOwn
  <2>2. CommandsOwn
    BY NoFileOwn DEF CommandsOwn, Packet
  <2>3. WireOwn /\ InboxOwn /\ GivenOwn
    BY DEF WireOwn, InboxOwn, GivenOwn
  <2> QED BY <2>1, <2>2, <2>3 DEF PixelsOK
<1>5. NumbersOK
  BY DEF NumbersOK, Packet, NoResult, NoTask, Awaits
<1>6. OutOK /\ SlotOK /\ WireOK /\ InboxOK /\ ResultOK
  BY DEF OutOK, SlotOK, WireOK, InboxOK, ResultOK, NoTask, Awaits, InWorker, Packet
<1> QED BY <1>3, <1>4, <1>5, <1>6 DEF ImageIInv, InStep

\* The four parts together are inductive.
LEMMA ImageInvariance == ImageSpec => []ImageIInv
<1>1. ImageIInv /\ [ImageNext]_imageVars => ImageIInv'
  BY ImageTypeStep, PixelsStep, NumbersStep, InStepStep DEF ImageIInv
<1> QED BY <1>1, InitImageIInv, PTL DEF ImageSpec

\* The image that is saved, and the one that is sent back and given to the TA,
\* is pixel by pixel the one the sensor saw, for images of any size, whatever
\* captures, files, commands and connections fail: through the padded rows of
\* silfp_bmp_get_img, turned upside down, and silfp_bmp_get_data.
THEOREM ImagesAreKept == ImageSpec => []ImagesKept
<1>1. ImageIInv => ImagesKept
  BY DEF ImageIInv, PixelsOK, FilesOwn, GivenOwn, Own, ImagesKept
<1> QED BY <1>1, ImageInvariance, PTL

\* The result that is counted for an image is the result of that image, until
\* an error of another command or a lost connection comes between: nothing in
\* the answer says so, it follows from one image being under way at a time.
THEOREM ResultsAreOwn == ImageSpec => ResultIsOwn
<1>1. ImageIInv /\ [ImageNext]_imageVars =>
        [task.at = "wait" /\ task'.at = "next" /\ result.kind = "result" =>
           result.n = task.n \/ mixed \/ cut]_imageVars
  BY DEF ImageIInv, InStep, ResultOK, Awaits
<1> QED BY <1>1, ImageInvariance, PTL DEF ImageSpec, ResultIsOwn
=============================================================================
