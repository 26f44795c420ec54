--------------------------- MODULE TeeSend_proofs ---------------------------
(***************************************************************************)
(* Proofs about TeeSend for any number of threads, any choice of backends  *)
(* and commands, and any limit of errors.                                  *)
(*                                                                         *)
(* A command's way through the buffer is guarded by m_tz_lock: whoever     *)
(* sends or reads holds it (LockHeld), so the buffer has its own request,  *)
(* and after the TA its own answer (BufferOwn).  What the caller ends with *)
(* follows from there (ResultOK, InputOK).  The counter of errors has no   *)
(* lock; it never runs ahead of the errors that happened (ErrorsCounted).  *)
(***************************************************************************)
EXTENDS TeeSend, TLAPS

USE SendOK

-----------------------------------------------------------------------------
(* The inductive invariant                                                 *)
-----------------------------------------------------------------------------
\* The threads that send or read hold the lock of the buffer.
LockHeld == \A t \in Threads : call[t].pc \in {"send", "read"} => tzLock = t

\* The buffer of a thread that sends has its request, and that of one that
\* reads the answer to it, if there was one.
BufferOwn == \A t \in Threads :
  /\ call[t].pc = "send" => buf[Slot(t)].req = t /\ buf[Slot(t)].rsp = "old"
  /\ call[t].pc = "read" /\ Answered(t) => buf[Slot(t)].rsp = t

\* What a command has come to at each position.
ResultOK == \A t \in Threads :
  /\ call[t].data # "other"
  /\ call[t].pc # "count" => call[t].out = None
  /\ call[t].pc \notin {"read", "count"} => call[t].ret = None
  /\ call[t].pc = "read" => call[t].ret \in {"ok", "ta_failed", "send_failed"}

\* The commands whose input the TA must see as the caller wrote it.
Guarded(t) == call[t].cmd \in WithInput /\ ~ (Kind(t) = 4 /\ backend # "qsee")

InputOK == \A t \in Threads : Guarded(t) =>
  /\ call[t].sent \in {None, "input"}
  /\ call[t].pc \in {"map", "lock", "send", "read"} => call[t].data = "input"

\* The counter, and what a thread is about to write back to it, are errors
\* that happened.
ErrorsCounted ==
  /\ errs <= failed
  /\ \A t \in Threads :
       /\ call[t].pc = "store" => UpTo(call[t].seen) <= failed
       /\ call[t].pc = "break" => failed = ErrLimit

IInv == /\ TypeOK /\ LockHeld /\ BufferOwn /\ ResultOK /\ InputOK /\ ErrorsCounted
        /\ AnswerIsOwn /\ InputReaches /\ BreakNeedsErrors

-----------------------------------------------------------------------------
(* Facts about the definitions                                             *)
-----------------------------------------------------------------------------
\* A command with an input is sent with one of the modes that have one.
LEMMA InputModes == \A c \in WithInput : Mode[c] \in {0, 2, 4}
<1>1. SUFFICES ASSUME NEW c \in {"get_hw_auth_obj", "alg_set_param", "calibrate_optic",
                                 "test_send_group_image", "test_cmd"}
               PROVE  Mode[c] \in {0, 2, 4}
  BY DEF WithInput
<1>2. \A m \in Modes : c \in DOMAIN m => m[c] \in {0, 2, 4}
  <2>1. c \in DOMAIN OperationMode => FALSE
    BY DEF OperationMode
  <2>2. c \in DOMAIN SetupMode => SetupMode[c] \in {0, 2, 4}
    BY DEF SetupMode
  <2>3. c \in DOMAIN TemplateMode => FALSE
    BY DEF TemplateMode
  <2>4. c \in DOMAIN CalibrateMode => CalibrateMode[c] \in {0, 2, 4}
    BY DEF CalibrateMode
  <2>5. c \in DOMAIN TestMode => TestMode[c] \in {0, 2, 4}
    BY DEF TestMode
  <2> QED BY <2>1, <2>2, <2>3, <2>4, <2>5 DEF Modes
<1>3. \E m \in Modes : c \in DOMAIN m
  <2>1. c \in DOMAIN SetupMode \cup DOMAIN CalibrateMode \cup DOMAIN TestMode
    BY DEF SetupMode, CalibrateMode, TestMode
  <2> QED BY <2>1 DEF Modes
<1>4. c \in UNION {DOMAIN m : m \in Modes}
  BY <1>3
<1>5. Mode[c] = (CHOOSE m \in Modes : c \in DOMAIN m)[c]
  BY <1>4 DEF Mode
<1> QED BY <1>2, <1>3, <1>5

LEMMA UpToType ==
  ASSUME NEW n \in 0 .. ErrLimit
  PROVE  UpTo(n) \in 0 .. ErrLimit /\ n <= UpTo(n)
  BY DEF UpTo

-----------------------------------------------------------------------------
(* Type correctness                                                        *)
-----------------------------------------------------------------------------
Positions == {"idle", "map", "lock", "send", "read", "count", "store", "check", "break", "done"}
Rets == Failures \cup {None, "ok", "ta_failed", "alloc_failed", "bad_params", "op_failed"}
CallRecord ==
  [pc : Positions, cmd : Used \cup {None}, locked : BOOLEAN, sent : {None, "input", "zero"},
   data : {None, "input", "zero", "answer", "other"}, ret : Rets,
   out : {None, "own", "other"}, seen : 0 .. ErrLimit]

LEMMA IdleType == Idle \in CallRecord
  BY DEF Idle, CallRecord, Positions, Rets, None

LEMMA CallsTyped == TypeOK => call \in [Threads -> CallRecord]
  BY Zenon DEF TypeOK, CallRecord, Positions, Rets

\* A thread's own command changes and those of the others do not.
LEMMA CallChange ==
  ASSUME TypeOK, NEW t \in Threads, NEW r, call' = [call EXCEPT ![t] = r]
  PROVE  /\ call'[t] = r
         /\ \A u \in Threads \ {t} : call'[u] = call[u]
         /\ r \in CallRecord => call' \in [Threads -> CallRecord]
  BY CallsTyped

LEMMA SlotType == \A t \in Threads : Slot(t) \in Slots
  BY DEF Slot, Slots

LEMMA CallType ==
  ASSUME TypeOK, NEW t \in Threads, NEW cmd \in Used, Call(t, cmd)
  PROVE  TypeOK'
<1> DEFINE r(l) == [Idle EXCEPT !.pc = IF Mode[cmd] = Normal THEN "lock" ELSE "map", !.cmd = cmd,
                                !.locked = l,
                                !.data = IF Mode[cmd] = Normal THEN None ELSE "input"]
<1>1. PICK l \in IF t = Caller THEN BOOLEAN ELSE {FALSE} :
        /\ mLock' = IF l THEN t ELSE mLock
        /\ call' = [call EXCEPT ![t] = r(l)]
  BY Zenon DEF Call
<1>2. l \in BOOLEAN /\ (l => t = Caller)
  BY <1>1
<1>3. r(l) \in CallRecord
  BY <1>2, IdleType DEF CallRecord, Positions
<1>4. call' \in [Threads -> CallRecord]
  BY <1>1, <1>3, CallChange
<1>5. mLock' \in {Caller, None}
  BY <1>1, <1>2 DEF TypeOK
<1> QED BY <1>4, <1>5 DEF Call, TypeOK, CallRecord, Positions, Rets

LEMMA StepCallType ==
  ASSUME TypeOK, NEW t \in Threads, Step(t)
  PROVE  call' \in [Threads -> CallRecord]
<1>0. call[t] \in CallRecord
  BY CallsTyped
<1>1. CASE Map(t)
  <2>1. \A x \in {"input", "zero"} : 
          /\ [call[t] EXCEPT !.pc = "lock", !.sent = x] \in CallRecord
          /\ [call[t] EXCEPT !.pc = "lock", !.sent = x, !.data = x] \in CallRecord
    BY <1>0 DEF CallRecord, Positions
  <2>2. \A x \in {"alloc_failed", "bad_params"} :
          [call[t] EXCEPT !.pc = "count", !.ret = x] \in CallRecord
    BY <1>0 DEF CallRecord, Positions, Rets
  <2>3. Handed(t) \in {"input", "zero"} /\ Cleared(t) \in {"input", "zero"}
    BY DEF Handed, Cleared
  <2>4. PICK r \in CallRecord : call' = [call EXCEPT ![t] = r]
    BY <1>1, <2>1, <2>2, <2>3 DEF Map, Fail
  <2> QED BY <2>4, CallChange
<1>2. CASE Lock(t) \/ Check(t) \/ Break(t)
  <2>1. \A p \in Positions : [call[t] EXCEPT !.pc = p] \in CallRecord
    BY <1>0 DEF CallRecord
  <2>2. PICK r \in CallRecord : call' = [call EXCEPT ![t] = r]
    BY <1>2, <2>1 DEF Lock, Check, Break, Go, Positions
  <2> QED BY <2>2, CallChange
<1>3. CASE Ta(t)
  <2>1. \A x \in Rets : [call[t] EXCEPT !.pc = "read", !.ret = x] \in CallRecord
    BY <1>0 DEF CallRecord, Positions
  <2>2. PICK r \in CallRecord : call' = [call EXCEPT ![t] = r]
    BY <1>3, <2>1 DEF Ta, Fail, Rets, Failures
  <2> QED BY <2>2, CallChange
<1>4. CASE Read(t)
  <2>1. Out(t) \in {None, "own", "other"} /\ Data(t) \in {None, "input", "zero", "answer", "other"}
    BY <1>0 DEF Out, Data, Found, CallRecord
  <2>2. [call[t] EXCEPT !.pc = "count", !.out = Out(t), !.data = Data(t)] \in CallRecord
    BY <1>0, <2>1 DEF CallRecord, Positions
  <2>3. [call[t] EXCEPT !.pc = "count", !.ret = "op_failed"] \in CallRecord
    BY <1>0 DEF CallRecord, Positions, Rets
  <2>4. PICK r \in CallRecord : call' = [call EXCEPT ![t] = r]
    BY <1>4, <2>2, <2>3 DEF Read, Fail
  <2> QED BY <2>4, CallChange
<1>5. CASE Count(t)
  <2>1. \A p \in Positions, n \in 0 .. ErrLimit :
          [Idle EXCEPT !.pc = p, !.locked = call[t].locked, !.seen = n] \in CallRecord
    BY <1>0, IdleType DEF CallRecord
  <2>2. [Idle EXCEPT !.pc = "check", !.locked = call[t].locked] \in CallRecord
    BY <1>0, IdleType DEF CallRecord, Positions
  <2>3. PICK r \in CallRecord : call' = [call EXCEPT ![t] = r]
    BY <1>5, <2>1, <2>2 DEF Count, TypeOK, Positions
  <2> QED BY <2>3, CallChange
<1>6. CASE Store(t)
  <2>1. [call[t] EXCEPT !.pc = "check"] \in CallRecord
    BY <1>0 DEF CallRecord, Positions
  <2>2. \A r \in CallRecord : [r EXCEPT !.seen = 0] \in CallRecord
    BY DEF CallRecord
  <2>3. [call[t] EXCEPT !.pc = "check", !.seen = 0] \in CallRecord
    BY <2>1, <2>2
  <2> QED BY <1>6, <2>3, CallChange DEF Store
<1>7. CASE Return(t)
  BY <1>7, IdleType, CallChange DEF Return
<1> QED BY <1>1, <1>2, <1>3, <1>4, <1>5, <1>6, <1>7 DEF Step

LEMMA StepType ==
  ASSUME TypeOK, NEW t \in Threads, Step(t)
  PROVE  TypeOK'
<1>1. call' \in [Threads -> CallRecord]
  BY StepCallType
<1>2. buf' \in [Slots -> [req : Threads \cup {None}, rsp : Threads \cup {None, "old"}]]
  <2>1. CASE Lock(t)
    BY <2>1, SlotType DEF TypeOK, Lock
  <2>2. CASE Ta(t)
    BY <2>2, SlotType DEF TypeOK, Ta
  <2>3. CASE UNCHANGED buf
    BY <2>3 DEF TypeOK
  <2> QED BY <2>1, <2>2, <2>3 DEF Step, Map, Read, Count, Store, Check, Break, Return
<1>3. call[t].seen \in 0 .. ErrLimit
  BY CallsTyped DEF CallRecord
<1>4. errs' \in 0 .. ErrLimit /\ failed' \in 0 .. ErrLimit
  BY <1>3, UpToType DEF TypeOK, Step, Map, Lock, Ta, Read, Count, Store, Check, Break, Return
<1>5. backend' \in Backends /\ broken' \in BOOLEAN
  BY Zenon DEF TypeOK, Step, Map, Lock, Ta, Read, Count, Store, Check, Break, Return
<1>6. tzLock' \in Threads \cup {None} /\ mLock' \in {Caller, None}
  BY DEF TypeOK, Step, Map, Lock, Ta, Read, Count, Store, Check, Break, Return
<1> QED BY <1>1, <1>2, <1>4, <1>5, <1>6 DEF TypeOK, CallRecord, Positions, Rets

-----------------------------------------------------------------------------
(* What each step does to the thread's own command                         *)
-----------------------------------------------------------------------------
LEMMA CallEffect ==
  ASSUME TypeOK, NEW t \in Threads, NEW cmd \in Used, Call(t, cmd)
  PROVE  /\ call'[t].pc \in {"lock", "map"} /\ call'[t].cmd = cmd
         /\ call'[t].sent = None /\ call'[t].ret = None /\ call'[t].out = None
         /\ call'[t].data \in {None, "input"}
         /\ Mode[cmd] # Normal => call'[t].data = "input"
         /\ \A u \in Threads \ {t} : call'[u] = call[u]
<1> DEFINE r(l) == [Idle EXCEPT !.pc = IF Mode[cmd] = Normal THEN "lock" ELSE "map", !.cmd = cmd,
                                !.locked = l,
                                !.data = IF Mode[cmd] = Normal THEN None ELSE "input"]
<1>1. PICK l : call' = [call EXCEPT ![t] = r(l)]
  BY Zenon DEF Call
<1>2. call'[t] = r(l) /\ \A u \in Threads \ {t} : call'[u] = call[u]
  <2> HIDE DEF r
  <2> QED BY <1>1, CallChange
<1> QED BY <1>2 DEF Idle

LEMMA MapEffect ==
  ASSUME TypeOK, NEW t \in Threads, Map(t)
  PROVE  /\ call'[t].cmd = call[t].cmd /\ call'[t].out = call[t].out
         /\ \/ /\ call'[t].pc = "lock" /\ call'[t].ret = call[t].ret
               /\ call'[t].data = IF backend = "qsee" THEN call[t].data ELSE Cleared(t)
               /\ call'[t].sent = IF backend = "qsee" THEN Handed(t) ELSE Cleared(t)
            \/ /\ call'[t].pc = "count" /\ call'[t].ret \in {"alloc_failed", "bad_params"}
               /\ call'[t].data = call[t].data /\ call'[t].sent = call[t].sent
         /\ \A u \in Threads \ {t} : call'[u] = call[u]
<1>1. call[t] \in CallRecord
  BY CallsTyped
<1>2. CASE call' = [call EXCEPT ![t] = [@ EXCEPT !.pc = "lock", !.sent = Handed(t)]]
           /\ backend = "qsee"
  <2>1. /\ call'[t] = [call[t] EXCEPT !.pc = "lock", !.sent = Handed(t)]
        /\ \A u \in Threads \ {t} : call'[u] = call[u]
    BY <1>2, CallChange
  <2>2. /\ call'[t].pc = "lock" /\ call'[t].sent = Handed(t)
        /\ \A f \in {"cmd", "data", "ret", "out"} : call'[t][f] = call[t][f]
    BY <1>1, <2>1 DEF CallRecord
  <2> QED BY <1>2, <2>1, <2>2
<1>3. CASE call' = [call EXCEPT ![t] =
                      [@ EXCEPT !.pc = "lock", !.sent = Cleared(t), !.data = Cleared(t)]]
           /\ backend # "qsee"
  <2>1. /\ call'[t] = [call[t] EXCEPT !.pc = "lock", !.sent = Cleared(t), !.data = Cleared(t)]
        /\ \A u \in Threads \ {t} : call'[u] = call[u]
    BY <1>3, CallChange
  <2>2. /\ call'[t].pc = "lock" /\ call'[t].sent = Cleared(t) /\ call'[t].data = Cleared(t)
        /\ \A f \in {"cmd", "ret", "out"} : call'[t][f] = call[t][f]
    BY <1>1, <2>1 DEF CallRecord
  <2> QED BY <1>3, <2>1, <2>2
<1>4. CASE \E x \in {"alloc_failed", "bad_params"} : Fail(t, "count", x)
  <2>1. PICK x \in {"alloc_failed", "bad_params"} :
               call' = [call EXCEPT ![t] = [call[t] EXCEPT !.pc = "count", !.ret = x]]
    BY <1>4 DEF Fail
  <2>2. /\ call'[t] = [call[t] EXCEPT !.pc = "count", !.ret = x]
        /\ \A u \in Threads \ {t} : call'[u] = call[u]
    BY <2>1, CallChange
  <2>3. /\ call'[t].pc = "count" /\ call'[t].ret = x
        /\ \A f \in {"cmd", "data", "sent", "out"} : call'[t][f] = call[t][f]
    BY <1>1, <2>2 DEF CallRecord
  <2> QED BY <2>2, <2>3
<1> QED BY <1>2, <1>3, <1>4 DEF Map

\* Taking the lock, the check and the stop only move on.
LEMMA GoEffect ==
  ASSUME TypeOK, NEW t \in Threads, NEW p, Go(t, p)
  PROVE  /\ call'[t].pc = p /\ call'[t].cmd = call[t].cmd /\ call'[t].sent = call[t].sent
         /\ call'[t].data = call[t].data /\ call'[t].ret = call[t].ret
         /\ call'[t].out = call[t].out
         /\ \A u \in Threads \ {t} : call'[u] = call[u]
<1>1. call[t] \in CallRecord
  BY CallsTyped
<1>2. /\ call'[t] = [call[t] EXCEPT !.pc = p]
      /\ \A u \in Threads \ {t} : call'[u] = call[u]
  BY CallChange DEF Go
<1> QED BY <1>1, <1>2 DEF CallRecord

LEMMA TaEffect ==
  ASSUME TypeOK, NEW t \in Threads, Ta(t)
  PROVE  /\ call'[t].pc = "read" /\ call'[t].cmd = call[t].cmd
         /\ call'[t].sent = call[t].sent /\ call'[t].data = call[t].data
         /\ call'[t].out = call[t].out
         /\ \/ /\ call'[t].ret \in {"ok", "ta_failed"}
               /\ buf'[Slot(t)].rsp = buf[Slot(t)].req
            \/ call'[t].ret = "send_failed"
         /\ \A u \in Threads \ {t} : call'[u] = call[u]
<1>1. call[t] \in CallRecord
  BY CallsTyped
<1>2. PICK x \in {"ok", "ta_failed", "send_failed"} :
        /\ call' = [call EXCEPT ![t] = [call[t] EXCEPT !.pc = "read", !.ret = x]]
        /\ x \in {"ok", "ta_failed"} =>
             buf' = [buf EXCEPT ![Slot(t)] = [@ EXCEPT !.rsp = buf[Slot(t)].req]]
  BY DEF Ta, Fail
<1>3. x \in {"ok", "ta_failed"} => buf'[Slot(t)].rsp = buf[Slot(t)].req
  BY <1>2, SlotType DEF TypeOK
<1>4. /\ call'[t] = [call[t] EXCEPT !.pc = "read", !.ret = x]
      /\ \A u \in Threads \ {t} : call'[u] = call[u]
  BY <1>2, CallChange
<1>5. /\ call'[t].pc = "read" /\ call'[t].ret = x
      /\ \A f \in {"cmd", "sent", "data", "out"} : call'[t][f] = call[t][f]
  BY <1>1, <1>4 DEF CallRecord
<1> QED BY <1>3, <1>4, <1>5

LEMMA ReadEffect ==
  ASSUME TypeOK, NEW t \in Threads, Read(t)
  PROVE  /\ call'[t].pc = "count" /\ call'[t].cmd = call[t].cmd
         /\ call'[t].sent = call[t].sent
         /\ \/ /\ call'[t].ret = call[t].ret
               /\ call'[t].out = Out(t) /\ call'[t].data = Data(t)
            \/ /\ call'[t].ret = "op_failed"
               /\ call'[t].out = call[t].out /\ call'[t].data = call[t].data
         /\ \A u \in Threads \ {t} : call'[u] = call[u]
<1>1. call[t] \in CallRecord
  BY CallsTyped
<1>2. CASE call' = [call EXCEPT ![t] =
                      [@ EXCEPT !.pc = "count", !.out = Out(t), !.data = Data(t)]]
  <2>1. /\ call'[t] = [call[t] EXCEPT !.pc = "count", !.out = Out(t), !.data = Data(t)]
        /\ \A u \in Threads \ {t} : call'[u] = call[u]
    BY <1>2, CallChange
  <2>2. /\ call'[t].pc = "count" /\ call'[t].out = Out(t) /\ call'[t].data = Data(t)
        /\ \A f \in {"cmd", "sent", "ret"} : call'[t][f] = call[t][f]
    BY <1>1, <2>1 DEF CallRecord
  <2> QED BY <2>1, <2>2
<1>3. CASE Fail(t, "count", "op_failed")
  <2>1. /\ call'[t] = [call[t] EXCEPT !.pc = "count", !.ret = "op_failed"]
        /\ \A u \in Threads \ {t} : call'[u] = call[u]
    BY <1>3, CallChange DEF Fail
  <2>2. /\ call'[t].pc = "count" /\ call'[t].ret = "op_failed"
        /\ \A f \in {"cmd", "sent", "out", "data"} : call'[t][f] = call[t][f]
    BY <1>1, <2>1 DEF CallRecord
  <2> QED BY <2>1, <2>2
<1> QED BY <1>2, <1>3 DEF Read

\* Once the answer is handed out nothing of the command is left but the count.
LEMMA CountEffect ==
  ASSUME TypeOK, NEW t \in Threads, Count(t)
  PROVE  /\ call'[t].pc \in {"store", "check"} /\ call'[t].cmd = None /\ call'[t].sent = None
         /\ call'[t].data = None /\ call'[t].ret = None /\ call'[t].out = None
         /\ \/ call'[t].pc = "store" /\ call'[t].seen = errs /\ failed' = UpTo(failed)
               /\ errs' = errs
            \/ call'[t].pc = "check" /\ errs' = 0 /\ failed' = failed
         /\ \A u \in Threads \ {t} : call'[u] = call[u]
<1>1. /\ \A u \in Threads \ {t} : call'[u] = call[u]
      /\ \/ /\ call'[t] = [Idle EXCEPT !.pc = "store", !.locked = call[t].locked, !.seen = errs]
            /\ failed' = UpTo(failed) /\ errs' = errs
         \/ /\ call'[t] = [Idle EXCEPT !.pc = "check", !.locked = call[t].locked]
            /\ errs' = 0 /\ failed' = failed
  BY CallChange DEF Count
<1> QED BY <1>1 DEF Idle

LEMMA StoreEffect ==
  ASSUME TypeOK, NEW t \in Threads, Store(t)
  PROVE  /\ call'[t].pc = "check" /\ call'[t].cmd = call[t].cmd
         /\ call'[t].sent = call[t].sent /\ call'[t].data = call[t].data
         /\ call'[t].ret = call[t].ret /\ call'[t].out = call[t].out
         /\ \A u \in Threads \ {t} : call'[u] = call[u]
<1>1. call[t] \in CallRecord
  BY CallsTyped
<1>2. /\ call'[t] = [call[t] EXCEPT !.pc = "check", !.seen = 0]
      /\ \A u \in Threads \ {t} : call'[u] = call[u]
  BY CallChange DEF Store
<1>3. /\ call'[t].pc = "check"
      /\ \A f \in {"cmd", "sent", "data", "ret", "out"} : call'[t][f] = call[t][f]
  BY <1>1, <1>2 DEF CallRecord
<1> QED BY <1>2, <1>3

LEMMA ReturnEffect ==
  ASSUME TypeOK, NEW t \in Threads, Return(t)
  PROVE  call'[t] = Idle /\ \A u \in Threads \ {t} : call'[u] = call[u]
BY CallChange DEF Return

-----------------------------------------------------------------------------
(* The lock and the buffer                                                 *)
-----------------------------------------------------------------------------
\* Only the thread that goes on writes the buffer, and it has its own or the lock.
LEMMA OthersWait ==
  ASSUME TypeOK, LockHeld, NEW t \in Threads, NEW u \in Threads \ {t},
         call[u].pc \in {"send", "read"}
  PROVE  tzLock # None /\ call[t].pc \notin {"send", "read"}
  BY DEF LockHeld, None

LEMMA LockHeldStep ==
  ASSUME TypeOK, LockHeld, NEW t \in Threads, Step(t)
  PROVE  LockHeld'
<1>1. SUFFICES ASSUME NEW u \in Threads, call'[u].pc \in {"send", "read"}
               PROVE  tzLock' = u
  BY DEF LockHeld
<1>2. CASE Lock(t)
  <2>1. u = t
    <3>1. SUFFICES ASSUME u # t PROVE FALSE
      OBVIOUS
    <3>2. call[u].pc \in {"send", "read"}
      BY <1>1, <1>2, <3>1, GoEffect DEF Lock
    <3> QED BY <1>2, <3>1, <3>2, OthersWait DEF Lock
  <2> QED BY <1>2, <2>1 DEF Lock
<1>3. CASE Ta(t)
  <2>1. call[u].pc \in {"send", "read"}
    BY <1>1, <1>3, TaEffect DEF Ta
  <2> QED BY <1>3, <2>1 DEF LockHeld, Ta
<1>4. CASE Read(t)
  <2>1. u # t
    BY <1>1, <1>4, ReadEffect
  <2>2. call[u].pc \in {"send", "read"}
    BY <1>1, <1>4, <2>1, ReadEffect
  <2> QED BY <1>4, <2>1, <2>2 DEF LockHeld, Read
<1>5. CASE Map(t) \/ Count(t) \/ Store(t) \/ Check(t) \/ Break(t) \/ Return(t)
  <2>1. u = t \/ call'[u] = call[u]
    BY <1>5, MapEffect, CountEffect, StoreEffect, ReturnEffect, GoEffect DEF Check, Break, Idle
  <2>2. call'[t].pc \notin {"send", "read"}
    BY <1>5, MapEffect, CountEffect, StoreEffect, ReturnEffect, GoEffect DEF Check, Break, Idle
  <2>3. u # t /\ call[u].pc \in {"send", "read"}
    BY <1>1, <2>1, <2>2
  <2>4. tzLock' = tzLock
    BY <1>5 DEF Map, Count, Store, Check, Break, Return
  <2> QED BY <2>3, <2>4 DEF LockHeld
<1> QED BY <1>2, <1>3, <1>4, <1>5 DEF Step

LEMMA BufferOwnStep ==
  ASSUME TypeOK, LockHeld, BufferOwn, NEW t \in Threads, Step(t)
  PROVE  BufferOwn'
<1>0. backend' = backend /\ \A u \in Threads : Slot(u)' = Slot(u)
  BY DEF Step, Map, Lock, Ta, Read, Count, Store, Check, Break, Return, Slot, Shared
<1>1. SUFFICES ASSUME NEW u \in Threads
               PROVE  /\ call'[u].pc = "send" => buf'[Slot(u)].req = u /\ buf'[Slot(u)].rsp = "old"
                      /\ call'[u].pc = "read" /\ call'[u].ret \in {"ok", "ta_failed"}
                           => buf'[Slot(u)].rsp = u
  BY <1>0 DEF BufferOwn, Answered
<1>2. CASE Lock(t)
  <2>1. call'[t].pc = "send" /\ \A v \in Threads \ {t} : call'[v] = call[v]
    BY <1>2, GoEffect DEF Lock
  <2>2. buf'[Slot(t)].req = t /\ buf'[Slot(t)].rsp = "old"
    BY <1>2, SlotType DEF Lock, TypeOK
  <2>3. u # t => call[u].pc \notin {"send", "read"}
    BY <1>2, OthersWait DEF Lock
  <2> QED BY <2>1, <2>2, <2>3
<1>3. CASE Ta(t)
  <2>1. u # t => call'[u] = call[u] /\ call[u].pc \notin {"send", "read"}
    BY <1>3, TaEffect, OthersWait DEF Ta
  <2>2. /\ call'[t].pc = "read"
        /\ call'[t].ret \in {"ok", "ta_failed"} => buf'[Slot(t)].rsp = buf[Slot(t)].req
    BY <1>3, TaEffect
  <2>3. buf[Slot(t)].req = t
    BY <1>3 DEF Ta, BufferOwn
  <2> QED BY <2>1, <2>2, <2>3
<1>4. CASE Map(t) \/ Read(t) \/ Count(t) \/ Store(t) \/ Check(t) \/ Break(t) \/ Return(t)
  <2>1. buf' = buf
    BY <1>4 DEF Map, Read, Count, Store, Check, Break, Return
  <2>2. call'[t].pc \notin {"send", "read"}
    BY <1>4, MapEffect, ReadEffect, CountEffect, StoreEffect, ReturnEffect, GoEffect
       DEF Check, Break, Idle
  <2>3. u # t => call'[u] = call[u]
    BY <1>4, MapEffect, ReadEffect, CountEffect, StoreEffect, ReturnEffect, GoEffect
       DEF Check, Break
  <2> QED BY <2>1, <2>2, <2>3 DEF BufferOwn, Answered
<1> QED BY <1>2, <1>3, <1>4 DEF Step

-----------------------------------------------------------------------------
(* What a command comes to                                                 *)
-----------------------------------------------------------------------------
\* Results that are allowed in the record of a command.
Fine(c) ==
  /\ c.data # "other"
  /\ c.pc # "count" => c.out = None
  /\ c.pc \notin {"read", "count"} => c.ret = None
  /\ c.pc = "read" => c.ret \in {"ok", "ta_failed", "send_failed"}
  /\ c.pc = "count" =>
       /\ c.ret = "ok" => c.out = "own"
       /\ c.out = "other" => Mode[c.cmd] = Normal /\ c.ret = "send_failed"

LEMMA AllFine == (\A u \in Threads : Fine(call[u])) <=> ResultOK /\ AnswerIsOwn
  BY DEF Fine, ResultOK, AnswerIsOwn, IsMod, Kind

LEMMA ReadFine ==
  ASSUME TypeOK, BufferOwn, NEW t \in Threads, Fine(call[t]), Read(t)
  PROVE  Fine(call'[t])
<1>1. call[t].pc = "read" /\ call[t].out = None /\ call[t].data # "other"
      /\ call[t].ret \in {"ok", "ta_failed", "send_failed"}
  BY DEF Read, Fine
<1>2. Answered(t) => Found(t) = "own"
  BY <1>1 DEF BufferOwn, Found
<1>3. Data(t) # "other"
  BY <1>1, <1>2 DEF Data, None
<1>4. call[t].ret = "ok" => Out(t) = "own"
  BY <1>2 DEF Out, Answered
<1>5. Out(t) = "other" => Kind(t) = Normal /\ call[t].ret = "send_failed"
  BY <1>1, <1>2 DEF Out, Answered, IsMod, None
<1> QED BY <1>1, <1>3, <1>4, <1>5, ReadEffect DEF Fine, Kind, None

LEMMA StepFine ==
  ASSUME TypeOK, BufferOwn, NEW t \in Threads, Fine(call[t]), Step(t)
  PROVE  Fine(call'[t]) /\ \A u \in Threads \ {t} : call'[u] = call[u]
<1>1. CASE Map(t)
  BY <1>1, MapEffect DEF Map, Fine, Cleared, None
<1>2. CASE Lock(t) \/ Check(t) \/ Break(t)
  BY <1>2, GoEffect DEF Lock, Check, Break, Fine
<1>3. CASE Ta(t)
  BY <1>3, TaEffect DEF Ta, Fine
<1>4. CASE Read(t)
  BY <1>4, ReadEffect, ReadFine
<1>5. CASE Count(t)
  BY <1>5, CountEffect DEF Fine, None
<1>6. CASE Store(t)
  BY <1>6, StoreEffect DEF Store, Fine
<1>7. CASE Return(t)
  BY <1>7, ReturnEffect DEF Fine, Idle, None
<1> QED BY <1>1, <1>2, <1>3, <1>4, <1>5, <1>6, <1>7 DEF Step

LEMMA ResultStep ==
  ASSUME TypeOK, BufferOwn, ResultOK, AnswerIsOwn, NEW t \in Threads, Step(t)
  PROVE  ResultOK' /\ AnswerIsOwn'
<1>1. \A u \in Threads : Fine(call[u])
  BY AllFine
<1>2. \A u \in Threads : Fine(call'[u])
  BY <1>1, StepFine
<1>3. (\A u \in Threads : Fine(call[u]))' <=> (ResultOK /\ AnswerIsOwn)'
  BY AllFine, PTL
<1> QED BY <1>2, <1>3 DEF Fine

-----------------------------------------------------------------------------
(* What the TA is given                                                    *)
-----------------------------------------------------------------------------
\* A command that must hand over its input, in the record c with the backend of
\* the session, and what its record then holds.
MustReach(c) == c.cmd \in WithInput /\ ~ (Mode[c.cmd] = 4 /\ backend # "qsee")
Reaches(c) ==
  MustReach(c) =>
    /\ c.sent \in {None, "input"}
    /\ c.pc \in {"map", "lock", "send", "read"} => c.data = "input"
    /\ c.ret \in {"send_failed", "alloc_failed", "bad_params"} => c.data = "input"

LEMMA AllReach == (\A u \in Threads : Reaches(call[u])) <=> InputOK /\ InputReaches
  BY DEF Reaches, MustReach, InputOK, InputReaches, Guarded, Kind

\* The bytes given for a command that must hand over its input are the input.
LEMMA InputGiven ==
  ASSUME NEW t \in Threads, MustReach(call[t])
  PROVE  /\ Kind(t) \in {0, 2, 4} /\ IsMod(t)
         /\ (IF backend = "qsee" THEN Handed(t) ELSE Cleared(t)) = "input"
  BY InputModes DEF MustReach, Kind, IsMod, Normal, Handed, Cleared

LEMMA ReadReaches ==
  ASSUME TypeOK, NEW t \in Threads, Reaches(call[t]), Fine(call[t]), Read(t)
  PROVE  Reaches(call'[t]) /\ backend' = backend
<1>1. backend' = backend /\ call[t].pc = "read"
  BY DEF Read
<1>2. SUFFICES ASSUME MustReach(call[t])
               PROVE  call'[t].ret \in {"send_failed", "alloc_failed", "bad_params"}
                        => call'[t].data = "input"
  BY <1>1, ReadEffect DEF Reaches, MustReach
<1>3. call[t].data = "input" /\ IsMod(t)
  BY <1>1, <1>2, InputGiven DEF Reaches
<1>4. ~ Answered(t) => Data(t) = "input"
  BY <1>3 DEF Data
<1> QED BY <1>1, <1>3, <1>4, ReadEffect DEF Answered, Fine

LEMMA StepReaches ==
  ASSUME TypeOK, NEW t \in Threads, Reaches(call[t]), Fine(call[t]), Step(t)
  PROVE  /\ backend' = backend /\ Reaches(call'[t])
         /\ \A u \in Threads \ {t} : call'[u] = call[u]
<1>0. backend' = backend
  BY DEF Step, Map, Lock, Ta, Read, Count, Store, Check, Break, Return
<1>1. CASE Map(t)
  <2>1. /\ call[t].pc = "map" /\ call'[t].cmd = call[t].cmd
        /\ \A u \in Threads \ {t} : call'[u] = call[u]
    BY <1>1, MapEffect DEF Map
  <2>2. SUFFICES ASSUME MustReach(call[t]) PROVE Reaches(call'[t])
    BY <1>0, <2>1 DEF Reaches, MustReach
  <2>3. call[t].data = "input" /\ call[t].sent \in {None, "input"}
    BY <2>1, <2>2 DEF Reaches
  <2>4. call'[t].data = "input" /\ call'[t].sent \in {None, "input"}
    BY <1>1, <2>2, <2>3, InputGiven, MapEffect
  <2> QED BY <2>4 DEF Reaches
<1>2. CASE Lock(t) \/ Check(t) \/ Break(t)
  BY <1>0, <1>2, GoEffect DEF Lock, Check, Break, Reaches, MustReach
<1>3. CASE Ta(t)
  BY <1>0, <1>3, TaEffect DEF Ta, Reaches, MustReach
<1>4. CASE Read(t)
  BY <1>0, <1>4, ReadEffect, ReadReaches
<1>5. CASE Count(t)
  BY <1>0, <1>5, CountEffect DEF Reaches, MustReach, None
<1>6. CASE Store(t)
  BY <1>0, <1>6, StoreEffect DEF Store, Reaches, MustReach
<1>7. CASE Return(t)
  BY <1>0, <1>7, ReturnEffect DEF Reaches, MustReach, Idle, None
<1> QED BY <1>0, <1>1, <1>2, <1>3, <1>4, <1>5, <1>6, <1>7 DEF Step

LEMMA InputStep ==
  ASSUME TypeOK, ResultOK, AnswerIsOwn, InputOK, InputReaches, NEW t \in Threads, Step(t)
  PROVE  InputOK' /\ InputReaches'
<1>1. \A u \in Threads : Reaches(call[u]) /\ Fine(call[u])
  BY AllReach, AllFine
<1>2. \A u \in Threads : Reaches(call[u])'
  <2>1. SUFFICES ASSUME NEW u \in Threads PROVE Reaches(call[u])'
    OBVIOUS
  <2>2. backend' = backend /\ Reaches(call'[t]) /\ \A v \in Threads \ {t} : call'[v] = call[v]
    BY <1>1, StepReaches
  <2>3. Reaches(call'[u])
    BY <1>1, <2>2
  <2> QED BY <2>2, <2>3 DEF Reaches, MustReach
<1>3. (\A u \in Threads : Reaches(call[u]))' <=> (InputOK /\ InputReaches)'
  BY AllReach, PTL
<1> QED BY <1>2, <1>3

-----------------------------------------------------------------------------
(* The counter of errors                                                   *)
-----------------------------------------------------------------------------
LEMMA ErrorsStep ==
  ASSUME TypeOK, ErrorsCounted, BreakNeedsErrors, NEW t \in Threads, Step(t), TypeOK'
  PROVE  ErrorsCounted' /\ BreakNeedsErrors'
<1>1. failed \in 0 .. ErrLimit /\ failed' \in 0 .. ErrLimit /\ errs \in 0 .. ErrLimit
  BY DEF TypeOK
<1>2. failed <= failed'
  BY <1>1, UpToType DEF Step, Map, Lock, Ta, Read, Count, Store, Check, Break, Return
<1>3. \A n \in 0 .. ErrLimit : UpTo(n) <= failed => UpTo(n) <= failed'
  BY <1>1, <1>2, UpToType
<1>4. \A u \in Threads : call[u].seen \in 0 .. ErrLimit
  BY CallsTyped DEF CallRecord
<1>5. errs' <= failed'
  <2>1. CASE Store(t)
    BY <1>3, <1>4, <2>1 DEF Store, ErrorsCounted
  <2>2. CASE ~ Store(t)
    BY <1>1, <1>2, <2>2 DEF Step, Map, Lock, Ta, Read, Count, Check, Break, Return, ErrorsCounted
  <2> QED BY <2>1, <2>2
<1>6. \A u \in Threads \ {t} : call'[u] = call[u]
  BY MapEffect, GoEffect, TaEffect, ReadEffect, CountEffect, StoreEffect, ReturnEffect
     DEF Step, Lock, Check, Break
<1>7. /\ call'[t].pc = "store" => UpTo(call'[t].seen) <= failed'
      /\ call'[t].pc = "break" => failed' = ErrLimit
  <2>1. CASE Count(t)
    BY <1>1, <2>1, CountEffect DEF UpTo, ErrorsCounted
  <2>2. CASE Check(t)
    <3>1. call'[t].pc = IF errs >= ErrLimit THEN "break" ELSE "done"
      BY <2>2, GoEffect DEF Check
    <3> QED BY <1>1, <1>2, <3>1 DEF ErrorsCounted
  <2>3. CASE Map(t) \/ Lock(t) \/ Ta(t) \/ Read(t) \/ Store(t) \/ Break(t) \/ Return(t)
    <3>1. call'[t].pc \notin {"store", "break"}
      BY <2>3, MapEffect, GoEffect, TaEffect, ReadEffect, StoreEffect, ReturnEffect
         DEF Lock, Break, Idle
    <3> QED BY <3>1
  <2> QED BY <2>1, <2>2, <2>3 DEF Step
<1>8. ErrorsCounted'
  <2>1. \A u \in Threads : /\ call'[u].pc = "store" => UpTo(call'[u].seen) <= failed'
                           /\ call'[u].pc = "break" => failed' = ErrLimit
    BY <1>1, <1>2, <1>3, <1>4, <1>6, <1>7 DEF ErrorsCounted
  <2> QED BY <1>5, <2>1 DEF ErrorsCounted, UpTo
<1>9. BreakNeedsErrors'
  <2>1. CASE Break(t)
    BY <1>1, <1>2, <2>1 DEF Break, ErrorsCounted, BreakNeedsErrors
  <2>2. CASE ~ Break(t)
    <3>1. broken' = broken
      BY <2>2 DEF Step, Map, Lock, Ta, Read, Count, Store, Check, Return
    <3> QED BY <1>1, <1>2, <3>1 DEF BreakNeedsErrors
  <2> QED BY <2>1, <2>2
<1> QED BY <1>8, <1>9

-----------------------------------------------------------------------------
(* The theorems                                                            *)
-----------------------------------------------------------------------------
LEMMA InitInv == Init => IInv
<1> SUFFICES ASSUME Init PROVE IInv
  OBVIOUS
<1>1. \A t \in Threads : call[t] = Idle
  BY DEF Init
<1>2. TypeOK
  <2>1. call \in [Threads -> CallRecord]
    BY IdleType DEF Init
  <2>2. call \in [Threads ->
       [pc : {"idle", "map", "lock", "send", "read", "count", "store", "check", "break", "done"},
        cmd : Used \cup {None}, locked : BOOLEAN, sent : {None, "input", "zero"},
        data : {None, "input", "zero", "answer", "other"},
        ret : Failures \cup {None, "ok", "ta_failed", "alloc_failed", "bad_params", "op_failed"},
        out : {None, "own", "other"}, seen : 0 .. ErrLimit]]
    BY <2>1, Zenon DEF CallRecord, Positions, Rets
  <2>3. buf \in [Slots -> [req : Threads \cup {None}, rsp : Threads \cup {None, "old"}]]
    BY DEF Init
  <2>4. /\ backend \in Backends /\ tzLock \in Threads \cup {None} /\ mLock \in {Caller, None}
        /\ errs \in 0 .. ErrLimit /\ failed \in 0 .. ErrLimit
    BY DEF Init
  <2>5. broken \in BOOLEAN
    BY Zenon DEF Init
  <2> QED BY <2>2, <2>3, <2>4, <2>5, Zenon DEF TypeOK
<1>3. LockHeld /\ BufferOwn
  BY <1>1 DEF LockHeld, BufferOwn, Idle
<1>4. ResultOK /\ AnswerIsOwn
  BY <1>1 DEF ResultOK, AnswerIsOwn, Idle, None
<1>5. InputOK /\ InputReaches
  BY <1>1 DEF InputOK, InputReaches, Idle, None
<1>6. ErrorsCounted /\ BreakNeedsErrors
  BY <1>1 DEF Init, ErrorsCounted, BreakNeedsErrors, Idle
<1> QED BY <1>2, <1>3, <1>4, <1>5, <1>6 DEF IInv

\* A call finds its thread at rest and begins with its input.
LEMMA CallInv ==
  ASSUME IInv, NEW t \in Threads, NEW cmd \in Used, Call(t, cmd)
  PROVE  IInv'
<1>1. TypeOK'
  BY CallType DEF IInv
<1>2. /\ UNCHANGED <<backend, buf, tzLock, errs, broken, failed>>
      /\ \A u \in Threads \ {t} : call'[u] = call[u]
  BY CallEffect DEF IInv, Call
<1>3. /\ call'[t].pc \in {"lock", "map"} /\ call'[t].cmd = cmd
      /\ call'[t].sent = None /\ call'[t].ret = None /\ call'[t].out = None
      /\ call'[t].data \in {None, "input"} /\ (Mode[cmd] # Normal => call'[t].data = "input")
  BY CallEffect DEF IInv
<1>4. LockHeld'
  BY <1>2, <1>3 DEF IInv, LockHeld
<1>5. BufferOwn'
  BY <1>2, <1>3 DEF IInv, BufferOwn, Slot, Shared, Answered
<1>6. ResultOK' /\ AnswerIsOwn'
  <2>1. \A u \in Threads : Fine(call'[u])
    BY <1>2, <1>3, AllFine DEF IInv, Fine, None
  <2>2. (\A u \in Threads : Fine(call[u]))' <=> (ResultOK /\ AnswerIsOwn)'
    BY AllFine, PTL
  <2> QED BY <2>1, <2>2 DEF Fine
<1>7. InputOK' /\ InputReaches'
  <2>1. \A u \in Threads : Reaches(call[u])'
    <3>1. cmd \in WithInput => Mode[cmd] # Normal
      BY InputModes DEF Normal
    <3>2. Reaches(call[t])'
      BY <1>3, <3>1 DEF Reaches, MustReach, None
    <3>3. \A u \in Threads : Reaches(call[u])
      BY AllReach DEF IInv
    <3>4. \A u \in Threads \ {t} : Reaches(call[u])'
      BY <1>2, <3>3 DEF Reaches, MustReach
    <3> QED BY <3>2, <3>4
  <2>2. (\A u \in Threads : Reaches(call[u]))' <=> (InputOK /\ InputReaches)'
    BY AllReach, PTL
  <2> QED BY <2>1, <2>2
<1>8. ErrorsCounted' /\ BreakNeedsErrors'
  BY <1>2, <1>3 DEF IInv, ErrorsCounted, BreakNeedsErrors, UpTo
<1> QED BY <1>1, <1>4, <1>5, <1>6, <1>7, <1>8 DEF IInv

LEMMA StepInv ==
  ASSUME IInv, NEW t \in Threads, Step(t)
  PROVE  IInv'
<1>1. TypeOK'
  BY StepType DEF IInv
<1>2. LockHeld' /\ BufferOwn'
  BY LockHeldStep, BufferOwnStep DEF IInv
<1>3. ResultOK' /\ AnswerIsOwn'
  BY ResultStep DEF IInv
<1>4. InputOK' /\ InputReaches'
  BY InputStep DEF IInv
<1>5. ErrorsCounted' /\ BreakNeedsErrors'
  BY <1>1, ErrorsStep DEF IInv
<1> QED BY <1>1, <1>2, <1>3, <1>4, <1>5 DEF IInv

LEMMA NextInv == IInv /\ [Next]_vars => IInv'
<1>1. ASSUME IInv, Next PROVE IInv'
  BY <1>1, CallInv, StepInv DEF Next
<1>2. ASSUME IInv, UNCHANGED vars PROVE IInv'
  BY <1>2 DEF vars, IInv, TypeOK, LockHeld, BufferOwn, ResultOK, InputOK, ErrorsCounted,
     AnswerIsOwn, InputReaches, BreakNeedsErrors, Guarded, Kind, IsMod, Answered, Slot, Shared,
     UpTo
<1> QED BY <1>1, <1>2

\* All of it holds in every reachable state.
LEMMA Invariance == Spec => []IInv
BY InitInv, NextInv, PTL DEF Spec

\* The state has its types for every number of threads and every set of commands.
THEOREM TypeCorrect == Spec => []TypeOK
BY Invariance, PTL DEF IInv

\* Whoever else sends, a command that succeeds returns its own numbers and data
\* (sl_tee_send_normal_command, sl_tee_send_modified_command).
THEOREM AnswersOwn == Spec => []AnswerIsOwn
BY Invariance, PTL DEF IInv

\* The TA is given what the caller prepared, and a command that did not get
\* through leaves it (the wrappers of silead_fp.c over the four backends).
THEOREM InputsReach == Spec => []InputReaches
BY Invariance, PTL DEF IInv

\* The increments and resets that are lost between unlocked threads never stop
\* the worker early (_ca_check_send_result).
THEOREM BreaksNeedErrors == Spec => []BreakNeedsErrors
BY Invariance, PTL DEF IInv

=============================================================================
