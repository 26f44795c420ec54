------------------------------ MODULE Sensor ------------------------------
(***************************************************************************)
(* The sensor and who drives it: silead_impl.c with the ioctls of          *)
(* silead_dev.c, from the opening of the device to its close, as the one   *)
(* worker thread uses it (the opening thread before the worker exists).    *)
(*                                                                         *)
(* Every operation of the worker is a script of commands.  A command that  *)
(* fails ends the round; then the finger is waited for to be lifted, and   *)
(* an operation that repeats begins its next round, until it is canceled.  *)
(* Waiting is either by interrupt (_fp_wait_finger_status) or by polling   *)
(* the TA (_fp_get_finger_status), which the feature "loop" selects.       *)
(*                                                                         *)
(* The chip has no program after a reset or a power-down, until the TA     *)
(* downloads one.  A download that fails is ignored by every caller.       *)
(* What the commands answer is up to the TA and the chip.                  *)
(***************************************************************************)
EXTENDS Naturals, Sequences

CONSTANTS
  Builds,      \* builds: "optic" (SL_FP_FEATURE_OPPO_CUSTOMIZE_OPTIC) or "plain"
  FeatureSets, \* what fp_init2 may report
  NavTypes,    \* kinds of navigation
  Retries,     \* retry of _fp_wait_finger_status
  MaxOpens     \* bound on the number of times the device is opened

Features == {"reinit", "loop", "irqpwdn", "cal", "cal2", "nofinger"}
Attempts == 2

\* A chip that is powered down while it waits for the interrupt needs its
\* program afterwards: a TA that asks for the first asks for the second.
ASSUME SensorOK ==
  /\ Builds \subseteq {"optic", "plain"}
  /\ FeatureSets \subseteq SUBSET Features
  /\ \A f \in FeatureSets: "irqpwdn" \in f => "reinit" \in f
  /\ NavTypes \subseteq {"LITE", "NORMAL"}
  /\ Retries \in Nat \ {0} /\ MaxOpens \in Nat
-----------------------------------------------------------------------------
(***************************************************************************)
(* Commands and scripts                                                    *)
(***************************************************************************)
\* Commands the TA carries out without the chip.
AuthSteps    == {"auth_start", "auth_step"}
EnrollSteps  == {"enroll_start", "enroll_step"}
NavSteps     == {"nav_step"}
ImageSteps   == {"image", "frrfar", "finish"}
VersionSteps == {"version"}
TaSteps      == AuthSteps \cup EnrollSteps \cup NavSteps \cup ImageSteps \cup VersionSteps

\* Commands that need the program in the chip.
FrameSteps   == {"capture", "navcap"}
ImagingSteps == {"chk", "gain", "shot"}
TouchSteps   == {"tp"}
FactorySteps == {"qa"}
SnrSteps     == {"snr"}
SramSteps    == {"sram"}
ChipSteps    == {"chipid"}
SpeedSteps   == {"speed"}
Capturing    == FrameSteps \cup ImagingSteps \cup TouchSteps \cup FactorySteps \cup SnrSteps
                \cup SramSteps \cup ChipSteps \cup SpeedSteps

Downs == {"wait_down", "get_down", "wait_nav"}
Ups   == {"wait_up", "get_up", "get_up_unc"}

\* What is done before the first round, in every round, and after it.
Rounds(start, body, up, again) == [start |-> start, body |-> body, up |-> up, again |-> again]
Script(body, up, again) == Rounds(<<>>, body, up, again)

\* _silfp_finger_capture_image, up to the shot.
Image == <<"tp", "chk", "gain", "tp", "shot">>

Enroll  == Rounds(<<"enroll_start">>, <<"get_down">> \o Image \o <<"enroll_step">>, "get_up", TRUE)
Auth    == Rounds(<<"auth_start">>, <<"wait_down">> \o Image \o <<"auth_step">>, "wait_up", TRUE)
Lock    == Script(<<"wait_down">>, "wait_up", TRUE)
GetImage == Script(<<"get_down", "chk", "gain", "image", "shot", "image">>, "get_up", TRUE)
Speed   == Script(<<"get_down", "speed">>, "get_up", TRUE)
Quality == Script(<<"get_down", "capture", "image">>, "get_up_unc", FALSE)
Aging   == Script(<<"download", "chk", "gain", "gain">>, "none", FALSE)
Factory == Script(<<"download", "qa", "snr">>, "none", FALSE)
SpiTest == Script(<<"download", "chipid", "download", "sram">>, "none", FALSE)
Reset   == Script(<<"download">>, "none", FALSE)
Silent  == Script(<<"version", "frrfar", "finish">>, "none", FALSE)
Stroke     == <<"nav_start", "wait_nav", "navcap", "nav_step">>
Nav(type) ==
  IF type = "LITE" THEN Script(Stroke \o <<"wait_up", "navcap", "nav_step">>, "none", FALSE)
                   ELSE Script(Stroke, "wait_up", FALSE)

\* sl_fp_calibrate in either build; what follows "fpcal" depends on its answer.
Optic == Script(<<"download", "cal", "download", "cal", "download", "cal">>, "none", FALSE)
Calibrate(b, f) ==
  IF b = "optic" THEN Optic
  ELSE Script((IF "cal" \in f THEN <<"fpcal">> ELSE <<>>) \o (IF "cal2" \in f THEN <<"fpcal2">> ELSE <<>>)
              \o (IF f \cap {"cal", "cal2"} # {} THEN <<"download">> ELSE <<>>), "none", FALSE)

Scripts == {Enroll, Auth, Lock, GetImage, Speed, Quality, Aging, Factory, SpiTest, Reset, Silent}
-----------------------------------------------------------------------------
VARIABLES
  build,    \* the build
  pc,       \* where the thread stands
  tries,    \* attempts of sl_fp_init left
  opens,    \* number of times the device was opened so far
  inited,   \* m_res_inited
  conf,     \* what the running TA was told of the device: "none", "empty" or "full"
  features, \* the flags that fp_init2 set
  chip,     \* "off", "reset", "ready", or "failed" when the download failed
  script,   \* the operation
  todo,     \* its commands that are left in this round
  wait,     \* the wait it is in: what for, whether it ignores cancels, its retries and result
  cancel,   \* m_work_cancel
  bits,     \* m_config_update
  changed,  \* the TA's configuration is not the one that was saved
  lost      \* saving it failed so far

opening == <<build, tries, opens, inited, conf>>
config  == <<bits, changed, lost>>
vars    == <<opening, pc, features, chip, script, todo, wait, cancel, config>>

NoScript == Script(<<>>, "none", FALSE)
NoWait   == [for |-> "none", unc |-> FALSE, retry |-> 0, ret |-> "ok"]
WaitPcs  == {"begin", "detect", "check", "block", "after", "end", "pollbegin", "poll"}

\* sl_fp_download_normal: a reset, and the TA's program if the TA can.
Loaded   == {"ready", "failed"}
Download == chip' \in Loaded
-----------------------------------------------------------------------------
(***************************************************************************)
(* Opening and closing                                                     *)
(***************************************************************************)
\* sl_fp_init
Open ==
  /\ pc = "closed" /\ opens < MaxOpens
  /\ opens' = opens + 1 /\ tries' = Attempts
  /\ pc' = "dev"
  /\ UNCHANGED <<build, inited, conf, features, chip, script, todo, wait, cancel, config>>

\* An attempt that failed: nothing is undone, and there may be another one.
Failed ==
  /\ tries' = tries - 1
  /\ pc' = IF tries > 1 THEN "dev" ELSE "closed"

\* silfp_dev_init: only its first call asks the driver what the device is.
Describe == pc' = (IF inited THEN "ta_empty" ELSE "ta_full") /\ inited' = TRUE

HwReset == chip' = "reset"

\* open, silfp_dev_init and silfp_dev_hw_reset.
DevInit ==
  /\ pc = "dev"
  /\ \/ /\ Describe /\ HwReset
        /\ UNCHANGED tries
     \/ Failed /\ UNCHANGED <<inited, chip>>
  /\ UNCHANGED <<build, opens, conf, features, script, todo, wait, cancel, config>>

\* silfp_get_impl_handler and fp_init: the TA gets what silfp_dev_init left.
TaInit ==
  /\ pc \in {"ta_full", "ta_empty"}
  /\ \/ /\ conf' = IF pc = "ta_full" THEN "full" ELSE "empty"
        /\ pc' = "init2"
        /\ UNCHANGED tries
     \/ Failed /\ UNCHANGED conf
  /\ UNCHANGED <<build, opens, inited, features, chip, script, todo, wait, cancel, config>>

Begin(s) ==
  /\ script' = s /\ todo' = s.start \o s.body
  /\ pc' = IF s.body = <<>> THEN "done" ELSE "run"
  /\ wait' = NoWait

\* _fp_init2, then silfp_finger_init: sl_fp_get_otp and the worker's start,
\* which begins with sl_fp_calibrate.  A failure leaves the features of the last session.
Init2 ==
  /\ pc = "init2"
  /\ \/ /\ features' \in FeatureSets
        /\ Begin(Calibrate(build, features'))
        /\ cancel' = FALSE /\ tries' = 0
     \/ Failed /\ UNCHANGED <<features, script, todo, wait, cancel>>
  /\ UNCHANGED <<build, opens, inited, conf, chip, config>>

DevDeinit == inited' = FALSE

\* sl_fp_close, after the worker has ended.  m_config_update is left as it is.
Close ==
  /\ pc \in {"done", "rest"}
  /\ pc' = "closed" /\ DevDeinit
  /\ conf' = "none" /\ changed' = FALSE
  /\ UNCHANGED <<build, tries, opens, features, chip, script, todo, wait, cancel, bits, lost>>
-----------------------------------------------------------------------------
(***************************************************************************)
(* The configuration the TA learns                                         *)
(***************************************************************************)
\* _sl_fp_save_config, with m_config_update = b and what the TA has now: the
\* update is taken for done before it is tried.
Save(b, dirty) ==
  IF b # {"CHG", "UP", "DOWN"}
    THEN bits' = b /\ changed' = dirty /\ UNCHANGED lost
    ELSE /\ bits' = {}
         /\ IF features \cap {"cal", "cal2"} = {}
              THEN changed' = dirty /\ UNCHANGED lost
              ELSE \/ changed' = FALSE /\ UNCHANGED lost
                   \/ changed' = dirty /\ lost' = TRUE

\* Fault: the bit is stored over those that are set.
Seen_Overwrites(for) == {IF for = "up" THEN "UP" ELSE "DOWN"}

\* The finger was seen to come or go.
Seen(for) == bits \cup {IF for = "up" THEN "UP" ELSE "DOWN"}
-----------------------------------------------------------------------------
(***************************************************************************)
(* A round of an operation                                                 *)
(***************************************************************************)
\* What a wait is for.
For(step) == CASE step = "wait_nav" -> "nav" [] step \in Ups -> "up" [] OTHER -> "down"

\* Where a wait begins: it is polled only by sl_fp_get_finger_*.
WaitFor(step) ==
  /\ wait' = [for   |-> For(step),
              unc   |-> step = "get_up_unc",
              retry |-> Retries, ret |-> "ok"]
  /\ pc' = IF "loop" \in features /\ step \in {"get_down", "get_up", "get_up_unc"} THEN "pollbegin" ELSE "begin"

\* The end of a round: the finger is waited for to be lifted if nothing was
\* canceled, and by the tests of images in any case.
Lift(r) ==
  IF script \in {Quality, GetImage} \/ (script.up # "none" /\ r # "canceled" /\ ~cancel)
    THEN todo' = <<script.up>> /\ pc' = "run" /\ wait' = NoWait
    ELSE todo' = <<>> /\ pc' = "done" /\ wait' = NoWait

\* Commands whose failure does not end the round.
Joined == {"tp", "qa"} \cup ImageSteps \cup VersionSteps
Forgiven == Head(todo) \in (Joined \ {"image"}) \/ script \in {Calibrate(build, features), Aging}

\* A command has ended with r.
Step(r) ==
  IF todo = <<script.up>>
    THEN /\ wait' = NoWait
         /\ IF script.again /\ ~cancel
              THEN todo' = script.body /\ pc' = "run"
              ELSE todo' = <<>> /\ pc' = "done"
  ELSE IF r = "ok" \/ Forgiven
    THEN IF Tail(todo) = <<>> THEN Lift("ok")
                              ELSE todo' = Tail(todo) /\ pc' = "run" /\ wait' = NoWait
    ELSE Lift(r)

Command(set) == pc = "run" /\ todo # <<>> /\ Head(todo) \in set

Wait ==
  /\ Command(Downs \cup Ups)
  /\ WaitFor(Head(todo))
  /\ UNCHANGED <<opening, features, chip, script, todo, cancel, config>>

\* A command that changes nothing here.
Ta ==
  /\ Command(TaSteps \cup Capturing \cup {"cal", "fpcal2"})
  /\ \E r \in {"ok", "err"}: Step(r)
  /\ UNCHANGED <<opening, features, chip, script, cancel, config>>

\* A capture that failed or did not match is repeated while the finger is there.
Retry ==
  /\ script = Auth /\ Command({"chk", "gain", "shot", "auth_step"})
  /\ todo' = Image \o <<"auth_step">>
  /\ UNCHANGED <<opening, pc, features, chip, script, wait, cancel, config>>

Load ==
  /\ Command({"download"})
  /\ Download
  /\ Step("ok")
  /\ UNCHANGED <<opening, features, script, cancel, config>>

\* sl_fp_nav_start
NavStart ==
  /\ Command({"nav_start"})
  /\ IF "CHG" \in bits THEN Download ELSE UNCHANGED chip
  /\ \E r \in {"ok", "err"}: Step(r)
  /\ UNCHANGED <<opening, features, script, cancel, config>>

\* The first part of sl_fp_calibrate of the plain build: a TA that does not
\* accept the saved configuration begins a new one.
FpCal ==
  /\ Command({"fpcal"})
  /\ \/ Step("ok") /\ UNCHANGED config
     \/ /\ bits' = {"CHG"} /\ changed' = TRUE
        /\ todo' = (CASE "nofinger" \in features -> <<"wait_up">>
                      [] "nofinger" \notin features /\ "cal2" \in features -> <<"download">>
                      [] OTHER -> <<>>) \o Tail(todo)
        /\ UNCHANGED <<pc, wait, lost>>
  /\ UNCHANGED <<opening, features, chip, script, cancel>>

\* The worker takes up what is asked next.  It powers the chip down only when
\* nothing is asked (and not in STATE_WAIT).
Take(s) ==
  /\ pc \in {"done", "rest"}
  /\ Begin(s)
  /\ cancel' = FALSE
  /\ UNCHANGED <<opening, features, chip, config>>

TakeUp ==
  \/ \E s \in Scripts: Take(s)
  \/ \E t \in NavTypes: Take(Nav(t))
  \/ Take(Calibrate(build, features))

\* sl_fp_chip_pwdn
Rest ==
  /\ pc = "done"
  /\ pc' = "rest" /\ chip' = "off"
  /\ script' = NoScript /\ UNCHANGED <<opening, features, todo, wait, cancel, config>>

\* A caller raises m_work_cancel, by a cancel or by the next request.
Cancel ==
  /\ pc \in {"run"} \cup WaitPcs /\ ~cancel
  /\ cancel' = TRUE
  /\ UNCHANGED <<opening, pc, features, chip, script, todo, wait, config>>
-----------------------------------------------------------------------------
(***************************************************************************)
(* _fp_wait_finger_status                                                  *)
(***************************************************************************)
Goto(p, r) == pc' = p /\ wait' = [wait EXCEPT !.ret = r]

WaitBegin ==
  /\ pc = "begin"
  /\ IF "irqpwdn" \in features THEN chip' = "off" /\ pc' = "check" ELSE Download /\ pc' = "detect"
  /\ UNCHANGED <<opening, features, script, todo, wait, cancel, config>>

\* Fault: a retry is not counted.
Decrement_Never == wait.retry

Decrement == wait.retry - 1

\* The TA prepares the chip for its interrupt.  An invalid interrupt flashes
\* the power; the continue then leaves the loop, whose condition is about ESD.
Detect ==
  /\ pc = "detect"
  /\ \/ /\ pc' = "check"
        /\ wait' = [wait EXCEPT !.retry = Decrement]
        /\ UNCHANGED <<chip, todo>>
     \/ /\ wait.retry > 1
        /\ pc' = "end" /\ wait' = [wait EXCEPT !.retry = Decrement, !.ret = "err"]
        /\ HwReset
        /\ UNCHANGED todo
     \/ Step("err") /\ UNCHANGED chip
  /\ UNCHANGED <<opening, features, script, cancel, config>>

\* The optical build knows from the framework that a finger is there.
Check ==
  /\ pc = "check"
  /\ IF cancel /\ ~wait.unc THEN Goto("end", "canceled")
     ELSE \/ build = "optic" /\ wait.for \in {"down", "up"} /\ Goto("after", "ok")
          \/ Goto("block", "ok")
  /\ UNCHANGED <<opening, features, chip, script, todo, cancel, config>>

Interrupt ==
  /\ pc = "block"
  /\ Goto("after", "ok")
  /\ UNCHANGED <<opening, features, chip, script, todo, cancel, config>>

Interrupted ==
  /\ pc = "block" /\ cancel /\ ~wait.unc
  /\ Goto("after", "canceled")
  /\ UNCHANGED <<opening, features, chip, script, todo, cancel, config>>

\* Fault: the program is not loaded again.
Reinit_Forgotten ==
  /\ pc = "after" /\ wait.ret # "canceled" /\ "reinit" \in features
  /\ Goto("end", "ok")
  /\ UNCHANGED <<opening, features, chip, script, todo, cancel, config>>

\* After an interrupt that a finger or a stroke made the chip is loaded again.
Reinit ==
  /\ pc = "after" /\ wait.ret # "canceled" /\ "reinit" \in features
  /\ Goto("end", "ok")
  /\ IF wait.for \in {"down", "nav"} THEN Download ELSE UNCHANGED chip
  /\ UNCHANGED <<opening, features, script, todo, cancel, config>>

\* Otherwise it is asked whether it lost its program.
CheckEsd ==
  /\ pc = "after" /\ wait.ret # "canceled" /\ "reinit" \notin features
  /\ \/ \E r \in {"ok", "err"}: Goto("end", r) /\ UNCHANGED chip
     \/ wait.retry > 0 /\ Goto("begin", "esd") /\ HwReset
     \/ wait.retry = 0 /\ Goto("end", "esd") /\ UNCHANGED chip
  /\ UNCHANGED <<opening, features, script, todo, cancel, config>>

AfterCancel ==
  /\ pc = "after" /\ wait.ret = "canceled"
  /\ Goto("end", "canceled")
  /\ UNCHANGED <<opening, features, chip, script, todo, cancel, config>>

WaitEnd ==
  /\ pc = "end"
  /\ IF wait.ret \in {"canceled", "esd"} THEN UNCHANGED config ELSE Save(Seen(wait.for), changed)
  /\ Step(wait.ret)
  /\ UNCHANGED <<opening, features, chip, script, cancel>>
-----------------------------------------------------------------------------
(***************************************************************************)
(* sl_fp_get_finger_down, _up and _up_uncancelable when they poll          *)
(***************************************************************************)
PollBegin ==
  /\ pc = "pollbegin"
  /\ Download /\ pc' = "poll"
  /\ UNCHANGED <<opening, features, script, todo, wait, cancel, config>>

PollCanceled ==
  /\ pc = "poll" /\ cancel /\ ~wait.unc
  /\ Step("err")
  /\ UNCHANGED <<opening, features, chip, script, cancel, config>>

Polls == pc = "poll" /\ (wait.unc \/ ~cancel)

\* _fp_get_finger_status that fails; after an ESD the chip is flashed and loaded.
PollFails ==
  /\ Polls
  /\ Download \/ UNCHANGED chip
  /\ IF wait.unc THEN UNCHANGED <<pc, todo, wait>> ELSE Step("err")
  /\ UNCHANGED <<opening, features, script, cancel, config>>

\* A status is reported, and with it that the configuration changed or is complete.
Status(for) ==
  /\ Polls
  /\ \/ Save(Seen(for), changed)
     \/ Save({"CHG"}, TRUE)
  /\ features' \in {features, features \ {"loop"}}
  /\ IF for = wait.for THEN Step("ok") ELSE UNCHANGED <<pc, todo, wait>>
  /\ UNCHANGED <<opening, chip, script, cancel>>

PollSeen  == pc = "poll" /\ Status(wait.for)
PollOther == pc = "poll" /\ \E f \in {"down", "up"} \ {wait.for}: Status(f)
-----------------------------------------------------------------------------
Init ==
  /\ build \in Builds /\ pc = "closed" /\ tries = 0 /\ opens = 0
  /\ inited = FALSE /\ conf = "none" /\ features = {} /\ chip = "off"
  /\ script = NoScript /\ todo = <<>> /\ wait = NoWait /\ cancel = FALSE
  /\ bits = {} /\ changed = FALSE /\ lost = FALSE

Opening == Open \/ DevInit \/ TaInit \/ Init2 \/ Close
Worker  == Wait \/ Ta \/ Retry \/ Load \/ NavStart \/ FpCal \/ Rest
Waits   == WaitBegin \/ Detect \/ Check \/ Interrupted \/ Reinit \/ CheckEsd \/ AfterCancel \/ WaitEnd
Poll    == PollBegin \/ PollCanceled \/ PollFails \/ PollSeen \/ PollOther

Next == Opening \/ Worker \/ TakeUp \/ Cancel \/ Waits \/ Interrupt \/ Poll
Spec == Init /\ [][Next]_vars

\* The thread goes on, and fingers come and go: an interrupt comes, and a
\* poll that goes on sees the finger at last.
TouchedSpec == Spec /\ WF_vars(Waits \/ Poll) /\ WF_vars(Interrupt) /\ SF_vars(PollSeen)
-----------------------------------------------------------------------------
(***************************************************************************)
(* Properties                                                              *)
(***************************************************************************)
\* Every variable keeps its type, and a wait belongs to the command at hand.
TypeOK ==
  /\ build \in Builds
  /\ pc \in {"closed", "dev", "ta_full", "ta_empty", "init2", "run", "done", "rest"} \cup WaitPcs
  /\ tries \in 0..Attempts /\ opens \in 0..MaxOpens
  /\ inited \in BOOLEAN
  /\ conf \in {"none", "empty", "full"} /\ features \subseteq Features
  /\ chip \in {"off", "reset", "ready", "failed"}
  /\ wait.retry \in 0..Retries
  /\ pc \in WaitPcs => /\ todo # <<>> /\ Head(todo) \in Downs \cup Ups
                       /\ wait.for = For(Head(todo))
  /\ pc = "run" => todo # <<>>
  /\ cancel \in BOOLEAN /\ bits \subseteq {"CHG", "UP", "DOWN"}
  /\ changed \in BOOLEAN /\ lost \in BOOLEAN

\* No capturing command reaches a chip that was reset or powered down and not
\* loaded since, whichever way the wait before it went (silead_impl.c:297-369,
\* 1331-1446).  Light navigation is left out where the chip sleeps during waits:
\* it captures after a wait for the finger's lift, which loads nothing.
ChipReady ==
  (\/ pc = "poll"
   \/ pc = "run" /\ Head(todo) \in Capturing /\ ~(script = Nav("LITE") /\ "irqpwdn" \in features))
  => chip \in Loaded

\* A configuration the TA has changed since it was saved is still marked, or
\* saving it failed, or the TA did not ask for it (_sl_fp_save_config clears
\* m_config_update before it tries).
ConfigNotForgotten ==
  changed => \/ "CHG" \in bits \/ lost
             \/ features \cap {"cal", "cal2"} = {}

\* As long as fingers come and go every wait ends: an ESD is retried a bounded
\* number of times, and a poll does not outlive what it waits for.
WaitsEnd == pc \in WaitPcs ~> pc \notin WaitPcs
=============================================================================
