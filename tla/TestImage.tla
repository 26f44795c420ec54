------------------------------ MODULE TestImage ------------------------------
(***************************************************************************)
(* Images of the test application: gathered from the sensor, kept in files *)
(* and sent back to be enrolled and matched.                               *)
(*                                                                         *)
(*   worker   silead_test.c and silead_bmp.c: one buffer for the image, as *)
(*            the TA gives and takes it, and one for the answer, in which  *)
(*            it is a bitmap with padded rows from the bottom up;          *)
(*   service  FingerCommand and FingerService: a sender, a receiver with a *)
(*            buffer of MaxFrame, the client that is told of answers;      *)
(*   app      FingerManager, EnrollingActivity (gathers), and              *)
(*            FingerFarTestActivity, whose task sends one image, waits for *)
(*            whatever comes, and sends the next.                          *)
(*                                                                         *)
(* How the worker and the hub share the command is the subject of TestCmd: *)
(* here the command not yet taken up is replaced by the next.  No name is  *)
(* in both, so that one module can hold the proofs about both.             *)
(***************************************************************************)
EXTENDS Integers, Sequences, FiniteSetsExt

CONSTANTS
  Geometries,   \* what the TA may say of its images: [w, h, wo, ho, size]
  Header,       \* IMG_DATA_OFFSET
  MaxFrame,     \* MAX_COMMAND_BYTES
  Samples,      \* mSampleCount
  MaxWaiting,   \* bound on the answers, and on the messages, that wait
  MaxTouches,   \* bound on the touches
  MaxOpened     \* bound on the activities

ASSUME ImageConstants ==
  /\ Geometries \subseteq [w : Nat \ {0}, h : Nat \ {0}, wo : Nat, ho : Nat,
                           size : Nat \ {0}]
  /\ {Header, MaxFrame, Samples, MaxWaiting, MaxTouches, MaxOpened} \subseteq Nat

VARIABLES
  geo,       \* the TA's images
  dims,      \* m_test_image_w, _h, _w_ori, _h_ori
  buffer,    \* m_test_image_buffer, <<>> for NULL
  rspLen,    \* m_test_cmd_img_reponse.rsp_len
  worker,    \* where the worker is
  slot,      \* m_test_cmd_data
  requested, \* STATE_TEST is requested: what runs is cancelled
  wire,      \* answers on their way to the application
  linked,    \* mSocket is connected
  client,    \* mTestClient is set
  out,       \* commands before the sender
  inbox,     \* messages before the main thread
  callback,  \* mTestCmdCallback: 0 for the gathering activity's, or a task's
  screen,    \* the activity in front
  opened,    \* activities opened so far
  enrolled,  \* mSampleEnrolled
  tplCount,  \* mTplImageCount
  mine,      \* the finger gathered is the one whose files are followed here
  files,     \* its image files
  task,      \* TestAsyncTask: where it stands, the file and command it is at
  queued,    \* the activity whose task waits for that one to end, or 0
  result,    \* mResultObj
  touches,   \* touches so far, and the rest is history:
  asked,     \*   commands so far
  given,     \*   the last image the TA was given
  mixed,     \*   an error of another command was taken for an answer
  cut,       \*   the connection was lost
  dropped    \*   what the task waits for is not run, or not told

imageHal == <<dims, buffer, rspLen, worker, slot, requested>>
link     == <<wire, linked, client, out, inbox>>
gather   == <<enrolled, tplCount, mine, files>>
app      == <<callback, screen, opened, gather, task, queued, result>>
imageHistory == <<touches, asked, given, mixed, cut, dropped>>
imageVars    == <<geo, imageHal, link, app, imageHistory>>

NoImage == [w |-> 0, h |-> 0, px |-> <<>>]
NoFile == [img |-> NoImage, orig |-> 0, shot |-> 0]
NoDims == [w |-> 0, h |-> 0, wo |-> 0, ho |-> 0]
NoTask == [at |-> "none", file |-> 0, n |-> 0, id |-> 0, cancelled |-> FALSE]
NoResult == [kind |-> "none", n |-> 0, done |-> FALSE]
Packet(id, n, file) == [id |-> id, n |-> n, file |-> file]

\* What the sensor sees at a touch: no two pixels of two images are equal.
Shot(touch, orig, len) == [i \in 1..len |-> 100 * touch + 50 * orig + i]
-----------------------------------------------------------------------------
(***************************************************************************)
(* silead_bmp.c                                                            *)
(***************************************************************************)
Stride(w) == ((w + 3) \div 4) * 4
BmpSize(w, h) == Header + Stride(w) * h

\* Rows from the last to the first, each padded to a multiple of four.
BmpOf(buf, w, h) ==
  [w |-> w, h |-> h,
   px |-> [k \in 1..Stride(w) * h |->
             LET row == (k - 1) \div Stride(w)
                 col == (k - 1) % Stride(w)
             IN IF col < w THEN buf[w * (h - 1 - row) + col + 1] ELSE 0]]

BmpData(img) ==
  [k \in 1..img.w * img.h |->
     LET row == (k - 1) \div img.w
         col == (k - 1) % img.w
     IN img.px[Stride(img.w) * (img.h - 1 - row) + col + 1]]

\* A file from an earlier gathering.
Earlier(g) == [img |-> BmpOf(Shot(0, 0, g.w * g.h), g.w, g.h), orig |-> 0, shot |-> 0]

\* What stands in a buffer once pixels are put there.
Filled(raw, px) == [i \in 1..Len(raw) |-> IF i <= Len(px) THEN px[i] ELSE raw[i]]
-----------------------------------------------------------------------------
(***************************************************************************)
(* The worker: silead_test.c, and its callers in silead_fingerext.c        *)
(***************************************************************************)
Reply(a) == wire' = IF linked THEN Append(wire, a) ELSE wire

\* n is history, and 0 for a capture: an answer does not name its command.
Error(n) == [kind |-> "error", n |-> n]

\* silfp_test_get_image_size.  The buffer is kept once it is there.
ImageSize(told) ==
  LET d == IF told THEN geo ELSE dims
  IN [w |-> d.w, h |-> d.h, wo |-> IF d.wo = 0 THEN d.w ELSE d.wo,
                            ho |-> IF d.ho = 0 THEN d.h ELSE d.ho]
RawBuffer(told, allocated) ==
  IF told /\ allocated /\ buffer = <<>> THEN [i \in 1..geo.size |-> -1] ELSE buffer

\* silfp_test_deinit
Deinit == buffer' = <<>> /\ dims' = NoDims

Take ==
  /\ worker = "idle" /\ requested
  /\ worker' = slot.id
  /\ requested' = FALSE
  /\ UNCHANGED <<geo, dims, buffer, rspLen, slot, link, app, imageHistory>>

\* A command that was replaced before it began is not run, nor answered.
Skip ==
  /\ worker \in {"capture", "send", "clear", "finish"} /\ requested
  /\ worker' = "idle"
  /\ UNCHANGED <<geo, dims, buffer, rspLen, slot, requested, link, app, imageHistory>>

\* _ext_do_test_get_image up to its loop.  When it fails, its request stands,
\* as for a loop: it is tried, and answered, again until another command comes.
CaptureBegin ==
  /\ worker = "capture"
  /\ \E told, image, response \in BOOLEAN :
       /\ dims' = ImageSize(told) /\ buffer' = RawBuffer(told, image)
       /\ LET sized == told /\ buffer' # <<>>
              rsp   == IF rspLen = 0 /\ sized /\ response
                         THEN BmpSize(dims'.wo, dims'.ho) + 12 ELSE rspLen
          IN /\ rspLen' = rsp
             /\ IF sized /\ rsp > 0
                  THEN worker' = "loop" /\ UNCHANGED <<wire, requested>>
                  ELSE /\ worker' = "idle" /\ requested' = TRUE
                       /\ Len(wire) < MaxWaiting /\ Reply(Error(0))
  /\ UNCHANGED <<geo, slot, linked, client, out, inbox, app, imageHistory>>

\* Fault: a capture that failed is answered as one that succeeded.
Code_Success(orig, ok) == 0

\* The error code of the answer: the original image has none.
Code(orig, ok) == IF ok \/ orig = 1 THEN 0 ELSE 1

\* silfp_test_image_capture.  The TA takes the image; finds it too poor, and
\* gives it all the same; or cannot be reached, which leaves the last image
\* in the buffer.  Only the image that is matched is asked for as a template.
ImageCapture(orig) ==
  \E how \in {"taken", "poor", "unreached"}, tpl \in BOOLEAN :
    LET w    == IF orig = 1 THEN dims.wo ELSE dims.w
        h    == IF orig = 1 THEN dims.ho ELSE dims.h
        room == Len(buffer)
        len  == IF how = "unreached" THEN room ELSE Min({w * h, room})
        fits == w * h <= len /\ rspLen >= 12 + BmpSize(w, h)
    IN /\ orig = 1 \/ how = "unreached" => ~tpl
       /\ buffer' = IF how = "unreached" THEN buffer
                                         ELSE Filled(buffer, Shot(touches', orig, len))
       /\ Reply([kind |-> "image", n |-> 0, err |-> Code(orig, how = "taken"),
                  img |-> IF fits THEN BmpOf(buffer', w, h) ELSE NoImage,
                  tpl |-> tpl, orig |-> orig, shot |-> touches'])

\* A touch, up to the original image, and the image that is matched.
Original ==
  /\ worker = "loop" /\ touches < MaxTouches
  /\ touches' = touches + 1
  /\ ImageCapture(1)
  /\ worker' = "shot"
  /\ UNCHANGED <<geo, dims, rspLen, slot, requested, linked, client, out, inbox,
                 app, asked, given, mixed, cut, dropped>>

Processed ==
  /\ worker = "shot"
  /\ UNCHANGED touches
  /\ ImageCapture(0)
  /\ worker' = "loop"
  /\ UNCHANGED <<geo, dims, rspLen, slot, requested, linked, client, out, inbox,
                 app, imageHistory>>

\* sl_fp_ci_shot fails.
NoShot ==
  /\ worker = "shot"
  /\ worker' = "loop"
  /\ UNCHANGED <<geo, dims, buffer, rspLen, slot, requested, link, app, imageHistory>>

CaptureEnd ==
  /\ worker = "loop" /\ requested
  /\ Deinit
  /\ worker' = "idle"
  /\ UNCHANGED <<geo, rspLen, slot, requested, link, app, imageHistory>>

\* The image of the command is what the TA takes, and fits the buffer.
Parsed(c, raw) ==
  /\ c.id = "send" /\ c.file.img.w = dims'.w /\ c.file.img.h = dims'.h
  /\ dims'.w * dims'.h <= Len(raw)

\* _ext_do_test_frrfar_send_image, with the data that stands now.  The TA puts
\* its result over the image; the answer names neither the image nor the
\* command: its index is always 0.
SendImage ==
  /\ worker = "send"
  /\ \E told, allocated, matched, done \in BOOLEAN :
       LET raw == RawBuffer(told, allocated)
           px  == BmpData(slot.file.img)
       IN /\ buffer = <<>> \/ (told /\ allocated)
          /\ dims' = IF buffer = <<>> THEN ImageSize(told) ELSE dims
          /\ IF raw # <<>> /\ Parsed(slot, raw)
               THEN /\ given' = [px |-> px, orig |-> slot.file.orig,
                                 shot |-> slot.file.shot]
                    /\ buffer' = Filled(raw, IF matched THEN <<0>> \o Tail(px) ELSE px)
                    /\ Reply(IF matched
                                THEN [kind |-> "result", n |-> slot.n, done |-> done]
                                ELSE Error(slot.n))
               ELSE given' = given /\ buffer' = raw /\ Reply(Error(slot.n))
  /\ worker' = "answered"
  /\ UNCHANGED <<geo, rspLen, slot, requested, linked, client, out, inbox, app,
                 touches, asked, mixed, cut, dropped>>

\* The end of the images of a finger, and of the test.
FinishImages ==
  /\ worker \in {"clear", "finish"}
  /\ Deinit
  /\ Reply([kind |-> IF worker = "clear" THEN "next" ELSE "success", n |-> slot.n])
  /\ worker' = "answered"
  /\ UNCHANGED <<geo, rspLen, slot, requested, linked, client, out, inbox, app,
                 imageHistory>>

\* silfp_finger_is_canceled: a request that is there by now stands.
Answered ==
  /\ worker = "answered"
  /\ worker' = IF requested THEN "idle" ELSE "settle"
  /\ UNCHANGED <<geo, dims, buffer, rspLen, slot, requested, link, app, imageHistory>>

\* The task may wait for the answer to a command that is not run, or not told.
Drop(n) == dropped' = (dropped \/ (task.at \in {"wait", "clear"} /\ n = task.n))

\* STATE_WAIT, or STATE_IDLE, is stored: over the command that was requested,
\* on the answer, after the flag was looked at.
Settle ==
  /\ worker = "settle"
  /\ worker' = "idle" /\ requested' = FALSE
  /\ IF requested THEN Drop(slot.n) ELSE UNCHANGED dropped
  /\ UNCHANGED <<geo, dims, buffer, rspLen, slot, link, app, touches, asked, given,
                 mixed, cut>>
-----------------------------------------------------------------------------
(***************************************************************************)
(* The service: FingerCommand.java and FingerService.java                  *)
(***************************************************************************)
FrameOf(c) == 13 + Header + Len(c.file.img.px)
FrameOfAnswer(a) ==
  IF a.kind = "image" /\ a.img # NoImage THEN 16 + Header + Len(a.img.px) ELSE 8

\* processResponseErr: the client is told, and not told of anything more.
ResponseErr(n) ==
  /\ inbox' = IF client THEN Append(inbox, Error(n)) ELSE inbox
  /\ client' = FALSE
  /\ IF client THEN UNCHANGED dropped ELSE Drop(n)

\* The sender: the command reaches the hub, which stores and requests it, in
\* the place of one not run yet.
Send ==
  /\ out # <<>>
  /\ out' = Tail(out)
  /\ IF linked /\ FrameOf(Head(out)) <= MaxFrame
       THEN /\ slot' = Head(out) /\ requested' = TRUE
            /\ IF requested \/ worker = slot.id THEN Drop(slot.n) ELSE UNCHANGED dropped
            /\ UNCHANGED <<inbox, client>>
       ELSE ResponseErr(Head(out).n) /\ UNCHANGED <<slot, requested>>
  /\ UNCHANGED <<geo, dims, buffer, rspLen, worker, wire, linked, app, touches, asked,
                 given, mixed, cut>>

\* FingerManager.onTestCmdResult: an answer with less than an image is an error.
Decoded(a) ==
  IF a.kind = "image" /\ a.img = NoImage THEN Error(a.n) ELSE a

\* The receiver: a frame longer than its buffer ends the connection.
Receive ==
  /\ wire # <<>> /\ Len(inbox) < MaxWaiting
  /\ IF FrameOfAnswer(Head(wire)) <= MaxFrame
       THEN /\ wire' = Tail(wire)
            /\ inbox' = IF client THEN Append(inbox, Decoded(Head(wire))) ELSE inbox
            /\ IF client THEN UNCHANGED dropped ELSE Drop(Head(wire).n)
            /\ UNCHANGED <<linked, cut>>
       ELSE /\ wire' = <<>> /\ linked' = FALSE /\ cut' = TRUE
            /\ UNCHANGED <<inbox, dropped>>
  /\ UNCHANGED <<geo, imageHal, client, out, app, touches, asked, given, mixed>>

Reconnect ==
  /\ ~linked
  /\ linked' = TRUE
  /\ UNCHANGED <<geo, imageHal, wire, client, out, inbox, app, imageHistory>>

\* FingerManager.testCmd and FingerService.testCmd
Demand(id, file, who) ==
  /\ asked' = asked + 1
  /\ out' = Append(out, Packet(id, asked + 1, file))
  /\ callback' = who
  /\ client' = TRUE
-----------------------------------------------------------------------------
(***************************************************************************)
(* The application: gathering (EnrollingActivity.java)                     *)
(***************************************************************************)
OpenGather ==
  /\ screen = "home" /\ opened < MaxOpened
  /\ screen' = "gather" /\ opened' = opened + 1
  /\ enrolled' = 0 /\ tplCount' = -1
  /\ mine' \in BOOLEAN
  /\ files' = IF mine' THEN [k \in 1..Samples |-> NoFile] ELSE files
  /\ Demand("capture", NoFile, 0)
  /\ UNCHANGED <<geo, imageHal, wire, linked, inbox, task, queued, result, touches,
                 given, mixed, cut, dropped>>

LeaveGather ==
  /\ screen = "gather"
  /\ screen' = "home"
  /\ Demand("finish", NoFile, 0)
  /\ UNCHANGED <<geo, imageHal, wire, linked, inbox, opened, gather, task, queued,
                 result, touches, given, mixed, cut, dropped>>

\* The last image is gathered again.
Again ==
  /\ screen = "gather"
  /\ 0 <= tplCount /\ tplCount < enrolled
  /\ enrolled' = enrolled - 1
  /\ UNCHANGED <<geo, imageHal, link, callback, screen, opened, tplCount, mine,
                 files, task, queued, result, imageHistory>>

\* updateData: images that succeeded are saved, which may fail.
\* What is gathered of another finger is not followed.
UpdateData(m) ==
  IF mine /\ m.kind = "image" /\ m.err = 0 /\ enrolled < Samples
    THEN \E saved \in BOOLEAN :
           /\ files' = [files EXCEPT ![enrolled + 1] =
                 IF saved THEN [img |-> m.img, orig |-> m.orig, shot |-> m.shot]
                          ELSE NoFile]
           /\ UNCHANGED mine
           /\ tplCount' = IF ~m.tpl /\ tplCount < 0 THEN enrolled ELSE tplCount
           /\ enrolled' = IF saved THEN enrolled + 1 ELSE enrolled
    ELSE UNCHANGED gather
-----------------------------------------------------------------------------
(***************************************************************************)
(* The application: testing (FingerFarTestActivity.java)                   *)
(***************************************************************************)
\* The system runs one such task after the other: the task of an activity
\* waits behind the one that still runs.
OpenTest ==
  /\ screen = "home" /\ opened < MaxOpened
  /\ screen' = "test" /\ opened' = opened + 1
  /\ queued' = opened + 1
  /\ UNCHANGED <<geo, imageHal, link, callback, gather, task, result, imageHistory>>

StartTask ==
  /\ task.at = "none" /\ queued # 0
  /\ task' = [NoTask EXCEPT !.at = "next", !.id = queued]
  /\ queued' = 0
  /\ UNCHANGED <<geo, imageHal, link, callback, screen, opened, gather, result,
                 imageHistory>>

\* A task that was cancelled before it began does not begin.
LeaveTest ==
  /\ screen = "test"
  /\ screen' = "home"
  /\ task' = [task EXCEPT !.cancelled = TRUE]
  /\ queued' = 0
  /\ Demand("finish", NoFile, opened)
  /\ UNCHANGED <<geo, imageHal, wire, linked, inbox, opened, gather, result, touches,
                 given, mixed, cut, dropped>>

Left == {k \in (task.file + 1)..Samples : files[k] # NoFile}

\* Fault: the answer to the last image still stands.
Forget_Never == UNCHANGED result

\* testSendImage: what was answered before is forgotten.
Forget == result' = NoResult

NextImage ==
  /\ task.at = "next" /\ ~task.cancelled /\ Left # {}
  /\ task' = [task EXCEPT !.at = "wait", !.file = Min(Left), !.n = asked + 1]
  /\ dropped' = FALSE
  /\ Forget
  /\ Demand("send", files[Min(Left)], task.id)
  /\ UNCHANGED <<geo, imageHal, wire, linked, inbox, screen, opened, gather, queued,
                 touches, given, mixed, cut>>

\* testSendImageNextFinger
NextFinger ==
  /\ task.at = "next" /\ ~task.cancelled /\ Left = {}
  /\ task' = [task EXCEPT !.at = "clear", !.n = asked + 1]
  /\ dropped' = FALSE
  /\ Demand("clear", NoFile, task.id)
  /\ UNCHANGED <<geo, imageHal, wire, linked, inbox, screen, opened, gather, queued,
                 result, touches, given, mixed, cut>>

\* TestImage, with whatever answer woke it; at the end of the enrolment the
\* other images of the finger are not sent.
TakeResult ==
  /\ task.at = "wait" /\ result # NoResult
  /\ mixed' = (mixed \/ (result.kind = "error" /\ result.n # task.n))
  /\ task' = [task EXCEPT !.at = "next",
                          !.file = IF result.kind = "result" /\ result.done
                                     THEN Samples ELSE @]
  /\ UNCHANGED <<geo, imageHal, link, callback, screen, opened, gather, queued, result,
                 touches, asked, given, cut, dropped>>

TaskEnd ==
  /\ task.at = "next" /\ task.cancelled
  /\ task' = [task EXCEPT !.at = "none"]
  /\ UNCHANGED <<geo, imageHal, link, callback, screen, opened, gather, queued, result,
                 imageHistory>>

\* Fault: an error wakes nobody.
Callback_Deaf(m) ==
  /\ result' = IF m.kind = "result" THEN m ELSE result
  /\ task' = IF m.kind = "next" /\ task.at = "clear"
               THEN [task EXCEPT !.at = "none"] ELSE task

\* AsyncCommand's callback: an error is an answer to an image, and to nothing
\* else; images are not for this activity.
Callback(m) ==
  /\ result' = IF m.kind \in {"error", "result"} THEN m ELSE result
  /\ task' = IF m.kind = "next" /\ task.at = "clear"
               THEN [task EXCEPT !.at = "none"] ELSE task

\* MyHandler: the callback is the one of the last command.
Handle ==
  /\ inbox # <<>>
  /\ inbox' = Tail(inbox)
  /\ \/ callback = 0 /\ UpdateData(Head(inbox)) /\ UNCHANGED <<result, task>>
     \/ callback # 0 /\ callback = task.id /\ Callback(Head(inbox)) /\ UNCHANGED gather
     \/ callback # 0 /\ callback # task.id /\ UNCHANGED <<gather, result, task>>
  /\ UNCHANGED <<geo, imageHal, wire, linked, client, out, callback, screen, opened,
                 queued, imageHistory>>
-----------------------------------------------------------------------------
ImageInit ==
  /\ geo \in Geometries
  /\ dims = NoDims /\ buffer = <<>> /\ rspLen = 0
  /\ worker = "idle" /\ slot = Packet("finish", 0, NoFile) /\ requested = FALSE
  /\ wire = <<>> /\ linked = TRUE /\ client = FALSE /\ out = <<>> /\ inbox = <<>>
  /\ callback = 0 /\ screen = "home" /\ opened = 0
  /\ enrolled = 0 /\ tplCount = -1 /\ mine = TRUE
  /\ files = [k \in 1..Samples |-> Earlier(geo)]
  /\ task = NoTask /\ queued = 0 /\ result = NoResult
  /\ touches = 0 /\ asked = 0
  /\ given = [px |-> <<>>, orig |-> 1, shot |-> 0]
  /\ mixed = FALSE /\ cut = FALSE /\ dropped = FALSE

ImageWorker ==
  \/ Take \/ Skip \/ CaptureBegin \/ Processed \/ NoShot \/ CaptureEnd
  \/ SendImage \/ FinishImages \/ Answered \/ Settle
Service == Send \/ Receive \/ Reconnect
Task == StartTask \/ NextImage \/ NextFinger \/ TakeResult \/ TaskEnd
User == OpenGather \/ LeaveGather \/ Again \/ OpenTest \/ LeaveTest

ImageNext == ImageWorker \/ Original \/ Service \/ Handle \/ Task \/ User

\* The threads go on (each step changes the variable it is named with); nothing
\* is assumed of touches and of the user.
ImageSpec ==
  /\ ImageInit /\ [][ImageNext]_imageVars
  /\ WF_worker(ImageWorker) /\ WF_out(Send) /\ WF_wire(Receive) /\ WF_linked(Reconnect)
  /\ WF_inbox(Handle) /\ WF_task(Task)
-----------------------------------------------------------------------------
\* The image in a file, and the one the TA is given later, is the one the
\* sensor saw at that touch, pixel by pixel: through the answer's bitmap, the
\* file and the command back.  (An original whose capture failed is saved as
\* well, since its answer has no error: silead_test.c:462.)
ImagesKept ==
  /\ \A k \in 1..Samples : LET f == files[k] IN
       f # NoFile /\ f.orig = 0 =>
         BmpData(f.img) = Shot(f.shot, 0, f.img.w * f.img.h)
  /\ given.orig = 0 => given.px = Shot(given.shot, 0, Len(given.px))

\* The result that is counted for an image is the result of that image.  The
\* answer does not say so: it holds because the next image is sent when the
\* last is answered, and until an error notice of an earlier command, or a
\* lost connection, puts the two out of step.
ResultIsOwn ==
  [][task.at = "wait" /\ task'.at = "next" /\ result.kind = "result" =>
       result.n = task.n \/ mixed \/ cut]_imageVars

\* A test goes on: the answer it waits for comes, also after the user left,
\* unless the command was replaced, or lost under the state that the worker
\* stores behind its last answer; an earlier command, refused late, has ended
\* the telling; another activity has spoken since; or the connection was lost.
\* In each of these cases it may wait for ever.
TestGoesOn ==
  []<>(task.at \in {"next", "none"} \/ dropped \/ callback # task.id \/ cut)
=============================================================================
