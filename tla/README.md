# Verification of the Silead fingerprint HAL

TLA+ models of the fingerprint HAL in `src/fingerprint`, and of the test applications
in `src/silead_apps` where they decide what it is asked, the TLC runs that
check them and the TLAPS proofs about them. The build that is modelled is that
of `src/fingerprint/Android.mk`: `SL_FP_FEATURE_OPPO_CUSTOMIZE` and
`SL_FP_FEATURE_OPPO_CUSTOMIZE_OPTIC` are on; `SIL_DUMP_IMAGE`
(set for test TAs only, line 78) is off. Some
lines of that build do not compile as they are (`enroll` is undeclared in
`_silfp_finger_capture_image`, an `fclose(fpWrite)` without `fpWrite`); the
reading that is obviously meant is modelled.

    tlc -config FingerWorker_requests.cfg MCFingerWorker.tla
    tlapm TemplateStorage_proofs.tla

## The system

| component | state it keeps | operations | who calls it |
|---|---|---|---|
| worker and HAL calls (`silead_finger.c`) | `m_worker_state`, `m_work_cancel`, `m_enroll_pause`, `m_auth_op_id`, `m_lock`, `m_worker_cond` | enroll, authenticate, cancel, pause, remove, set_active_group, deinit | the framework (binder threads), the hub, netlink |
| navigation (`silead_finger_nav.c`) | `m_nav_type` | runs while nothing else is asked | the worker |
| cancel pipe (`silead_msg.c`) | the bytes in a pipe | send, clean, receive | cancel, netlink; the worker waits on it |
| finger operations (`silead_impl.c`) | `m_finger_down`, `m_need_finger_loop`, update bits, the device's features | wait for a finger, capture, enroll and match sequences, load a group, calibrate | the worker and, for groups, the caller |
| sensor device (`silead_dev.c`) | the program on the chip, the wait that a cancel interrupts | reset, power down, wait for an interrupt | finger operations |
| template storage (`silead_storage.c`) | `tpls`, `lastId`, `sto_lock`, the index and one file per template | save, update, load, remove, allocate an id, fail counts | finger operations |
| calibration (`silead_impl.c`, `silead_storage.c`) | one file for each of five steps, the TA's copies | load, measure, save, remove | the worker, the opening thread |
| configuration (`silead_xml.cpp`, `silead_config.c`) | the parameter files, the TA's tables | choose a document, read it, pack and unpack it | the opening thread; the TA |
| TA link (`silead_fp.c`, `silead_ca_entry.c`, `qsee/`, `tee/`, `gp/`, `nosec/`) | error counter, session, a buffer shared with the TA, qsee's listener thread | open a chain of backends, send a command, close | finger operations |
| test and extension commands (`silead_fingerext.c`, `silead_test.c`, `silead_ext_cb.c`) | the command's block, the SPI test's verdict, image and answer buffers | store, start, stop, run | the hub, the HAL and the worker |
| images (`silead_bmp.c`) | none | image to bitmap and back | test commands |
| extension hub (`silead_fingerext_hub.c`, `_event.c`) | sockets, event list | accept, read, respond, stop | Android test applications |
| test applications (`silead_apps`) | the service's connection and client, files of images, a task that tests them | gather, test one by one | the user |
| netlink (`silead_netlink.c`) | screen and touch callbacks | relay events | the kernel driver |
| trusted application (`qsee5.0`) | templates that can be matched, configuration | enroll, match | the TA link |
| HAL wrapper (`fingerprintHal`), statistics, log | | | |

How they interact. One worker thread (`_finger_commandloop`) does everything
that takes time. Client threads only replace the request it works on: under
`m_lock` they raise `m_work_cancel`, write a byte into the message pipe, store
the new `m_worker_state` and signal `m_worker_cond`. The worker reads
`m_work_cancel` without the lock, sleeps on the pipe while it waits for a finger
and on the condition when there is nothing to do. At the end of an enrolment
or a match the worker writes into the template store, under `sto_lock`; callers
change the group and remove fingers in the same store under `m_lock`, which the
worker does not hold then. Notices go back to the framework through a callback,
sometimes with `m_lock` held.

What is hard here: the hand-over of requests through a flag, a pipe, a state and
a condition that are not one atomic thing; a store in two kinds of files, in
memory and in the TA, that change one after the other and may each fail; a mutex
that is initialised again while it may be held; commands that end while others
begin; error paths that take locks the caller holds. The full list is under
`hazards` in `PROJECT.json`, each at its line and with the properties aimed at
it.

What makes the components correct:

* worker: serves the request that stands, never sleeps in its loop while one waits, answers
  each at most once, ends on a cancel, takes every request up (but for the races that
  the properties name), builds a token for the operation that was matched;
* storage: an id names one template, an acknowledged finger survives failures,
  reloads and crashes, a removed one stays gone, the TA matches what is stored,
  groups are kept apart, what is reported removed is (two of these
  the code does not keep: groups in the run `race`, and reports in the removal of all fingers);
* hub: one application is served at a time and the next one is heard, no command is
  left unread, the loop never sleeps through something, answers are not mixed, a
  stop ends;
* TA link: what a caller sends arrives and what it gets is its own, an error never
  blocks the caller, what is opened is given back once;
* sensor: nothing captures without a program on the chip, a configuration the TA
  learned is saved, waits end;
* configuration and calibration: the TA works with what the files say, adaptations
  belong to the bases they were made with, a base is never lost;
* test commands: the worker reads within the block, a request is run once, a passed
  self-test is one that passed, images stay what the sensor saw and a result is
  counted for its own image.

## Modules

| module | what it is |
|---|---|
| `Mailbox` | abstract: one request stands, the worker serves it or nothing |
| `FingerWorker` | the worker thread, its commands, the pipe and the client calls, interleaved at every access that is made without `m_lock`; implements `Mailbox` |
| `FingerWorker_proofs` | theorems about it for any number of callers, calls, retries and pipe sizes |
| `TemplateStorage` | the store, the worker's and the caller's use of it, the TA's list, crashes and failing calls |
| `TemplateStorage_proofs` | theorems about it for any number of groups, slots, ids and templates |
| `ExtHub` | the socket server of the test applications, its event loop, the thread that starts and stops it, the writers of answers and the applications |
| `ExtHub_proofs` | theorems about it for any number of connections, numbers, commands and starts |
| `TeeSend` | threads that send commands to the TA at the same time through one backend |
| `TeeSend_proofs` | theorems about it for any number of threads, any backend and limit of errors |
| `TeeSession` | opening, using and closing a chain of backends, with qsee's listener |
| `TeeSession_proofs` | theorems about it for any lists of backends and number of openings |
| `Sensor` | opening the device and every operation of the worker on it, as a script of commands and waits |
| `Sensor_proofs` | theorems about it for any builds, features and number of retries |
| `Config` | the configuration update from the parameter files to the TA's tables; a component of `Calibration` |
| `Calibration` | the five calibration steps, their files and the TA, composed with `Config` |
| `Calibration_proofs` | theorems about the calibration steps for any lengths of data, numbers of measurements and sessions, and about the configuration for any devices, fields, tables and documents |
| `TestCmd` | how test and extension commands get from the hub and the HAL to the worker |
| `TestImage` | images from the sensor through the worker, the service and the applications, and back |
| `TestCmd_proofs` | theorems about `TestCmd` for any number of callers and packets, and about `TestImage` for images of any size and any bounds |
| `MC...` | model values, symmetry and the finite instances for TLC |

They divide the program along what is shared. `FingerWorker` treats the
store as part of the TA's answer, `TemplateStorage` takes from the worker only
that it enrols and matches one finger at a time and that a request needs
`m_lock`, which a caller of remove or set_active_group holds. That second fact
is the variable `late`: while a caller is inside its operation the worker can
end at most one enrolment and one authentication, those asked for before.
`Sensor` has what the worker does to the chip within one command, and
`FingerWorker` when it does it; `TeeSend` has one command to the TA, and all
others take its answer as a choice. `TestCmd` starts where `ExtHub` has read a
command, and `TestImage` where `TestCmd` has chosen it. `Calibration` extends
`Config` because both hand data to the same TA at its start, and a restart of
the one is a restart of the other. `TestCmd` and `TestImage` are two views of one
program and share no variable; their names are apart (`ImageSpec`, `imageVars`,
`worker` beside `Spec`, `vars`, `pc`), so that one module extends both for the proofs.

### Mailbox

The hand-over as a client may think of it. `FingerWorker` implements it under
`request <- workerState, serving <- Serving`, where `Serving` is the worker's
command as long as no cancel is raised and it has not given up (`HandsOver`). The flag,
the pipe, the lock, the condition and the reads without a lock disappear. What
remains of them is `GiveUp`: a worker that ends a command stores IDLE, and with that
withdraws a request that was stored since it took its own up.

### FingerWorker

A section between lock and unlock is one step; each access to shared data
without the lock is a step of its own. `pc` is where the worker stands, with a
prefix for the function: `e_` is `_finger_enroll_command`, `a_`
`_finger_auth_command`, `l_` the lock test, `n_` navigation, `t_` the test
commands, `x_` the SPI command. The wait for a finger
(`_fp_wait_finger_status`, `silfp_dev_wait_finger_status`, `silfp_msg_recv`) is
used by all of them, so its steps return to the position in `wait`. The polled
variant (`m_need_finger_loop`) and the powered-down one (`m_need_irq_pwdn`) are
constants. Answers of the TA and the sensor are nondeterministic. `callerPc`
is where each client stands: authenticate, pause and continue change shared
data before they take the lock, the other calls are one section. The token of a match
is built with the operation id that stands when the notice is sent, which may be that
of a later authenticate; no property claims otherwise. History:
`authCalls`, `enrollCalls`, `wins`, `announced`, `lastAuth` and the like count
and record what was asked and answered; no guard reads them.

A paused enrolment sleeps on the condition of the command loop (`paused`). It looks at
`m_enroll_pause` without the lock (line 790) and sleeps at 793 without looking again, so
the signal that ends the pause, of a continue, a cancel, a request or an exit, can
come in between: the worker then sleeps until another call signals. `PauseMissed` is that
state, a worker that sleeps there unsignalled with a cancel raised and no call on its way.
`CancelReachesIdle` and `RequestStarts` exempt it and nothing else of the
pause. Without the exemption both fail after three calls: enroll, pause, and a cancel,
an authenticate or a deinit, which then hangs in `pthread_join`. `CancelSwitchesToIdle`, the
promise itself, is `CancelReachesIdle` without it. `NoLostWakeup` is about the
command loop's sleep only.

`silfp_finger_set_work_state` keeps EXIT and BREAK; `..._no_signal` does not.
`m_work_cancel` is raised by every new request and lowered by the worker when it
takes one up.

Things the documentation says that the code leaves out and that are visible in
the model only by their absence: no `FINGERPRINT_ERROR_CANCELED` is sent
(`m_need_send_cancel_notice` is 0, `silead_finger.c:653-657`), `timeout_sec` of
enroll is not used, `set_notify` does not wait for a running notice
(`fingerprint_oppo.h:194-197`), remove returns success whatever happened
(`silead_finger.c:272`).

### TemplateStorage

Steps end where a file changes or `sto_lock` is released. A template's contents
are a number that doubles as its checksum, so "the file is that of the index" is
an equation. Both kinds of files are replaced by a rename, so a crash leaves the
old or the new version, and `Crash` may come between any two steps: memory and
the TA's list are lost, the files stay. `index[g]` and `file[g][id]` are the
files, `tpls`, `lastId` and `opened` the memory, `ta` the ids the TA can match.
The worker's operation is `wpc` and its locals, the caller's `cpc` and its
locals. `tpls.num` is left out, since nothing reads it. `acked` holds the
fingers that were reported enrolled and not given up since (by a removal, by a
fail count that drops a damaged template, or by an eviction of one that failed
to load; a crash between the two files of an update gives up the one that is updated),
`gone` those that were reported removed and not enrolled again, and `misreported` those
of them that are still there because the removal of all fingers reports a finger
whatever its removal came to (`silead_finger.c:243-247`).

`Faults` names what may go wrong. `crash`, `read` (a template file cannot be
read), `write`, `index` (the index is not replaced in save or remove), `ta_enroll`
and `ta_load` are in the passing run. Four more are in the model and break a
property, and are listed as hazards instead of being hidden: `rename` (its result
is overwritten), `update_index` (only logged), `unlink` (together with `index`),
`ta_remove`. Not modelled: the group's directory cannot be made, and the TA
command before the list is loaded fails.

`GroupIdle` is an assumption about the client: it does not change the group while
the worker stores a template. The framework changes the user only when it has
cancelled what runs, but the HAL does not wait for it; the run `race` shows what
happens without the assumption. A removal of all fingers that meets one it
cannot remove goes on and reports all of them removed: with the fault `index` such a finger
stays in the index and the TA matches it, against what `fingerprint_oppo.h:279-283` says of
the notice. This happens in the run `store`; `RemovedStayGone` exempts what is in `misreported`
and fails without the exemption.

### ExtHub

Three kinds of threads: `apc` is where the thread that opens and closes the HAL
stands, `dpc` the event loop's own thread (`init`, `copy`, `select`, `fire`, the
callback it is in), `writer[w]` an answer that the worker or the loop is writing.
`watch` is `m_watch_table`, `copied` the set of descriptors that a turn of
`silfp_ext_event_loop` copied without the lock, `pending` its pending list. The
listening event is watched once and added again by every way a connection ends.
A descriptor of a connection is a number: `fds` says which connection it stands
for, so a number that is closed and reused is a change of `fds` that a writer
holding the number does not see. `stream` is what the record stream has buffered
of commands, `sock` what it has not read. `woken` is a byte in the wakeup pipe,
`pipe` whether there is one. An application connects (and waits in the backlog),
sends commands and ends at any time (`peer`). Whether a connection comes from the
user "system", and whether a command is accepted or answered with an error, is
nondeterministic. A write to a connection that has ended is taken to return an
error, so the process is assumed to ignore SIGPIPE.

What a command does to the worker is in `FingerWorker` (its call of a test);
here the worker only answers, at any time and to whatever `m_command_fd` is. The
worker is taken to have ended before the hub is stopped, as
`silfp_finger_deinit` does it.

A stop that comes before the loop's thread has made its pipe wakes nobody and then
joins a thread that never ends: `start` signals too early (`silead_fingerext_hub.c:118`).
The constant `EarlyStop` admits this; the run and the theorem `SleepInformed` take it as FALSE.

When a writer meets an error it closes the number and leaves `m_command_fd`. If
that comes between the loop's copy and its `select`, the loop ends for good and
who waits is refused. This is in the model (`EnterSelect`), and the properties
allow it, because nothing in the repository promises otherwise. Not modelled:
failures of `pipe`, `fcntl` and `pthread_create`, an interrupted `select`, and
numbers that other files of the process get.

### TeeSend

Each thread's `call` runs through the wrapper in `silead_fp.c`, the lock of the shared
buffer (`tzLock`, in qsee and tee), the backend and the error counter, one step for each
access to what is shared. Commands are told apart by their mode: four numbers
("normal"), or a buffer that is sent, fetched, both, fetched even after an error, or
zeroed and fetched (mode 4, which only qsee implements as sent). A caller's bytes are its
input, zeroes, its own answer or another's. `errs` is `m_ta_send_error_times`, read and
written back in two steps. A caller that has `m_lock` and meets the last of `ErrLimit`
errors waits for itself (`SelfBlocked`), and then everybody: this is what the code does
(`silead_ca_entry.c:47`), and `CallsEnd` exempts just that. In the tee backend a wait for
the TA that fails (`TEEComFunc.c:462-472`) is taken for a TA that is done with the buffer;
an answer it writes late, into the next command's buffer, is not modelled.

### TeeSession

`chain` is the build's list of backends; `pc`, `at` and `step` say which step of which
backend the opening is at, `held` what was got and not given back, `bad` what was given
back when it was not held. Each step may fail. The listener (`lst`) registers, is told
(`ready`) to be up, receives, opens and reads the SPI device for the TA, and leaves.
Observed and exempted: after all backends failed a close still closes the last one;
gp keeps its context when its session cannot be opened; `m_exit` is set when a listener
is stopped and never cleared, so that of a second session leaves at once; when the
listener's thread cannot be created, the opener waits for it for good, since the error
is positive and the test is for negative ones. Left out: the response area of qsee that
is computed without its offset, which the rounding to pages hides, and a missing check
of one `malloc`.

### Sensor

Each operation of the worker is a script: the commands of a round, the wait that ends
it, and whether it repeats. `chip` is what the chip has: nothing after a reset or a
power-down, and a program after a download, even one that failed, since every caller
ignores its result. The wait by interrupt (`begin`, `detect`, `check`, `block`, `after`)
and by polling (`pollbegin`, `poll`) are the ones `FingerWorker` uses, here with what they
do to the chip. `bits` is `m_config_update` and `changed` whether the TA's configuration
differs from the saved one. Observed: the retry of an invalid interrupt is a `continue`
that ends the loop; with `m_need_irq_pwdn` the ESD retries are not counted; light
navigation there captures without a program and is exempted from `ChipReady`; the second
attempt of `sl_fp_init` gives the TA an empty device description (`conf = "empty"`).
`irqpwdn` is assumed to come with `reinit` (the module's `ASSUME`): otherwise nothing
loads the chip again after the wait.

### Config and Calibration

A document is a pair of parameter files. `Config` has the choice of one for the device
(`CheckDevVer`, with the id that is carried over between entries), the reading of
sections, register nodes and lists, the packing into one buffer and the TA's unpacking
into tables that are built in or on the heap. Each allocation may fail on either side.
Numbers keep their widths. The TA's copy of the file has an older layout of the
structure than the HAL's; the same layout is assumed on both sides.

Both sides put lists into tables in the same way, by the same function of the code,
so there is one operator for it: `PutAll` puts one list after the other, each in its
`Block` (who allocated it, for which table, and the node it was read from), and
passes over a list that is empty or whose block is among those that fail. The lists
are those of the parameters (`ParamLists`), of the register nodes (`RegisterLists`,
where a name nobody knows gives an empty one) and, in the TA, those cut out of the buffer
by the lengths in its head (`SentLists`). The loops are recursive functions of the
number of rounds done. `heap` is what is allocated: a list that is put
frees the block that its table had. `TakesDocument` says by itself, without these
loops, what the document names (`NamedValue`, `NamedList`: of the nodes of one table the last
that could be allocated counts). `ConfigOK` says of the constants what the tables in the
code say; `DocumentsOK` that documents are well-formed, with any contents.

`Calibration` has the five steps of `_sl_fp_calibrate_step`: `disk[k]` and `ta[k]` say with
which bases a result was made (`of`) and how long it is. A save writes a file aside and
renames it; it, a removal and a load may fail, and the process may end between any two
steps. `spoilt` remembers that a removal of the adaptations failed or was cut short,
since the code ignores it.

### TestCmd

`data` is `m_test_cmd_data`: the command's id, the block's size (`cap`) and the length that
is read (`len`). The hub stores a command in one section and requests it in another;
the worker reads its id, its arguments and the request in further ones. The HAL's calls
(SPI self-test, calibrate, factory and quality tests) leave theirs in two words without a
lock. `credit` counts requests not yet run, `owed` is the newest. Observed: a
command that is stored and not yet requested may run in place of the one before and
then again; the calls of the HAL write IDLE without looking; two self-tests share one
verdict. Finger-down packets are passed on at once, a wait with a timeout may end at any
time, and the HAL's caller is one thread that closes only after its other calls.

### TestImage

An image is a sequence of pixels whose values name the touch, so two images never look
alike. The worker has it in one buffer as the TA gives it and, in its answer, as a bitmap
with padded rows from the bottom up. The answer's buffer keeps what the last answer left.
The service has a sender, a receiver whose buffer is `MaxFrame` long and a client
(`Send`, `Receive`, `ResponseErr`); the
applications gather files and run a task that sends one image, waits for the first answer
and sends the next. `mixed` and `cut` remember that an error of an earlier command was
taken for a result, and that a connection was lost because an answer did not fit. The
files start as those of an earlier gathering.

The worker answers a command (`SendImage`, `FinishImages`) before it looks whether it was
cancelled (`Answered`) and stores WAIT or IDLE (`Settle`), and the application sends
its next command on that answer: `Settle` may overwrite its request, and then nobody answers it.
`dropped` remembers this, and every other way in which the command the task waits for is
not run or its answer not told: replaced or refused before the service
sends it, or answered to a client that is no longer registered. `queued` is the activity whose
task the system holds back until the one before it ends (`OpenTest`, `StartTask`); behind a task
that waits for ever it never begins.

`ImageConstants` asks of the geometry only that an image
and the TA's buffer are not empty; in particular the buffer may be smaller than an image.

## Runs

| run | asks | bounds | states, result |
|---|---|---|---|
| `requests` | does the worker serve what is asked, once, awake, and as `Mailbox` says? | 2 callers, 3 calls of enroll, authenticate, cancel, the lock and extension tests, screen and deinit; a pipe of 2 | 3.5 M, holds |
| `touched` | does a cancel bring it to rest, is each request taken up, while fingers come and go? | 1 caller, 3 of every call but the extension test; navigation, a polled sensor that is powered down | 1.5 M, holds |
| `lost_cancel` | does a cancel bring it to idle with nobody touching? | 1 caller, 2 calls | violated |
| `store` | are the store, the files and the TA consistent under failures and crashes? | 1 group, 2 slots, ids 1..3, 4 templates, fail limit 2 | 3.4 M, holds |
| `race` | are groups kept apart? | 2 groups, the group may change at any time | violated |
| `hub` | is one application served at a time, everything heard, answered in whole frames, and is a stop obeyed? | 2 connections, 2 commands, 1 answer of the worker, 1 number, 2 starts | holds |
| `send` | does every caller get its own answer, and does each call end? | 2 threads, 4 backends, a command of each kind, 3 errors | 0.5 M, holds |
| `session` | is everything opened given back once, and is the TA's listener there? | both builds' chains, 3 sessions, each step may fail | 0.6 M, holds |
| `sensor` | is the chip always loaded before it captures, does every wait end? | both builds, 5 sets of features, light and normal navigation, 2 retries, 2 sessions | 0.8 M, holds |
| `calibration` | does the TA work with what the files say, and do they fit each other? | an optical and a plain device, seven documents in two directories, 2 measurements, 2 sessions | 2.3 M, holds |
| `testcmd` | does the worker read within the block, run what was requested, and pass only a test that passed? | 1 caller, 2 calls, 7 packets, 2 requests | 0.8 M, holds |
| `images` | are images what the sensor saw, results those of their images, and does a test go on? | 2 images in files of an earlier gathering, 2 geometries, 1 touch, 1 answer and 1 message waiting, 2 activities | 2.3 M, holds |

Why these bounds are enough to be interesting. Two callers and three calls give
a request that replaces one that replaced another while the worker is in any
position; they are also what the pause needs, an enrolment, its pause, and what ends it. A pipe of two bytes is full after two cancels. Two samples make an enrolment
loop, one retry reaches both ends of a wait. In the store, two slots are
full after two enrolments, so the third evicts; three ids for four templates make
the ids wrap onto ones in use; a fail limit of two makes a template fail, be kept,
and be dropped. In the hub, two connections make one wait while the other is
served, and with one number the second always gets the number of the first, so a
writer that holds the old one meets the new connection; two commands arrive
with one readiness; the second start meets what the first one left. Two threads are
all the code has that send at once for long; three errors let increments and resets
of the counter be lost between them. Three sessions let the listener of one
meet what another left, and a second of a failed first. A second session of the
device meets what the first saved. The documents of `calibration` have
between them an id that is carried over, a short mask, registers that are refused, a
list named twice and an unknown one, values wider than their field, and parameters
longer than announced; the one in the second directory is only read when the first has
none. The packets of `testcmd` have lengths below, at and above each other and a
missing buffer. One geometry of `images` has padded rows; an image of the other is longer
than a frame, as an answer, which ends the connection, and as a command, which is
refused. Two activities make a task that
waits behind another, or one that gathers and one that tests.
`touched` has no extension test: with the chip powered down ESD retries are not counted
(hazard at `silead_impl.c:321`), and the wait for the lift after that test,
which no cancel ends, keeps a cancel waiting as long as they go on.

Deadlock is not checked where the program or the instance may stop: the bounds on calls,
templates, sessions and images end every behaviour of `FingerWorker`,
`TemplateStorage`, `ExtHub`, `Sensor`, `Calibration`, `TestCmd` and `TestImage`;
`TeeSend` stops when a caller blocks itself, `TeeSession` when an opener waits for a
thread that was not created.

Fairness. The worker is a thread that runs whenever it can (`WF(Awake /\ Worker)`,
which excludes only wakeups nobody signalled), and a client finishes the call it is
in. Nothing is assumed of clients otherwise. `touched` adds that fingers
come and go, which is the environment's part and not the code's: it lets a blocked wait end
without a cancel. `lost_cancel` does without it.
`Sensor` has the same assumption, and a strong one that a finger that is polled is seen
at last, which also means that the TA does not fail a poll for ever.
In `ExtHub` the loop's thread, the writers and a start or stop that has begun go on;
that applications connect, send or end, and that the hub is stopped at all, is not
assumed. `m_write_mutex` needs no strong fairness: its two writers write finitely often.
In `TeeSend` every thread's step is strongly fair: a lock that is free again and again
is got at last, and the TA answers or fails. In `TeeSession` the opener and the
listener are weakly fair, and the TA ends its command at last however often it asks
the listener first (strong). In `TestCmd` the worker, the hub, a caller within its call
and a touch that is waited for go on. In `TestImage` the worker, the service's threads, the
application's handler and its task do; the user does as he likes.

Two requests are exempted from `RequestStarts` and `NewestServed` wherever the code
drops them: one that is replaced by another, and one over which the command that
ends stores IDLE (`silead_finger.c:1028`; for an EXIT too). The second is a race of the
program; in `HandsOver` it is the step `GiveUp`. `RequestStarts` and `CancelReachesIdle` exempt
the missed end of a pause as well, and `TestGoesOn` the command that is written over by
the state behind an answer (`silead_fingerext.c:512`) and the others in `dropped`, a
task whose activity is no longer the one that is told, and a lost connection. These properties say that
nothing is lost in any other way.

The violated runs each show one behaviour that contradicts a sentence of
`fingerprintHal/fingerprint_oppo.h`; the sentences are quoted under `findings` in
`PROJECT.json`. Other behaviours a reader may not expect contradict no sentence: they are
exemptions in the properties' comments, and hazards with a note.

Every property of a passing run has a mutant in `PROJECT.json`: an operator
defined beside the original (`SetWorkState_NoSignal`, `Read_Keeps`, `Reinit_Forgotten`,
...) that changes the code's definition as a plausible slip would, and with which
the property fails.

## Proofs

`FingerWorker_proofs`, for all values of the constants:

* `TypeCorrect` (`TypeOK`). Besides types it says which positions go with which
  command, which later proofs split on.
* `ServesCurrent` (`ServesCurrentRequest`): a command that sees no cancel and has
  not given up works on the request that stands.
* `WakeupsKept` (`NoLostWakeup`): the worker does not sleep in the command loop
  while something is asked of it and no signal is on its way. The sleep of a paused enrolment is
  another, and there it may.
* `AnsweredOnce` (`SuccessOncePerRequest`) and `Unanswered` (`RequestsUnanswered`):
  no more matches or enrolments are reported than were asked for.
* `HandOverImplemented` (`HandsOver`): the module implements `Mailbox`. A step of the
  worker that carries its command on leaves `serving` alone or lets it fall to "NONE",
  which is `GiveUp`; `Dispatch` is `Take`, and what a client stores is `Ask`. That
  the abstract worker serves only what stands is `ServesCurrentRequest`.

The inductive invariant `IInv` is the conjunction of these and `TypeOK`.
`SuccessOncePerRequest` is not inductive alone: `RequestsUnanswered` says that a
request that stands or is being served still has its answer open, and that in turn
needs `ServesCurrentRequest`, because the worker that answers a match must be
serving the request that is counted. The steps of the worker fall into a few
kinds (`Carries` and the definitions after it: the step leaves the request alone,
ends a command, takes a request up, answers one), each with one lemma that it keeps
`IInv`; the per-action lemmas only say of which kind the action is.

`TypeCorrect` and `Unanswered` are facts the others rest on and no property of a run:
TLC checks what they are for.

`TemplateStorage_proofs`, for all constants with more ids than slots:

* `TypeCorrect` (`TypeOK`, which includes that no index, in memory or on disk, names
  an id twice) and `FidStaysFresh` (`FreshFid`), under the assumption `GroupIdle`.
  Freedom of an id is decided in one section of `sto_lock` and used in another.
  The inductive invariant `IInv` adds `Steady`: while the worker is between the two,
  no caller is inside opening or reloading the store, so indexes only lose ids; the
  id that was chosen stays free. The pigeonhole step, that an id is free whenever
  there are more ids than slots, is the lemma `FreeId`.

  These two hold for every set of `Faults`, the excluded ones too.
* `RemovedFingersStayGone` (`RemovedStayGone`), `TaFollowsStore` (`TaHoldsStored`) and
  `AckedFingersSurvive` (`AckedSurvive`), under `GroupIdle` and `Reliable`: none of the
  faults `rename`, `update_index`, `unlink` and `ta_remove`, each of which the code does
  not survive (see the hazards). `RemovedStayGone` is about every finger reported removed,
  alone or in a removal of all, except those that a removal of all reported although their own
  removal failed. Crashes and the other faults stay. The three need each
  other, and together the invariant `Kept`. Its parts follow a template through the steps
  of a save (`PlacingOK`), of a load (`GoodOK`) and of a removal (`LeavingOK`); `PendingOK`
  says that what the caller still has to load or remove is never what the worker is
  enrolling; `GoneOK` and `DroppedOK` say why a name that is left on disk does no
  harm: its checksum no longer fits, or memory still has it; `AckedOK` is
  `AckedSurvive` with memory added.

`ExtHub_proofs`, for all values of the constants:

* `TypeCorrect` (`TypeOK`) and `SessionsApart` (`OneSession`). The strengthening
  `SessionOK` follows the session through the four places it can be: the watched
  socket, the event that is about to fire, the callback that accepts, the watched
  connection. `SessionKept` says that it is in one of them.
* `SleepInformed` (`SleepsInformed`), under the assumption `~EarlyStop`: a stop that
  comes before the loop has made its pipe breaks it. `Informed` extends the claim back from the sleep
  to the copy of the set, and to the moment the pipe is made.
* `FramesKept` (`FramesTogether`). A frame that was begun on an open connection is
  still being written there (`Begun`), and a writer in the middle of a frame finds
  under its number nothing, an ended connection, a new one, or the one where it left
  its last part (`Amid`). The second needs that a connection is new until it is
  accepted (`NewOK`) and never has two numbers (`NumbersOK`).

Each lemma of an invariant's part begins with the list of actions that touch its
variables; all others leave it alone.

`TeeSend_proofs`, for any threads other than the mark of a free lock:

* `TypeCorrect` (`TypeOK`), `AnswersOwn` (`AnswerIsOwn`), `InputsReach` (`InputReaches`) and
  `BreaksNeedErrors` (`BreakNeedsErrors`). Who sends or reads holds the lock (`LockHeld`),
  so the buffer holds its own request and then its own answer (`BufferOwn`); what a call
  has come to follows from these at each position (`ResultOK`, `InputOK`). The counter has
  no lock: increments and resets are lost, but neither the counter nor a value about to
  be written back exceeds the errors that happened (`ErrorsCounted`).

`TeeSession_proofs`, for any lists of the four backends and any number of openings:

* `TypeCorrect` (`TypeOK`) and `NothingLeftOpen` (`OneSession`). `HeldOK` says what may be
  held at each position, by what each backend gets (`Got`); the lemma `AtRest` that closing
  gives all of it back. `LentOK` ties what the TA was lent to the features and
  to tables that are alive.
* `NoDoubleRelease` (`ReleasedOnce`): as long as nothing failed, what a close gives
  back is held (`UsedOK`).
* `ListenerIsThere` (`ListenerServes`): `ThreadOK` says that a listener lives only while
  its thread is held and has answered once it is past its start, `FreshOK` that in the first
  session nobody has told it to leave.

`Sensor_proofs`, for any builds, sets of features (`irqpwdn` with `reinit`) and bounds:

* `TypeCorrect` (`TypeOK`), `ChipStaysReady` (`ChipReady`) and `ChangesRemembered`
  (`ConfigNotForgotten`). The argument is about lists of commands, which are of any
  length here: in a list that is `Fed` a command that needs the program comes after one that loads
  it, in one that is `UpsLast` none follows a wait for the lift, and so on. The lemmas say
  how these are kept as a command is taken off and a round is begun again, and that
  every operation of the code is `Sound`. `ChipOK` then says at each position that
  the chip has its program or that what is left of the script loads it, and `CountsOK`
  that a retry is left where one is begun.

`TestCmd_proofs`, for any set of callers and any packets:

* `TypeCorrect` (`TypeOK`) and `BufferSuffices` (`BufferHolds`).
* `NoRunUnrequested` (`RunsRequested`). `CreditOK` says that a request for a test which
  stands and is not the one being run has not been counted, and which of the
  worker's positions have seen that it stands.
* `PassesAreFresh` (`SpiPassIsFresh`). `VerdictOK`: whoever has begun a self-test holds the
  lock with the verdict cleared, and where the verdict stands, all who wait were
  waiting when the test passed.

and about `TestImage`, for any geometries of the TA, any header, frame and bounds:

* `ImagesAreKept` (`ImagesKept`). The lemma `RoundTrip` says that a bitmap made of a
  buffer reads back as the buffer: rows reversed and padded, then unpadded and reversed,
  which rests on quotient and remainder being unique (`CellOf`, `CellAt`, `RowsTurned`). It needs
  that the image fits the buffer, which is what `silfp_test_image_capture` checks.
  The invariant `PixelsOK` carries "these are the pixels of that touch" through all the
  places an image can be: the answers on the wire, the messages in the inbox, the
  files, the commands before the sender, the command's block and what the TA was given.
  An answer with an error keeps an image of an earlier touch, so the invariant is about answers
  without one (`OwnAnswer`), and the guard in `UpdateData` is what makes it enough.
* `ResultsAreOwn` (`ResultIsOwn`), an action property: a result is taken for the image it is the
  result of, unless an error of another command was mixed up or the connection lost.
  No answer names its command. `InStep` says why it holds all the same: while
  the task waits, its command or the answer to it is in one place at most (before the sender, with the
  worker, on the wire, in the inbox, with the task), and no other image or result of one is
  under way (`OutOK`, `SlotOK`, `WireOK`, `InboxOK`, `ResultOK`). `NumbersOK` says that
  no two commands under way have one number, and none one that is not yet asked.

`Calibration_proofs`, for any lengths of the data and numbers of measurements and sessions,
and any documents:

* `TypeCorrect` (`TypeOK`).
* `AdaptationsFit` (`AdaptationFits`). What the TA holds of steps 4 and 5 was made with
  the bases it holds or with those on disk, and is nothing while a base is replaced
  (`TaOK`); the second is where the order of the initial steps is needed (`TodoOK`: no
  base is loaded after an adaptation). The buffer belongs to the step that uses it
  (`DataOK`), and between the two removals the first has been done or has failed (`DiskOK`).
* `BasesKept` (`BaseKept`), an action property: what is saved is never nothing
  (`DataOK`), and only adaptations are removed.
* `ConfigurationIsOwn` (`OwnConfiguration`): the document the configuration was taken from
  was compared with this device (`SourceOK`), and the lemma `OwnIds` says what the
  comparison took for a part that an entry leaves out: zero, or the part of an earlier,
  longer entry, which is the exception the property makes.
* `DocumentIsTaken` (`TakesDocument`) and `BlocksAreReleased` (`BlocksReleased`), for any fields,
  tables and documents of any length, and any allocation that fails. Together they are inductive
  (`ConfOK`): the configuration changes in one step, from the built-in one, and what is
  hard is what that step computes. It is proved in four stages.
  1. The loops. Each is a function of how many rounds are done, defined by the round before, of which the
     prover does not know that it exists. The lemma `Chain` makes one round by round, and `SameChain`
     that two with the same rounds agree; both rest on `UpTo`, induction over
     the set of numbers with a property, which needs only that the natural numbers are well-founded.
  2. `PutAllFacts`: after any lists were put, a table holds the last one that was put for it, or what it
     held before, and the heap holds the blocks of the tables and nothing else (`HeapOK`).
  3. `SentBack`: what is cut out of the buffer by the lengths in the head is what was put in
     (`FrontOfConcat`, `BackOfConcat`), and the total length is that of the contents, so the TA takes it.
  4. `ReadFacts`, `TakenFacts` and `DecodeFacts`: what is read of a document, that a field has the bit it is
     marked by for itself, and what the TA has at the end. A failure on one side is none
     on the other, since blocks say who allocated them (`FailuresFacts`).

Every safety invariant and every action property of a passing run is the subject of a theorem. What is
assumed: the constants' assumptions (each evaluated by TLC on the runs), `GroupIdle`, `Reliable` and
`~EarlyStop` where they are named above. No fairness is used.

Only model-checked:

* the liveness properties (`CancelReachesIdle`, `RequestStarts`, `StopEnds`, `Heard`,
  `TakenUp`, the two `CallsEnd`, `WaitsEnd`, `NewestServed`, `TestGoesOn`): liveness under
  fairness is out of the prover's reach;
* the properties of the violated runs, which do not hold.

## Plan

All modules of the plan are written, checked and proved about. What would extend them: the hazards with a
note in `PROJECT.json` (an operation id that is read late, the ignored result of `rename`, a removal that ignores the
TA), which are in the models and wait for a property that the program keeps; and the parts below.

## Not modelled

Image processing and matching are binary libraries behind the TA, which itself
dispatches to them; its answers are choices. The HAL wrapper forwards calls.
Statistics, logs and dumps are output. The XML library is vendored; the functions of
`silead_config.c` that nobody calls and `fpdeadpx.dat`, which only one test writes, are
left out. The framework's behaviour in its callbacks
is not part of this repository; whether it calls the HAL back from a notice that is sent
with `m_lock` held (`silead_finger.c:235`), which would block it, cannot be seen from here. Of the Java applications, `TestImage` has the service, the
gathering of images and the test of one finger. Its loop over the images of other fingers and users,
the gathering of touch events, the second, older test activity, the calibration
application and the report are left out: to the hub they are clients that send anything
at any time, as in `ExtHub` and `TestCmd`.
