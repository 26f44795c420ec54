------------------------------- MODULE ExtHub -------------------------------
(***************************************************************************)
(* The socket server of the test applications: silead_fingerext_hub.c and  *)
(* the event loop of silead_fingerext_event.c.                             *)
(*                                                                         *)
(* A thread of its own (_ext_hub_event_loop) selects on a wakeup pipe, the *)
(* listening socket and at most one connection, and hands the commands it  *)
(* reads to the worker.  The thread that opens and closes the HAL starts   *)
(* and stops it.  Answers are written by the worker, and by the loop for a *)
(* command it rejects, to whatever m_command_fd is when they begin.        *)
(*                                                                         *)
(* A descriptor of a connection is a number that is free again as soon as  *)
(* somebody closes it.  Numbers the rest of the process takes in between   *)
(* are not tracked.  A frame is its three writes: length, id, data.        *)
(***************************************************************************)
EXTENDS Naturals, Sequences

CONSTANTS
  MaxConns,    \* bound on the connections applications make
  MaxFds,      \* descriptor numbers a connection can get
  Backlog,     \* argument of listen (4)
  MaxCommands, \* bound on the commands they send
  MaxReplies,  \* bound on the answers the worker gives
  MaxStarts,   \* bound on the number of times the hub is started
  EarlyStop    \* the hub may be stopped before its thread has made the pipe

Conns   == 1 .. MaxConns
Fds     == 1 .. MaxFds
NoConn  == 0
NoFd    == 0
Writers == {"worker", "loop"}
Events  == {"wakeup", "listen", "command"}

ASSUME HubOK ==
  /\ MaxConns \in Nat /\ MaxFds \in Nat \ {0} /\ Backlog \in Nat \ {0}
  /\ MaxCommands \in Nat /\ MaxReplies \in Nat /\ MaxStarts \in Nat
  /\ EarlyStop \in BOOLEAN

VARIABLES
  apc,       \* position of the thread that starts and stops the hub
  started,   \* m_started
  exit,      \* m_exit
  dpc,       \* position of the event loop's thread
  pipe,      \* the wakeup pipe: "none", "open" or "closed"
  woken,     \* there are bytes in it
  listening, \* m_listen_fd is open
  commandFd, \* m_command_fd
  watch,     \* events in m_watch_table
  eventFd,   \* the number m_commands_event was set with
  copied,    \* the events whose descriptors this turn selects on
  pending,   \* m_pending_list
  stream,    \* commands buffered in the record stream p_rs
  fds,       \* the connection each number stands for
  backlog,   \* connections that wait to be accepted
  peer,      \* state of each connection at the application's end
  sock,      \* commands sent on it and not read
  writer,    \* the frame each writer is writing
  writeLock, \* holder of m_write_mutex
  last,      \* what was written last on each connection
  count      \* numbers of starts, commands and answers so far

control == <<apc, started, exit>>
loop    == <<dpc, watch, eventFd, copied, pending, stream>>
wakeup  == <<pipe, woken>>
apps    == <<backlog, peer, sock>>
writing == <<writer, writeLock, last>>
vars    == <<control, loop, wakeup, listening, commandFd, fds, apps, writing, count>>

NoFrame == [pc |-> "idle", fd |-> NoFd, part |-> 1]
-----------------------------------------------------------------------------
(***************************************************************************)
(* Start and stop                                                          *)
(***************************************************************************)
\* silfp_ext_hub_start, up to pthread_create.
Start ==
  /\ apc = "off" /\ count.starts < MaxStarts
  /\ apc' = "await" /\ dpc' = "init"
  /\ started' = FALSE /\ pipe' = "none" /\ woken' = FALSE
  /\ listening' = FALSE /\ commandFd' = NoFd /\ stream' = 0
  /\ writeLock' = "none"
  /\ count' = [count EXCEPT !.starts = @ + 1]
  /\ UNCHANGED <<exit, watch, eventFd, copied, pending, fds, apps, writer, last>>

\* _ext_hub_event_loop_start waits for m_started, then _ext_hub_event_register
\* makes the socket: without one the hub runs and hears nobody.
Register ==
  /\ apc = "await" /\ started
  /\ \/ apc' = "add" /\ listening' = TRUE
     \/ apc' = "running" /\ UNCHANGED listening
  /\ UNCHANGED <<started, exit, loop, wakeup, commandFd, fds, apps, writing, count>>

\* silfp_ext_event_add, under m_list_mutex.
AddListen ==
  /\ apc = "add"
  /\ apc' = "trigger"
  /\ watch' = watch \cup {"listen"}
  /\ UNCHANGED <<started, exit, dpc, eventFd, copied, pending, stream, wakeup, listening,
                 commandFd, fds, apps, writing, count>>

\* Fault: the loop is not woken.
TriggerEventLoop_Quiet == UNCHANGED woken

\* _ext_hub_trigger_event_loop by a thread other than the loop's: without a pipe
\* the write fails and nothing is said.
TriggerEventLoop == woken' = (woken \/ pipe = "open")

Trigger ==
  /\ \/ apc = "trigger" /\ apc' = "running" /\ UNCHANGED started
     \/ apc = "stop_trigger" /\ apc' = "join" /\ started' = FALSE
  /\ TriggerEventLoop
  /\ UNCHANGED <<exit, loop, pipe, listening, commandFd, fds, apps, writing, count>>

\* Fault: silfp_ext_hub_stop wakes the loop and does not tell it to leave.
Stop_NoExit ==
  /\ apc = "running" /\ started /\ writer["worker"].pc = "idle"
  /\ EarlyStop \/ pipe # "none"
  /\ apc' = "stop_trigger"
  /\ UNCHANGED <<started, exit, loop, wakeup, listening, commandFd, fds, apps, writing, count>>

\* silfp_ext_hub_stop, called when the worker has ended.
Stop ==
  /\ apc = "running" /\ started /\ writer["worker"].pc = "idle"
  /\ EarlyStop \/ pipe # "none"
  /\ apc' = "stop_trigger" /\ exit' = TRUE
  /\ UNCHANGED <<started, loop, wakeup, listening, commandFd, fds, apps, writing, count>>

\* pthread_join and silfp_ext_event_deinit.
Join ==
  /\ apc = "join" /\ dpc = "ended"
  /\ apc' = "off" /\ dpc' = "none"
  /\ watch' = {} /\ pending' = {}
  /\ UNCHANGED <<started, exit, eventFd, copied, stream, wakeup, listening, commandFd, fds,
                 apps, writing, count>>

Starting == Register \/ AddListen \/ Trigger \/ Join
-----------------------------------------------------------------------------
(***************************************************************************)
(* The event loop                                                          *)
(***************************************************************************)
\* silfp_ext_event_init, then m_started is set and broadcast.
EventInit ==
  /\ dpc = "init"
  /\ watch' = {} /\ pending' = {} /\ exit' = FALSE /\ started' = TRUE
  /\ dpc' = "pipe"
  /\ UNCHANGED <<apc, eventFd, copied, stream, wakeup, listening, commandFd, fds, apps,
                 writing, count>>

\* Only now is there a pipe to wake the loop with.
MakePipe ==
  /\ dpc = "pipe"
  /\ pipe' = "open" /\ dpc' = "watch_pipe"
  /\ UNCHANGED <<control, watch, eventFd, copied, pending, stream, woken, listening,
                 commandFd, fds, apps, writing, count>>

\* The wakeup event is added; the loop's own thread triggers nothing.
WatchPipe ==
  /\ dpc = "watch_pipe"
  /\ watch' = watch \cup {"wakeup"} /\ dpc' = "copy"
  /\ UNCHANGED <<control, eventFd, copied, pending, stream, wakeup, listening, commandFd,
                 fds, apps, writing, count>>

\* silfp_ext_event_loop copies m_read_fds without the lock ...
CopySet ==
  /\ dpc = "copy"
  /\ copied' = watch /\ dpc' = "enter"
  /\ UNCHANGED <<control, watch, eventFd, pending, stream, wakeup, listening, commandFd,
                 fds, apps, writing, count>>

\* ... and select fails on a number that is closed, which ends the loop.
EnterSelect ==
  /\ dpc = "enter"
  /\ dpc' = IF "command" \in copied /\ fds[eventFd] = NoConn THEN "leave" ELSE "select"
  /\ UNCHANGED <<control, watch, eventFd, copied, pending, stream, wakeup, listening,
                 commandFd, fds, apps, writing, count>>

ConnReady(c) == c = NoConn \/ sock[c] > 0 \/ peer[c] = "dead"
Ready == {e \in copied : \/ e = "wakeup" /\ woken
                         \/ e = "listen" /\ backlog # <<>>
                         \/ e = "command" /\ ConnReady(fds[eventFd])}

\* Fault: a listening socket stays watched while a connection is served.
Select_Persist ==
  /\ dpc = "select" /\ Ready # {}
  /\ pending' = Ready \cap watch
  /\ dpc' = "fire"
  /\ UNCHANGED <<control, watch, eventFd, copied, stream, wakeup, listening, commandFd, fds,
                 apps, writing, count>>

\* _ext_event_process_read_readies: the listening event is watched once.
Select ==
  /\ dpc = "select" /\ Ready # {}
  /\ pending' = Ready \cap watch
  /\ watch' = watch \ (pending' \cap {"listen"})
  /\ dpc' = "fire"
  /\ UNCHANGED <<control, eventFd, copied, stream, wakeup, listening, commandFd, fds, apps,
                 writing, count>>

\* _ext_event_fire_pending takes the next event, in the order of the table,
\* which depends on who was first to add.
Fire(e) ==
  /\ dpc = "fire" /\ e \in pending
  /\ pending' = pending \ {e}
  /\ dpc' = e
  /\ UNCHANGED <<control, watch, eventFd, copied, stream, wakeup, listening, commandFd,
                 fds, apps, writing, count>>

\* Nothing is pending: m_exit is tested.
TurnEnd ==
  /\ dpc = "fire" /\ pending = {}
  /\ dpc' = IF exit THEN "leave" ELSE "copy"
  /\ UNCHANGED <<control, watch, eventFd, copied, pending, stream, wakeup, listening,
                 commandFd, fds, apps, writing, count>>

\* _ext_hub_process_wakeup_callback drains the pipe.
Wakeup ==
  /\ dpc = "wakeup"
  /\ woken' = FALSE /\ dpc' = "fire"
  /\ UNCHANGED <<control, watch, eventFd, copied, pending, stream, pipe, listening,
                 commandFd, fds, apps, writing, count>>

\* _ext_hub_listen_callback: m_command_fd is set as soon as accept returns.  A
\* connection that died while it waited may be reported as an error.
Accept ==
  /\ dpc = "listen"
  /\ LET c == Head(backlog) IN
       \/ \E n \in Fds :
            /\ fds[n] = NoConn
            /\ fds' = [fds EXCEPT ![n] = c] /\ commandFd' = n
            /\ peer' = [peer EXCEPT ![c] = IF @ = "queued" THEN "open" ELSE @]
            /\ dpc' = "check"
            /\ UNCHANGED watch
       \/ /\ peer[c] = "dead"
          /\ commandFd' = NoFd
          /\ watch' = watch \cup {"listen"} /\ dpc' = "fire"
          /\ UNCHANGED <<fds, peer>>
  /\ backlog' = Tail(backlog)
  /\ UNCHANGED <<control, eventFd, copied, pending, stream, wakeup, listening, sock,
                 writing, count>>

\* The peer is served if its process runs as the user "system".
Check ==
  /\ dpc = "check"
  /\ \/ /\ eventFd' = commandFd /\ stream' = 0
        /\ watch' = watch \cup {"command"}
        /\ UNCHANGED <<fds, commandFd>>
     \/ /\ fds' = [fds EXCEPT ![commandFd] = NoConn] /\ commandFd' = NoFd
        /\ watch' = watch \cup {"listen"}
        /\ UNCHANGED <<eventFd, stream>>
  /\ dpc' = "fire"
  /\ UNCHANGED <<control, copied, pending, wakeup, listening, apps, writing, count>>

\* Fault: one record is taken per event.
HandleCommand_One ==
  /\ dpc = "command" /\ stream > 0
  /\ stream' = stream - 1
  /\ dpc' = "fire"
  /\ UNCHANGED <<control, watch, eventFd, copied, pending, wakeup, listening, commandFd,
                 fds, apps, writing, count>>

\* _ext_hub_process_command_callback takes the next record: it goes to the
\* worker, or is answered with an error.
HandleCommand ==
  /\ dpc = "command" /\ stream > 0
  /\ stream' = stream - 1
  /\ dpc' \in {"command", "reply"}
  /\ UNCHANGED <<control, watch, eventFd, copied, pending, wakeup, listening, commandFd,
                 fds, apps, writing, count>>

\* The stream is empty: read what the socket has, or return when it has nothing.
FillStream ==
  /\ dpc = "command" /\ stream = 0
  /\ LET c == fds[eventFd] IN
       /\ c # NoConn
       /\ \/ /\ sock[c] > 0
             /\ stream' = sock[c] /\ sock' = [sock EXCEPT ![c] = 0]
             /\ UNCHANGED dpc
          \/ /\ sock[c] = 0 /\ peer[c] # "dead"
             /\ dpc' = "fire"
             /\ UNCHANGED <<stream, sock>>
  /\ UNCHANGED <<control, watch, eventFd, copied, pending, wakeup, listening, commandFd,
                 fds, backlog, peer, writing, count>>

EndOfStream ==
  LET c == fds[eventFd] IN IF c = NoConn THEN TRUE ELSE sock[c] = 0 /\ peer[c] = "dead"

\* Fault: the next connection is not waited for.
CloseCommand_Deaf ==
  /\ dpc = "command" /\ stream = 0
  /\ EndOfStream
  /\ fds' = [fds EXCEPT ![commandFd] = NoConn] /\ commandFd' = NoFd
  /\ watch' = watch \ {"command"}
  /\ dpc' = "fire"
  /\ UNCHANGED <<control, eventFd, copied, pending, stream, wakeup, listening, apps,
                 writing, count>>

\* End of the stream, or a read on a number that is closed: close it and listen.
CloseCommand ==
  /\ dpc = "command" /\ stream = 0
  /\ EndOfStream
  /\ fds' = [fds EXCEPT ![commandFd] = NoConn] /\ commandFd' = NoFd
  /\ watch' = (watch \ {"command"}) \cup {"listen"}
  /\ dpc' = "fire"
  /\ UNCHANGED <<control, eventFd, copied, pending, stream, wakeup, listening, apps,
                 writing, count>>

\* The loop has ended: everything is closed, and who waits to connect is refused.
Leave ==
  /\ dpc = "leave"
  /\ dpc' = "ended"
  /\ listening' = FALSE /\ backlog' = <<>>
  /\ peer' = [c \in Conns |-> IF peer[c] = "queued" THEN "dead" ELSE peer[c]]
  /\ fds' = [n \in Fds |-> IF n = commandFd THEN NoConn ELSE fds[n]]
  /\ commandFd' = NoFd
  /\ pipe' = "closed" /\ woken' = FALSE /\ stream' = 0
  /\ UNCHANGED <<control, watch, eventFd, copied, pending, sock, writing, count>>

Dispatch ==
  \/ EventInit \/ MakePipe \/ WatchPipe \/ CopySet \/ EnterSelect \/ Select \/ TurnEnd
  \/ \E e \in Events : Fire(e)
  \/ Wakeup \/ Accept \/ Check \/ HandleCommand \/ FillStream \/ CloseCommand
  \/ Leave
-----------------------------------------------------------------------------
(***************************************************************************)
(* Answers                                                                 *)
(***************************************************************************)
\* silfp_ext_hub_send_response_raw reads m_command_fd before it takes the lock.
\* The loop goes on with what it read whether it was written or not.
SendBegin(w) ==
  /\ writer[w].pc = "idle"
  /\ \/ /\ w = "worker" /\ apc = "running" /\ count.replies < MaxReplies
        /\ commandFd # NoFd
        /\ count' = [count EXCEPT !.replies = @ + 1]
        /\ UNCHANGED dpc
     \/ w = "loop" /\ dpc = "reply" /\ dpc' = "replying" /\ UNCHANGED count
  /\ writer' = [writer EXCEPT ![w] = [pc |-> "lock", fd |-> commandFd, part |-> 1]]
  /\ UNCHANGED <<control, watch, eventFd, copied, pending, stream, wakeup, listening,
                 commandFd, fds, apps, writeLock, last>>

\* Fault: m_write_mutex is not taken.
SendLock_Never(w) ==
  /\ writer[w].pc = "lock"
  /\ writer' = [writer EXCEPT ![w].pc = "write"]
  /\ UNCHANGED <<control, loop, wakeup, listening, commandFd, fds, apps, writeLock, last,
                 count>>

SendLock(w) ==
  /\ writer[w].pc = "lock" /\ writeLock = "none"
  /\ writeLock' = w
  /\ writer' = [writer EXCEPT ![w].pc = "write"]
  /\ UNCHANGED <<control, loop, wakeup, listening, commandFd, fds, apps, last, count>>

\* The next part of the frame, or the end of it.  Only a failure of the first
\* part ends the frame early.
WritePart(w, p, failed) ==
  IF p = 3 \/ (p = 1 /\ failed)
  THEN writer' = [writer EXCEPT ![w].pc = "unlock"]
  ELSE writer' = [writer EXCEPT ![w].part = p + 1]

\* _ext_hub_data_blocking_write: on an error the number is closed, and
\* m_command_fd is left as it is.
SendPart(w) ==
  /\ writer[w].pc = "write"
  /\ LET n == writer[w].fd
         p == writer[w].part
         c == fds[n]
     IN  IF c # NoConn /\ peer[c] = "open"
         THEN /\ last' = [last EXCEPT ![c] = [by |-> w, part |-> p]]
              /\ WritePart(w, p, FALSE) /\ UNCHANGED fds
         ELSE /\ fds' = [fds EXCEPT ![n] = NoConn]
              /\ WritePart(w, p, TRUE) /\ UNCHANGED last
  /\ UNCHANGED <<control, loop, wakeup, listening, commandFd, apps, writeLock, count>>

SendEnd(w) ==
  /\ writer[w].pc = "unlock"
  /\ writeLock' = "none"
  /\ writer' = [writer EXCEPT ![w] = NoFrame]
  /\ dpc' = IF w = "loop" THEN "command" ELSE dpc
  /\ UNCHANGED <<control, watch, eventFd, copied, pending, stream, wakeup, listening,
                 commandFd, fds, apps, last, count>>

Sending(w) == SendLock(w) \/ SendPart(w) \/ SendEnd(w)
-----------------------------------------------------------------------------
(***************************************************************************)
(* Applications                                                            *)
(***************************************************************************)
Connect(c) ==
  /\ peer[c] = "none" /\ listening /\ Len(backlog) < Backlog
  /\ peer' = [peer EXCEPT ![c] = "queued"]
  /\ backlog' = Append(backlog, c)
  /\ UNCHANGED <<control, loop, wakeup, listening, commandFd, fds, sock, writing, count>>

Send(c) ==
  /\ peer[c] \in {"queued", "open"} /\ count.sent < MaxCommands
  /\ sock' = [sock EXCEPT ![c] = @ + 1]
  /\ count' = [count EXCEPT !.sent = @ + 1]
  /\ UNCHANGED <<control, loop, wakeup, listening, commandFd, fds, backlog, peer, writing>>

\* The application ends, whatever it waits for.
Die(c) ==
  /\ peer[c] \in {"queued", "open"}
  /\ peer' = [peer EXCEPT ![c] = "dead"]
  /\ UNCHANGED <<control, loop, wakeup, listening, commandFd, fds, backlog, sock, writing,
                 count>>
-----------------------------------------------------------------------------
Init ==
  /\ apc = "off" /\ started = FALSE /\ exit = FALSE
  /\ dpc = "none" /\ pipe = "none" /\ woken = FALSE
  /\ listening = FALSE /\ commandFd = NoFd
  /\ watch = {} /\ eventFd = NoFd /\ copied = {} /\ pending = {} /\ stream = 0
  /\ fds = [n \in Fds |-> NoConn]
  /\ backlog = <<>> /\ peer = [c \in Conns |-> "none"] /\ sock = [c \in Conns |-> 0]
  /\ writer = [w \in Writers |-> NoFrame] /\ writeLock = "none"
  /\ last = [c \in Conns |-> [by |-> "nobody", part |-> 3]]
  /\ count = [starts |-> 0, sent |-> 0, replies |-> 0]

Next ==
  \/ Start \/ Stop \/ Starting \/ Dispatch
  \/ \E w \in Writers : SendBegin(w) \/ Sending(w)
  \/ \E c \in Conns : Connect(c) \/ Send(c) \/ Die(c)

Spec == Init /\ [][Next]_vars

\* The threads run; nothing promises that applications come, go or send.
FairSpec ==
  /\ Spec
  /\ WF_vars(Starting) /\ WF_vars(Dispatch)
  /\ WF_vars(SendBegin("loop")) /\ \A w \in Writers : WF_vars(Sending(w))
-----------------------------------------------------------------------------
(***************************************************************************)
(* Properties                                                              *)
(***************************************************************************)
LoopOK ==
  /\ dpc \in {"none", "init", "pipe", "watch_pipe", "copy", "enter", "select", "fire",
              "check", "reply", "replying", "leave", "ended"} \cup Events
  /\ watch \subseteq Events /\ copied \subseteq Events /\ pending \subseteq copied
  /\ eventFd \in Fds \cup {NoFd} /\ commandFd \in Fds \cup {NoFd}
  /\ stream \in 0 .. MaxCommands

StarterOK ==
  /\ apc \in {"off", "await", "add", "trigger", "running", "stop_trigger", "join"}
  /\ started \in BOOLEAN /\ exit \in BOOLEAN /\ woken \in BOOLEAN /\ listening \in BOOLEAN
  /\ pipe \in {"none", "open", "closed"} /\ (woken => pipe = "open")

AppsOK ==
  /\ fds \in [Fds -> Conns \cup {NoConn}]
  /\ backlog \in Seq(Conns) /\ Len(backlog) <= Backlog
  /\ peer \in [Conns -> {"none", "queued", "open", "dead"}]
  /\ sock \in [Conns -> 0 .. MaxCommands]

\* One writer at a time is inside m_write_mutex.
WritingOK ==
  /\ writer \in [Writers -> [pc : {"idle", "lock", "write", "unlock"},
                             fd : Fds \cup {NoFd}, part : 1 .. 3]]
  /\ \A w \in Writers : writer[w].pc \in {"write", "unlock"} <=> writeLock = w
  /\ writeLock \in Writers \cup {"none"}
  /\ last \in [Conns -> [by : Writers \cup {"nobody"}, part : 1 .. 3]]

TypeOK ==
  /\ LoopOK /\ StarterOK /\ AppsOK /\ WritingOK
  /\ count \in [starts : 0 .. MaxStarts, sent : 0 .. MaxCommands, replies : 0 .. MaxReplies]

\* The loop serves one connection and then listens for the next: never both, so
\* that m_command_fd and the stream belong to the event that fires, and never
\* neither once the socket is registered.
OneSession ==
  /\ "command" \in watch /\ dpc # "ended" =>
        "listen" \notin watch /\ commandFd = eventFd /\ commandFd # NoFd
  /\ dpc = "select" /\ apc = "running" /\ listening => watch \cap {"listen", "command"} # {}

\* A loop that sleeps in select without knowing of a new event, or of the order
\* to leave, is about to be woken: registering and stopping race with the copy
\* that silfp_ext_event_loop makes without a lock, and with the making of the pipe.
SleepsInformed ==
  dpc = "select" =>
    /\ woken => "wakeup" \in copied
    /\ watch # copied => woken \/ apc = "trigger"
    /\ exit => woken \/ apc = "stop_trigger"

\* The three writes of an answer stay together on a connection, whoever else
\* answers and whichever connection has the number by now.  (What can happen is
\* that the rest of a frame is the first thing a new connection gets.)
Follows(a, b) ==
  IF a.part < 3 THEN b.by = a.by /\ b.part = a.part + 1 ELSE b.part = 1 \/ a.by = "nobody"

FramesTogether ==
  [][\A c \in Conns : last'[c] # last[c] => Follows(last[c], last'[c])]_vars

\* silfp_ext_hub_stop returns.
StopEnds == apc = "stop_trigger" ~> apc = "off"

\* A command that was sent on the connection being served is handed on, unless
\* the connection is closed first: none is left in the stream or in the socket.
Serving(c) == "command" \in watch /\ fds[eventFd] = c
Heard ==
  \A c \in Conns : Serving(c) /\ sock[c] + stream > 0
                    ~> ~Serving(c) \/ sock[c] + stream = 0

\* An application that connects waits only as long as another is connected.
TakenUp ==
  \A c \in Conns : peer[c] = "queued"
    ~> peer[c] # "queued" \/ \E n \in Fds : fds[n] # NoConn /\ peer[fds[n]] = "open"
=============================================================================
