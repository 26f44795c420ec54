--------------------------- MODULE ExtHub_proofs ---------------------------
(***************************************************************************)
(* Theorems about ExtHub, for any number of connections, numbers,          *)
(* commands, answers and starts: it stays within its types, serves one     *)
(* connection at a time, sleeps through nothing unless it is stopped       *)
(* before it has a pipe, and keeps frames together.                        *)
(***************************************************************************)
EXTENDS ExtHub, TLAPS
-----------------------------------------------------------------------------
(***************************************************************************)
(* The inductive invariant                                                 *)
(***************************************************************************)
\* Where the loop's thread handles events, and where it waits for them.
Turn    == {"fire", "check", "reply", "replying"} \cup Events
Selects == {"copy", "enter", "select"}
Cycle   == Turn \cup Selects

\* How the positions of the threads go together.
PlacesOK ==
  /\ dpc \notin Turn => pending = {}
  /\ dpc = "none" <=> apc = "off"
  /\ dpc = "none" => watch = {}
  /\ dpc = "init" => apc = "await" /\ ~started
  /\ dpc \in {"init", "pipe"} => pipe = "none"
  /\ dpc \in {"watch_pipe", "leave"} \cup Cycle => pipe = "open"
  /\ dpc \in Cycle => "wakeup" \in watch
  /\ dpc \in {"enter", "select"} => copied \subseteq watch /\ "wakeup" \in copied
  /\ dpc = "replying" <=> writer["loop"].pc # "idle"
  /\ writer["worker"].pc # "idle" => apc = "running"
  /\ \A w \in Writers : /\ writer[w].pc # "idle" => writer[w].fd \in Fds
                        /\ writer[w].pc = "lock" => writer[w].part = 1

\* What is sent bounds what is buffered.
SentOK == stream <= count.sent /\ \A c \in Conns : sock[c] <= count.sent

\* The session is with one of: the watched socket, the event that is to fire,
\* the callback that accepts, the watched connection.
SessionOK ==
  /\ apc \in {"off", "await", "add"} => /\ watch \cap {"listen", "command"} = {}
                                        /\ pending \cap {"listen", "command"} = {}
                                        /\ dpc \notin {"listen", "check"}
  /\ apc = "await" => ~listening
  /\ "command" \in watch => "listen" \notin watch
  /\ watch \cap {"listen", "command"} # {} => /\ "listen" \notin pending
                                              /\ dpc \notin {"listen", "check"}
  /\ "listen" \in pending => dpc \notin {"listen", "check"}
  /\ "command" \in pending => "command" \in watch
  /\ dpc \in {"command", "reply", "replying"} => "command" \in watch /\ "command" \notin pending
  /\ "command" \in watch /\ dpc # "ended" => commandFd = eventFd /\ eventFd \in Fds
  /\ dpc = "check" => commandFd \in Fds
  /\ "listen" \in pending \/ dpc = "listen" => backlog # <<>>

\* It is with one of them as long as the hub listens.
SessionKept ==
  listening /\ apc \notin {"await", "add"} /\ dpc \in {"pipe", "watch_pipe"} \cup Cycle =>
    \/ watch \cap {"listen", "command"} # {}
    \/ "listen" \in pending
    \/ dpc \in {"listen", "check"}

\* From the copy to the sleep nothing is missed.
Informed ==
  /\ dpc \in {"enter", "select"} => watch = copied \/ woken \/ apc = "trigger"
  /\ dpc = "pipe" => ~exit
  /\ dpc \in {"watch_pipe"} \cup Selects /\ exit => woken \/ apc = "stop_trigger"

\* A connection is new until it is accepted ...
NewOK ==
  \A c \in Conns : peer[c] = "none" \/ (\E i \in 1 .. Len(backlog) : backlog[i] = c) =>
    /\ last[c] = [by |-> "nobody", part |-> 3]
    /\ \A n \in Fds : fds[n] # c

\* ... waits once ...
WaitsOK ==
  /\ \A i \in 1 .. Len(backlog) : peer[backlog[i]] # "none"
  /\ \A i, j \in 1 .. Len(backlog) : backlog[i] = backlog[j] => i = j

\* ... and has one number.
NumbersOK == \A n, m \in Fds : fds[n] = fds[m] /\ fds[n] # NoConn => n = m

\* A frame that was begun is being written, unless its connection has ended.
Begun(n) ==
  LET c == fds[n]
      w == last[c].by
  IN  \/ c = NoConn \/ last[c].part = 3 \/ peer[c] = "dead"
      \/ writer[w].pc = "write" /\ writer[w].fd = n /\ writer[w].part = last[c].part + 1

\* A writer in the middle of a frame finds the connection new, or where it left it.
Amid(w) ==
  LET c == fds[writer[w].fd]
  IN  writer[w].pc = "write" /\ writer[w].part > 1 =>
        \/ c = NoConn \/ peer[c] = "dead" \/ last[c].by = "nobody"
        \/ last[c].by = w /\ last[c].part = writer[w].part - 1

FramesOK ==
  /\ \A c \in Conns : last[c].by = "nobody" => last[c].part = 3
  /\ \A n \in Fds : Begun(n)
  /\ \A w \in Writers : Amid(w)

\* What TypeOK says of the bounds.
CountOK == count \in [starts : 0 .. MaxStarts, sent : 0 .. MaxCommands, replies : 0 .. MaxReplies]
IInv == TypeOK /\ PlacesOK /\ SentOK /\ SessionOK /\ SessionKept
        /\ NewOK /\ WaitsOK /\ NumbersOK /\ FramesOK
-----------------------------------------------------------------------------
\* The loop's part of the type invariant.
LEMMA LoopStep ==
  ASSUME IInv, [Next]_vars
  PROVE  LoopOK'
<1> USE DEF IInv, TypeOK
<1>1. \/ Start \/ AddListen \/ Join \/ EventInit \/ MakePipe \/ WatchPipe \/ CopySet
      \/ EnterSelect \/ Select \/ TurnEnd \/ (\E e \in Events : Fire(e)) \/ Wakeup
      \/ Accept \/ Check \/ HandleCommand \/ FillStream \/ CloseCommand \/ Leave
      \/ (\E w \in Writers : SendBegin(w)) \/ (\E w \in Writers : SendEnd(w))
      \/ UNCHANGED <<dpc, watch, copied, pending, eventFd, commandFd, stream>>
  BY DEF Next, Starting, Dispatch, Sending, vars, Stop, Register, Trigger, SendLock,
       SendPart, Connect, Send, Die, TriggerEventLoop, WritePart, loop
<1>2. CASE Start
  BY <1>2, HubOK DEF Start, Fds, NoFd, LoopOK, Events
<1>3. CASE AddListen
  BY <1>3 DEF AddListen, LoopOK, Events
<1>4. CASE Join
  BY <1>4 DEF Join, LoopOK, Events
<1>5. CASE EventInit
  BY <1>5 DEF EventInit, LoopOK, Events
<1>6. CASE MakePipe
  BY <1>6 DEF MakePipe, LoopOK, Events
<1>7. CASE WatchPipe
  BY <1>7 DEF WatchPipe, LoopOK, Events
<1>8. CASE CopySet
  BY <1>8 DEF CopySet, PlacesOK, Turn, LoopOK, Events
<1>9. CASE EnterSelect
  BY <1>9 DEF EnterSelect, LoopOK, Events
<1>10. CASE Select
  BY <1>10 DEF Select, Ready, ConnReady, LoopOK, Events
<1>11. CASE TurnEnd
  BY <1>11 DEF TurnEnd, LoopOK, Events
<1>12. ASSUME NEW e \in Events, Fire(e) PROVE LoopOK'
  BY <1>12 DEF Fire, LoopOK, Events
<1>13. CASE Wakeup
  BY <1>13 DEF Wakeup, LoopOK, Events
<1>14. CASE Accept
  BY <1>14 DEF Accept, Fds, NoFd, LoopOK, Events
<1>15. CASE Check
  <2>1. stream' \in 0 .. MaxCommands
    BY <1>15, HubOK DEF Check, LoopOK
  <2> QED
    BY <1>15, <2>1 DEF Check, LoopOK, Events, NoFd, control, wakeup
<1>16. CASE HandleCommand
  BY <1>16, HubOK DEF HandleCommand, LoopOK, Events
<1>17. CASE FillStream
  <2>1. eventFd \in Fds
    BY <1>17 DEF FillStream, SessionOK, Events
  <2>2. fds[eventFd] # NoConn => sock[fds[eventFd]] \in 0 .. MaxCommands
    BY <2>1 DEF AppsOK
  <2>3. stream' \in 0 .. MaxCommands /\ dpc' \in {"command", "fire"}
    BY <1>17, <2>2 DEF FillStream, LoopOK
  <2> QED
    BY <1>17, <2>3 DEF FillStream, LoopOK, Events, control, wakeup, writing
<1>18. CASE CloseCommand
  BY <1>18 DEF CloseCommand, NoFd, LoopOK, Events
<1>19. CASE Leave
  BY <1>19, HubOK DEF Leave, NoFd, LoopOK, Events
<1>20. ASSUME NEW w \in Writers, SendBegin(w) PROVE LoopOK'
  BY <1>20 DEF SendBegin, LoopOK, Events, loop
<1>21. ASSUME NEW w \in Writers, SendEnd(w) PROVE LoopOK'
  BY <1>21 DEF SendEnd, LoopOK, Events, loop
<1>22. CASE UNCHANGED <<dpc, watch, copied, pending, eventFd, commandFd, stream>>
  BY <1>22 DEF LoopOK, Events
<1> QED
  BY <1>1, <1>2, <1>3, <1>4, <1>5, <1>6, <1>7, <1>8, <1>9, <1>10, <1>11, <1>12, <1>13,
       <1>14, <1>15, <1>16, <1>17, <1>18, <1>19, <1>20, <1>21, <1>22

\* The starter's part of it.
LEMMA StarterStep ==
  ASSUME IInv, [Next]_vars
  PROVE  StarterOK'
<1> USE DEF IInv, TypeOK
<1>1. \/ Start \/ Stop \/ Register \/ AddListen \/ Trigger \/ Join \/ EventInit \/ MakePipe
      \/ Wakeup \/ Leave
      \/ UNCHANGED <<apc, started, exit, woken, listening, pipe>>
  BY DEF Next, Starting, Dispatch, Sending, vars, WatchPipe, CopySet, EnterSelect, Select,
       TurnEnd, Fire, Accept, Check, HandleCommand, FillStream, CloseCommand, SendBegin,
       SendLock, SendPart, SendEnd, Connect, Send, Die, Ready, ConnReady, EndOfStream,
       WritePart, control, wakeup
<1>2. CASE Start
  BY <1>2 DEF Start, StarterOK
<1>3. CASE Stop
  BY <1>3 DEF Stop, StarterOK, wakeup
<1>4. CASE Register
  BY <1>4 DEF Register, StarterOK, wakeup
<1>5. CASE AddListen
  BY <1>5 DEF AddListen, StarterOK, wakeup
<1>6. CASE Trigger
  BY <1>6 DEF Trigger, TriggerEventLoop, StarterOK
<1>7. CASE Join
  BY <1>7 DEF Join, StarterOK, wakeup
<1>8. CASE EventInit
  BY <1>8 DEF EventInit, StarterOK, wakeup
<1>9. CASE MakePipe
  BY <1>9 DEF MakePipe, PlacesOK, StarterOK, control
<1>10. CASE Wakeup
  BY <1>10 DEF Wakeup, StarterOK, control, wakeup
<1>11. CASE Leave
  BY <1>11 DEF Leave, StarterOK, control
<1>12. CASE UNCHANGED <<apc, started, exit, woken, listening, pipe>>
  BY <1>12 DEF StarterOK
<1> QED
  BY <1>1, <1>2, <1>3, <1>4, <1>5, <1>6, <1>7, <1>8, <1>9, <1>10, <1>11, <1>12

\* The applications' part of it.
LEMMA AppsStep ==
  ASSUME IInv, [Next]_vars
  PROVE  AppsOK'
<1> USE DEF IInv, TypeOK
<1>1. \/ Accept \/ Check \/ FillStream \/ CloseCommand \/ Leave
      \/ (\E w \in Writers : SendPart(w)) \/ (\E c \in Conns : Connect(c))
      \/ (\E c \in Conns : Send(c)) \/ (\E c \in Conns : Die(c))
      \/ UNCHANGED <<fds, backlog, peer, sock>>
  BY DEF Next, Starting, Dispatch, Sending, vars, Start, Stop, Register, AddListen, Trigger,
       Join, EventInit, MakePipe, WatchPipe, CopySet, EnterSelect, Select, TurnEnd, Fire,
       Wakeup, HandleCommand, SendBegin, SendLock, SendEnd, TriggerEventLoop, Ready,
       ConnReady, apps
<1>2. CASE Accept
  <2>1. backlog # <<>> /\ backlog \in Seq(Conns)
    BY <1>2 DEF Accept, SessionOK, AppsOK
  <2>2. /\ Head(backlog) \in Conns /\ Tail(backlog) \in Seq(Conns)
        /\ Len(Tail(backlog)) <= Backlog
    BY <2>1, HubOK DEF AppsOK
  <2>3. fds' \in [Fds -> Conns \cup {NoConn}]
    BY <1>2, <2>2 DEF Accept, AppsOK
  <2>4. peer' \in [Conns -> {"none", "queued", "open", "dead"}]
    BY <1>2, <2>2 DEF Accept, AppsOK
  <2> QED
    BY <1>2, <2>2, <2>3, <2>4 DEF Accept, AppsOK
<1>3. CASE Check
  BY <1>3 DEF Check, AppsOK, apps
<1>4. CASE FillStream
  <2>1. sock' \in [Conns -> 0 .. MaxCommands]
    BY <1>4, HubOK DEF FillStream, AppsOK
  <2> QED
    BY <1>4, <2>1 DEF FillStream, AppsOK
<1>5. CASE CloseCommand
  BY <1>5 DEF CloseCommand, AppsOK, apps
<1>6. CASE Leave
  <2>1. backlog' \in Seq(Conns) /\ Len(backlog') <= Backlog
    BY <1>6, HubOK DEF Leave
  <2>2. /\ fds' \in [Fds -> Conns \cup {NoConn}]
        /\ peer' \in [Conns -> {"none", "queued", "open", "dead"}]
    BY <1>6 DEF Leave, AppsOK
  <2> QED
    BY <1>6, <2>1, <2>2 DEF Leave, AppsOK
<1>7. ASSUME NEW w \in Writers, SendPart(w) PROVE AppsOK'
  BY <1>7 DEF SendPart, AppsOK, apps
<1>8. ASSUME NEW c \in Conns, Connect(c) PROVE AppsOK'
  <2>1. backlog' \in Seq(Conns) /\ Len(backlog') <= Backlog
    BY <1>8, HubOK DEF Connect, AppsOK
  <2> QED
    BY <1>8, <2>1 DEF Connect, AppsOK
<1>9. ASSUME NEW c \in Conns, Send(c) PROVE AppsOK'
  <2>1. sock[c] + 1 \in 0 .. MaxCommands
    BY <1>9, HubOK DEF Send, AppsOK, SentOK
  <2>2. sock' \in [Conns -> 0 .. MaxCommands]
    BY <1>9, <2>1 DEF Send, AppsOK
  <2> QED
    BY <1>9, <2>2 DEF Send, AppsOK, apps
<1>10. ASSUME NEW c \in Conns, Die(c) PROVE AppsOK'
  BY <1>10 DEF Die, AppsOK
<1>11. CASE UNCHANGED <<fds, backlog, peer, sock>>
  BY <1>11 DEF AppsOK
<1> QED
  BY <1>1, <1>2, <1>3, <1>4, <1>5, <1>6, <1>7, <1>8, <1>9, <1>10, <1>11

\* The writers' part of it: m_write_mutex has one holder.
LEMMA WritingStep ==
  ASSUME IInv, [Next]_vars
  PROVE  WritingOK'
<1> USE DEF IInv, TypeOK
<1>1. \/ Start \/ (\E w \in Writers : SendBegin(w)) \/ (\E w \in Writers : SendLock(w))
      \/ (\E w \in Writers : SendPart(w)) \/ (\E w \in Writers : SendEnd(w))
      \/ UNCHANGED <<writer, writeLock, last>>
  BY DEF Next, Starting, Dispatch, Sending, vars, Stop, Register, AddListen, Trigger, Join,
       EventInit, MakePipe, WatchPipe, CopySet, EnterSelect, Select, TurnEnd, Fire, Wakeup,
       Accept, Check, HandleCommand, FillStream, CloseCommand, Leave, Connect, Send, Die,
       TriggerEventLoop, Ready, ConnReady, EndOfStream, writing
<1>2. CASE Start
  BY <1>2 DEF Start, PlacesOK, WritingOK, Writers, NoFrame
<1>3. ASSUME NEW w \in Writers, SendBegin(w) PROVE WritingOK'
  <2>1. commandFd \in Fds \cup {NoFd}
    BY DEF LoopOK
  <2>2. writer' = [writer EXCEPT ![w] = [pc |-> "lock", fd |-> commandFd, part |-> 1]]
    BY <1>3 DEF SendBegin
  <2>3. writer' \in [Writers -> [pc : {"idle", "lock", "write", "unlock"},
                               fd : Fds \cup {NoFd}, part : 1 .. 3]]
    BY <2>1, <2>2 DEF WritingOK
  <2> QED
    BY <1>3, <2>2, <2>3 DEF SendBegin, WritingOK
<1>4. ASSUME NEW w \in Writers, SendLock(w) PROVE WritingOK'
  BY <1>4 DEF SendLock, WritingOK, Writers, NoFrame
<1>5. ASSUME NEW w \in Writers, SendPart(w) PROVE WritingOK'
  BY <1>5 DEF SendPart, WritePart, WritingOK, Writers, NoFrame
<1>6. ASSUME NEW w \in Writers, SendEnd(w) PROVE WritingOK'
  BY <1>6 DEF SendEnd, WritingOK, Writers, NoFrame
<1>7. CASE UNCHANGED <<writer, writeLock, last>>
  BY <1>7 DEF WritingOK, Writers, NoFrame
<1> QED
  BY <1>1, <1>2, <1>3, <1>4, <1>5, <1>6, <1>7

\* The bounds.
LEMMA CountStep ==
  ASSUME IInv, [Next]_vars
  PROVE  CountOK'
<1> USE DEF IInv, TypeOK
<1>1. \/ Start \/ (\E w \in Writers : SendBegin(w)) \/ (\E c \in Conns : Send(c))
      \/ UNCHANGED <<count>>
  BY DEF Next, Starting, Dispatch, Sending, vars, Stop, Register, AddListen, Trigger, Join,
       EventInit, MakePipe, WatchPipe, CopySet, EnterSelect, Select, TurnEnd, Fire, Wakeup,
       Accept, Check, HandleCommand, FillStream, CloseCommand, Leave, SendLock, SendPart,
       SendEnd, Connect, Die, TriggerEventLoop, Ready, ConnReady, EndOfStream, WritePart
<1>2. CASE Start
  BY <1>2, HubOK DEF Start, CountOK
<1>3. ASSUME NEW w \in Writers, SendBegin(w) PROVE CountOK'
  BY <1>3, HubOK DEF SendBegin, CountOK
<1>4. ASSUME NEW c \in Conns, Send(c) PROVE CountOK'
  BY <1>4, HubOK DEF Send, CountOK
<1>5. CASE UNCHANGED <<count>>
  BY <1>5 DEF CountOK
<1> QED
  BY <1>1, <1>2, <1>3, <1>4, <1>5

\* What is sent bounds what is buffered.
LEMMA SentStep ==
  ASSUME IInv, [Next]_vars
  PROVE  SentOK'
<1> USE DEF IInv, TypeOK
<1>1. \/ Start \/ Check \/ HandleCommand \/ FillStream \/ Leave
      \/ (\E w \in Writers : SendBegin(w)) \/ (\E c \in Conns : Send(c))
      \/ UNCHANGED <<stream, sock, count>>
  BY DEF Next, Starting, Dispatch, Sending, vars, Stop, Register, AddListen, Trigger, Join,
       EventInit, MakePipe, WatchPipe, CopySet, EnterSelect, Select, TurnEnd, Fire, Wakeup,
       Accept, CloseCommand, SendLock, SendPart, SendEnd, Connect, Die, TriggerEventLoop,
       Ready, ConnReady, EndOfStream, WritePart, loop, apps
<1>2. CASE Start
  BY <1>2, HubOK DEF Start, SentOK, apps
<1>3. CASE Check
  BY <1>3, HubOK DEF Check, SentOK, apps
<1>4. CASE HandleCommand
  BY <1>4, HubOK DEF HandleCommand, LoopOK, SentOK, apps
<1>5. CASE FillStream
  <2>1. eventFd \in Fds
    BY <1>5 DEF FillStream, SessionOK, Events
  <2>2. fds[eventFd] # NoConn => fds[eventFd] \in Conns
    BY <2>1 DEF AppsOK
  <2> QED
    BY <1>5, <2>2, HubOK DEF FillStream, SentOK, AppsOK
<1>6. CASE Leave
  BY <1>6, HubOK DEF Leave, SentOK
<1>7. ASSUME NEW w \in Writers, SendBegin(w) PROVE SentOK'
  BY <1>7, HubOK DEF SendBegin, SentOK, loop, apps
<1>8. ASSUME NEW c \in Conns, Send(c) PROVE SentOK'
  <2>1. count'.sent = count.sent + 1 /\ stream' = stream
    BY <1>8 DEF Send, loop
  <2>2. count.sent \in Nat /\ stream \in Nat
    BY HubOK DEF LoopOK
  <2>3. ASSUME NEW d \in Conns PROVE sock'[d] <= count'.sent
    <3>1. sock[d] \in Nat /\ sock[d] <= count.sent
      BY HubOK DEF AppsOK, SentOK
    <3>2. sock'[d] = sock[d] \/ sock'[d] = sock[d] + 1
      BY <1>8 DEF Send, AppsOK
    <3> QED
      BY <2>1, <2>2, <3>1, <3>2
  <2> QED
    BY <2>1, <2>2, <2>3 DEF SentOK
<1>9. CASE UNCHANGED <<stream, sock, count>>
  BY <1>9 DEF SentOK
<1> QED
  BY <1>1, <1>2, <1>3, <1>4, <1>5, <1>6, <1>7, <1>8, <1>9

\* How the positions go together.
LEMMA PlacesStep ==
  ASSUME IInv, [Next]_vars
  PROVE  PlacesOK'
<1> USE DEF IInv, TypeOK
<1>1. \/ Start \/ Stop \/ Register \/ AddListen \/ Trigger \/ Join \/ EventInit \/ MakePipe
      \/ WatchPipe \/ CopySet \/ EnterSelect \/ Select \/ TurnEnd
      \/ (\E e \in Events : Fire(e)) \/ Wakeup \/ Accept \/ Check \/ HandleCommand
      \/ FillStream \/ CloseCommand \/ Leave \/ (\E w \in Writers : SendBegin(w))
      \/ (\E w \in Writers : SendLock(w)) \/ (\E w \in Writers : SendPart(w))
      \/ (\E w \in Writers : SendEnd(w))
      \/ UNCHANGED <<dpc, pending, apc, watch, started, pipe, copied, writer>>
  BY DEF Next, Starting, Dispatch, Sending, vars, Connect, Send, Die, control, loop, wakeup,
       writing
<1>2. CASE Start
  BY <1>2 DEF Start, PlacesOK, Turn, Selects, Cycle, Events
<1>3. CASE Stop
  BY <1>3 DEF Stop, Writers, PlacesOK, Turn, Selects, Cycle, Events, loop, wakeup, writing
<1>4. CASE Register
  BY <1>4 DEF Register, PlacesOK, Turn, Selects, Cycle, Events, loop, wakeup, writing
<1>5. CASE AddListen
  BY <1>5 DEF AddListen, PlacesOK, Turn, Selects, Cycle, Events, wakeup, writing
<1>6. CASE Trigger
  BY <1>6 DEF Trigger, PlacesOK, Turn, Selects, Cycle, Events, loop, writing
<1>7. CASE Join
  BY <1>7 DEF Join, PlacesOK, Turn, Selects, Cycle, Events, wakeup, writing
<1>8. CASE EventInit
  BY <1>8 DEF EventInit, PlacesOK, Turn, Selects, Cycle, Events, wakeup, writing
<1>9. CASE MakePipe
  BY <1>9 DEF MakePipe, PlacesOK, Turn, Selects, Cycle, Events, control, writing
<1>10. CASE WatchPipe
  BY <1>10 DEF WatchPipe, PlacesOK, Turn, Selects, Cycle, Events, control, wakeup, writing
<1>11. CASE CopySet
  BY <1>11 DEF CopySet, PlacesOK, Turn, Selects, Cycle, Events, control, wakeup, writing
<1>12. CASE EnterSelect
  BY <1>12 DEF EnterSelect, PlacesOK, Turn, Selects, Cycle, Events, control, wakeup, writing
<1>13. CASE Select
  BY <1>13 DEF Select, Ready, ConnReady, PlacesOK, Turn, Selects, Cycle, Events, control,
       wakeup, writing
<1>14. CASE TurnEnd
  BY <1>14 DEF TurnEnd, PlacesOK, Turn, Selects, Cycle, Events, control, wakeup, writing
<1>15. ASSUME NEW e \in Events, Fire(e) PROVE PlacesOK'
  BY <1>15 DEF Fire, PlacesOK, Turn, Selects, Cycle, Events, control, wakeup, writing
<1>16. CASE Wakeup
  BY <1>16 DEF Wakeup, PlacesOK, Turn, Selects, Cycle, Events, control, wakeup, writing
<1>17. CASE Accept
  BY <1>17 DEF Accept, PlacesOK, Turn, Selects, Cycle, Events, control, wakeup, writing
<1>18. CASE Check
  BY <1>18 DEF Check, PlacesOK, Turn, Selects, Cycle, Events, control, wakeup, writing
<1>19. CASE HandleCommand
  BY <1>19 DEF HandleCommand, PlacesOK, Turn, Selects, Cycle, Events, control, wakeup,
       writing
<1>20. CASE FillStream
  BY <1>20 DEF FillStream, PlacesOK, Turn, Selects, Cycle, Events, control, wakeup, writing
<1>21. CASE CloseCommand
  BY <1>21 DEF CloseCommand, PlacesOK, Turn, Selects, Cycle, Events, control, wakeup,
       writing
<1>22. CASE Leave
  BY <1>22 DEF Leave, PlacesOK, Turn, Selects, Cycle, Events, control, writing
<1>23. ASSUME NEW w \in Writers, SendBegin(w) PROVE PlacesOK'
  BY <1>23 DEF SendBegin, SessionOK, LoopOK, WritingOK, Writers, NoFd, PlacesOK, Turn,
       Selects, Cycle, Events, control, loop, wakeup
<1>24. ASSUME NEW w \in Writers, SendLock(w) PROVE PlacesOK'
  BY <1>24 DEF SendLock, WritingOK, Writers, PlacesOK, Turn, Selects, Cycle, Events,
       control, loop, wakeup
<1>25. ASSUME NEW w \in Writers, SendPart(w) PROVE PlacesOK'
  BY <1>25 DEF SendPart, WritePart, WritingOK, Writers, PlacesOK, Turn, Selects, Cycle,
       Events, control, loop, wakeup
<1>26. ASSUME NEW w \in Writers, SendEnd(w) PROVE PlacesOK'
  BY <1>26 DEF SendEnd, WritingOK, Writers, NoFrame, PlacesOK, Turn, Selects, Cycle, Events,
       control, loop, wakeup
<1>27. CASE UNCHANGED <<dpc, pending, apc, watch, started, pipe, copied, writer>>
  BY <1>27 DEF PlacesOK, Turn, Selects, Cycle, Events
<1> QED
  BY <1>1, <1>2, <1>3, <1>4, <1>5, <1>6, <1>7, <1>8, <1>9, <1>10, <1>11, <1>12, <1>13,
       <1>14, <1>15, <1>16, <1>17, <1>18, <1>19, <1>20, <1>21, <1>22, <1>23, <1>24, <1>25,
       <1>26, <1>27

\* Where the session is.
LEMMA SessionStep ==
  ASSUME IInv, [Next]_vars
  PROVE  SessionOK'
<1> USE DEF IInv, TypeOK
<1>1. \/ Start \/ Stop \/ Register \/ AddListen \/ Trigger \/ Join \/ EventInit \/ MakePipe
      \/ WatchPipe \/ CopySet \/ EnterSelect \/ Select \/ TurnEnd
      \/ (\E e \in Events : Fire(e)) \/ Wakeup \/ Accept \/ Check \/ HandleCommand
      \/ FillStream \/ CloseCommand \/ Leave \/ (\E w \in Writers : SendBegin(w))
      \/ (\E w \in Writers : SendEnd(w)) \/ (\E c \in Conns : Connect(c))
      \/ UNCHANGED <<apc, watch, pending, dpc, listening, commandFd, eventFd, backlog>>
  BY DEF Next, Starting, Dispatch, Sending, vars, SendLock, SendPart, Send, Die, WritePart,
       control, loop, apps
<1>2. CASE Start
  BY <1>2 DEF Start, PlacesOK, SessionOK, Turn, Selects, Cycle, Events, apps
<1>3. CASE Stop
  BY <1>3 DEF Stop, SessionOK, Turn, Selects, Cycle, Events, loop, apps
<1>4. CASE Register
  BY <1>4 DEF Register, SessionOK, Turn, Selects, Cycle, Events, loop, apps
<1>5. CASE AddListen
  BY <1>5 DEF AddListen, SessionOK, Turn, Selects, Cycle, Events, apps
<1>6. CASE Trigger
  BY <1>6 DEF Trigger, SessionOK, Turn, Selects, Cycle, Events, loop, apps
<1>7. CASE Join
  BY <1>7 DEF Join, PlacesOK, SessionOK, Turn, Selects, Cycle, Events, apps
<1>8. CASE EventInit
  BY <1>8 DEF EventInit, PlacesOK, SessionOK, Turn, Selects, Cycle, Events, apps
<1>9. CASE MakePipe
  BY <1>9 DEF MakePipe, SessionOK, Turn, Selects, Cycle, Events, control, apps
<1>10. CASE WatchPipe
  BY <1>10 DEF WatchPipe, SessionOK, Turn, Selects, Cycle, Events, control, apps
<1>11. CASE CopySet
  BY <1>11 DEF CopySet, PlacesOK, SessionOK, Turn, Selects, Cycle, Events, control, apps
<1>12. CASE EnterSelect
  BY <1>12 DEF EnterSelect, PlacesOK, SessionOK, Turn, Selects, Cycle, Events, control, apps
<1>13. CASE Select
  BY <1>13 DEF Select, Ready, ConnReady, PlacesOK, SessionOK, Turn, Selects, Cycle, Events,
       control, apps
<1>14. CASE TurnEnd
  BY <1>14 DEF TurnEnd, PlacesOK, SessionOK, Turn, Selects, Cycle, Events, control, apps
<1>15. ASSUME NEW e \in Events, Fire(e) PROVE SessionOK'
  BY <1>15 DEF Fire, SessionOK, Turn, Selects, Cycle, Events, control, apps
<1>16. CASE Wakeup
  BY <1>16 DEF Wakeup, SessionOK, Turn, Selects, Cycle, Events, control, apps
<1>17. CASE Accept
  BY <1>17 DEF Accept, PlacesOK, Fds, NoConn, NoFd, SessionOK, Turn, Selects, Cycle, Events,
       control
<1>18. CASE Check
  BY <1>18 DEF Check, SessionOK, Turn, Selects, Cycle, Events, control, apps
<1>19. CASE HandleCommand
  BY <1>19 DEF HandleCommand, SessionOK, Turn, Selects, Cycle, Events, control, apps
<1>20. CASE FillStream
  BY <1>20 DEF FillStream, SessionOK, Turn, Selects, Cycle, Events, control
<1>21. CASE CloseCommand
  BY <1>21 DEF CloseCommand, SessionOK, Turn, Selects, Cycle, Events, control, apps
<1>22. CASE Leave
  BY <1>22 DEF Leave, PlacesOK, SessionOK, Turn, Selects, Cycle, Events, control
<1>23. ASSUME NEW w \in Writers, SendBegin(w) PROVE SessionOK'
  BY <1>23 DEF SendBegin, SessionOK, Turn, Selects, Cycle, Events, control, loop, apps
<1>24. ASSUME NEW w \in Writers, SendEnd(w) PROVE SessionOK'
  BY <1>24 DEF SendEnd, PlacesOK, Writers, SessionOK, Turn, Selects, Cycle, Events, control,
       loop, apps
<1>25. ASSUME NEW c \in Conns, Connect(c) PROVE SessionOK'
  BY <1>25 DEF Connect, AppsOK, SessionOK, Turn, Selects, Cycle, Events, control, loop
<1>26. CASE UNCHANGED <<apc, watch, pending, dpc, listening, commandFd, eventFd, backlog>>
  BY <1>26 DEF SessionOK, Turn, Selects, Cycle, Events
<1> QED
  BY <1>1, <1>2, <1>3, <1>4, <1>5, <1>6, <1>7, <1>8, <1>9, <1>10, <1>11, <1>12, <1>13,
       <1>14, <1>15, <1>16, <1>17, <1>18, <1>19, <1>20, <1>21, <1>22, <1>23, <1>24, <1>25,
       <1>26

\* That it is somewhere.
LEMMA KeptStep ==
  ASSUME IInv, [Next]_vars
  PROVE  SessionKept'
<1> USE DEF IInv, TypeOK
<1>1. \/ Start \/ Stop \/ Register \/ AddListen \/ Trigger \/ Join \/ EventInit \/ MakePipe
      \/ WatchPipe \/ CopySet \/ EnterSelect \/ Select \/ TurnEnd
      \/ (\E e \in Events : Fire(e)) \/ Wakeup \/ Accept \/ Check \/ HandleCommand
      \/ FillStream \/ CloseCommand \/ Leave \/ (\E w \in Writers : SendBegin(w))
      \/ (\E w \in Writers : SendEnd(w))
      \/ UNCHANGED <<listening, apc, dpc, watch, pending>>
  BY DEF Next, Starting, Dispatch, Sending, vars, SendLock, SendPart, Connect, Send, Die,
       WritePart, control, loop
<1>2. CASE Start
  BY <1>2 DEF Start, PlacesOK, SessionKept, SessionOK, Turn, Selects, Cycle, Events
<1>3. CASE Stop
  BY <1>3 DEF Stop, SessionKept, SessionOK, Turn, Selects, Cycle, Events, loop
<1>4. CASE Register
  BY <1>4 DEF Register, SessionKept, SessionOK, Turn, Selects, Cycle, Events, loop
<1>5. CASE AddListen
  BY <1>5 DEF AddListen, SessionKept, SessionOK, Turn, Selects, Cycle, Events
<1>6. CASE Trigger
  BY <1>6 DEF Trigger, SessionKept, SessionOK, Turn, Selects, Cycle, Events, loop
<1>7. CASE Join
  BY <1>7 DEF Join, PlacesOK, SessionKept, SessionOK, Turn, Selects, Cycle, Events
<1>8. CASE EventInit
  BY <1>8 DEF EventInit, PlacesOK, SessionKept, SessionOK, Turn, Selects, Cycle, Events
<1>9. CASE MakePipe
  BY <1>9 DEF MakePipe, SessionKept, SessionOK, Turn, Selects, Cycle, Events, control
<1>10. CASE WatchPipe
  BY <1>10 DEF WatchPipe, SessionKept, SessionOK, Turn, Selects, Cycle, Events, control
<1>11. CASE CopySet
  BY <1>11 DEF CopySet, SessionKept, SessionOK, Turn, Selects, Cycle, Events, control
<1>12. CASE EnterSelect
  BY <1>12 DEF EnterSelect, SessionKept, SessionOK, Turn, Selects, Cycle, Events, control
<1>13. CASE Select
  BY <1>13 DEF Select, Ready, ConnReady, PlacesOK, SessionKept, SessionOK, Turn, Selects,
       Cycle, Events, control
<1>14. CASE TurnEnd
  BY <1>14 DEF TurnEnd, SessionKept, SessionOK, Turn, Selects, Cycle, Events, control
<1>15. ASSUME NEW e \in Events, Fire(e) PROVE SessionKept'
  BY <1>15 DEF Fire, SessionKept, SessionOK, Turn, Selects, Cycle, Events, control
<1>16. CASE Wakeup
  BY <1>16 DEF Wakeup, SessionKept, SessionOK, Turn, Selects, Cycle, Events, control
<1>17. CASE Accept
  BY <1>17 DEF Accept, SessionKept, SessionOK, Turn, Selects, Cycle, Events, control
<1>18. CASE Check
  BY <1>18 DEF Check, SessionKept, SessionOK, Turn, Selects, Cycle, Events, control
<1>19. CASE HandleCommand
  BY <1>19 DEF HandleCommand, SessionKept, SessionOK, Turn, Selects, Cycle, Events, control
<1>20. CASE FillStream
  BY <1>20 DEF FillStream, SessionKept, SessionOK, Turn, Selects, Cycle, Events, control
<1>21. CASE CloseCommand
  BY <1>21 DEF CloseCommand, SessionKept, SessionOK, Turn, Selects, Cycle, Events, control
<1>22. CASE Leave
  BY <1>22 DEF Leave, PlacesOK, SessionKept, SessionOK, Turn, Selects, Cycle, Events,
       control
<1>23. ASSUME NEW w \in Writers, SendBegin(w) PROVE SessionKept'
  BY <1>23 DEF SendBegin, SessionKept, SessionOK, Turn, Selects, Cycle, Events, control,
       loop
<1>24. ASSUME NEW w \in Writers, SendEnd(w) PROVE SessionKept'
  BY <1>24 DEF SendEnd, PlacesOK, Writers, SessionKept, SessionOK, Turn, Selects, Cycle,
       Events, control, loop
<1>25. CASE UNCHANGED <<listening, apc, dpc, watch, pending>>
  BY <1>25 DEF SessionKept, SessionOK, Turn, Selects, Cycle, Events
<1> QED
  BY <1>1, <1>2, <1>3, <1>4, <1>5, <1>6, <1>7, <1>8, <1>9, <1>10, <1>11, <1>12, <1>13,
       <1>14, <1>15, <1>16, <1>17, <1>18, <1>19, <1>20, <1>21, <1>22, <1>23, <1>24, <1>25

\* From the copy to the sleep nothing is missed, if the hub is not stopped too early.
LEMMA InformedStep ==
  ASSUME IInv, Informed, ~EarlyStop, [Next]_vars
  PROVE  Informed'
<1> USE DEF IInv, TypeOK
<1>1. \/ Start \/ Stop \/ Register \/ AddListen \/ Trigger \/ Join \/ EventInit \/ MakePipe
      \/ WatchPipe \/ CopySet \/ EnterSelect \/ Select \/ TurnEnd
      \/ (\E e \in Events : Fire(e)) \/ Wakeup \/ Accept \/ Check \/ HandleCommand
      \/ FillStream \/ CloseCommand \/ Leave \/ (\E w \in Writers : SendBegin(w))
      \/ (\E w \in Writers : SendEnd(w))
      \/ UNCHANGED <<dpc, watch, copied, woken, apc, exit>>
  BY DEF Next, Starting, Dispatch, Sending, vars, SendLock, SendPart, Connect, Send, Die,
       WritePart, control, loop, wakeup
<1>2. CASE Start
  BY <1>2 DEF Start, Informed, Selects
<1>3. CASE Stop
  BY <1>3 DEF Stop, PlacesOK, StarterOK, Turn, Cycle, Informed, Selects, loop, wakeup
<1>4. CASE Register
  BY <1>4 DEF Register, Informed, Selects, loop, wakeup
<1>5. CASE AddListen
  BY <1>5 DEF AddListen, Informed, Selects, wakeup
<1>6. CASE Trigger
  BY <1>6 DEF Trigger, TriggerEventLoop, PlacesOK, Turn, Cycle, Informed, Selects, loop
<1>7. CASE Join
  BY <1>7 DEF Join, Informed, Selects, wakeup
<1>8. CASE EventInit
  BY <1>8 DEF EventInit, Informed, Selects, wakeup
<1>9. CASE MakePipe
  BY <1>9 DEF MakePipe, Informed, Selects, control
<1>10. CASE WatchPipe
  BY <1>10 DEF WatchPipe, Informed, Selects, control, wakeup
<1>11. CASE CopySet
  BY <1>11 DEF CopySet, Informed, Selects, control, wakeup
<1>12. CASE EnterSelect
  BY <1>12 DEF EnterSelect, Informed, Selects, control, wakeup
<1>13. CASE Select
  BY <1>13 DEF Select, Informed, Selects, control, wakeup
<1>14. CASE TurnEnd
  BY <1>14 DEF TurnEnd, Informed, Selects, control, wakeup
<1>15. ASSUME NEW e \in Events, Fire(e) PROVE Informed'
  BY <1>15 DEF Fire, Events, Informed, Selects, control, wakeup
<1>16. CASE Wakeup
  BY <1>16 DEF Wakeup, Informed, Selects, control, wakeup
<1>17. CASE Accept
  BY <1>17 DEF Accept, Informed, Selects, control, wakeup
<1>18. CASE Check
  BY <1>18 DEF Check, Informed, Selects, control, wakeup
<1>19. CASE HandleCommand
  BY <1>19 DEF HandleCommand, Informed, Selects, control, wakeup
<1>20. CASE FillStream
  BY <1>20 DEF FillStream, Informed, Selects, control, wakeup
<1>21. CASE CloseCommand
  BY <1>21 DEF CloseCommand, Informed, Selects, control, wakeup
<1>22. CASE Leave
  BY <1>22 DEF Leave, Informed, Selects, control
<1>23. ASSUME NEW w \in Writers, SendBegin(w) PROVE Informed'
  BY <1>23 DEF SendBegin, Informed, Selects, control, loop, wakeup
<1>24. ASSUME NEW w \in Writers, SendEnd(w) PROVE Informed'
  BY <1>24 DEF SendEnd, Informed, Selects, control, loop, wakeup
<1>25. CASE UNCHANGED <<dpc, watch, copied, woken, apc, exit>>
  BY <1>25 DEF Informed, Selects
<1> QED
  BY <1>1, <1>2, <1>3, <1>4, <1>5, <1>6, <1>7, <1>8, <1>9, <1>10, <1>11, <1>12, <1>13,
       <1>14, <1>15, <1>16, <1>17, <1>18, <1>19, <1>20, <1>21, <1>22, <1>23, <1>24, <1>25

\* A step that at most closes numbers, empties the backlog and ends connections.
Closes ==
  /\ \A n \in Fds : fds'[n] \in {fds[n], NoConn}
  /\ backlog' = backlog \/ Len(backlog') = 0
  /\ \A c \in Conns : \/ peer'[c] = peer[c]
                      \/ peer[c] # "none" /\ peer'[c] = "dead"

LEMMA ClosesConns ==
  ASSUME IInv, Closes,
         \A c \in Conns : last'[c] = last[c] \/ \E n \in Fds : fds[n] = c
  PROVE  NewOK' /\ WaitsOK' /\ NumbersOK'
<1>1. NewOK'
  BY DEF IInv, Closes, NewOK, Conns, NoConn
<1>2. WaitsOK'
  <2>1. \A i \in 1 .. Len(backlog) : backlog[i] \in Conns
    BY DEF IInv, TypeOK, AppsOK
  <2> QED
    BY <2>1 DEF IInv, Closes, WaitsOK
<1>3. NumbersOK'
  BY DEF IInv, Closes, NumbersOK
<1> QED
  BY <1>1, <1>2, <1>3

LEMMA ClosesFrames ==
  ASSUME IInv, Closes, last' = last, writer' = writer
  PROVE  FramesOK'
<1>1. ASSUME NEW n \in Fds PROVE Begun(n)'
  <2>1. Begun(n) /\ fds[n] \in Conns \cup {NoConn}
    BY DEF IInv, TypeOK, FramesOK, AppsOK
  <2> QED
    BY <2>1 DEF Closes, Begun
<1>2. ASSUME NEW w \in Writers PROVE Amid(w)'
  <2>1. CASE writer[w].pc # "write"
    BY <2>1 DEF Amid
  <2>2. CASE writer[w].pc = "write"
    <3>1. writer[w].fd \in Fds
      BY <2>2 DEF IInv, PlacesOK
    <3>2. Amid(w) /\ fds[writer[w].fd] \in Conns \cup {NoConn}
      BY <3>1 DEF IInv, TypeOK, FramesOK, AppsOK
    <3> QED
      BY <3>1, <3>2 DEF Closes, Amid
  <2> QED
    BY <2>1, <2>2
<1> QED
  BY <1>1, <1>2 DEF IInv, FramesOK

\* What is known of connections.
LEMMA ConnsStep ==
  ASSUME IInv, [Next]_vars
  PROVE  (NewOK /\ WaitsOK /\ NumbersOK)'
<1>1. \/ Accept \/ Check \/ CloseCommand \/ Leave \/ (\E w \in Writers : SendPart(w))
      \/ (\E c \in Conns : Connect(c)) \/ (\E c \in Conns : Die(c))
      \/ UNCHANGED <<peer, backlog, last, fds>>
  BY DEF Next, Starting, Dispatch, Sending, vars, Start, Stop, Register, AddListen, Trigger,
       Join, EventInit, MakePipe, WatchPipe, CopySet, EnterSelect, Select, TurnEnd, Fire,
       Wakeup, HandleCommand, FillStream, SendBegin, SendLock, SendEnd, Send,
       TriggerEventLoop, Ready, ConnReady, apps, writing
<1>2. CASE Accept
  <2> DEFINE c == Head(backlog)
  <2>1. backlog # <<>> /\ backlog \in Seq(Conns)
    BY <1>2 DEF Accept, SessionOK, IInv, TypeOK, AppsOK
  <2>2. /\ c = backlog[1] /\ c \in Conns /\ Len(backlog) \in Nat \ {0}
        /\ Len(backlog') = Len(backlog) - 1
        /\ \A i \in 1 .. Len(backlog') : i + 1 \in 2 .. Len(backlog) /\ backlog'[i] = backlog[i + 1]
    BY <1>2, <2>1 DEF Accept
  <2>3. fds' = fds \/ \E m \in Fds : fds[m] = NoConn /\ fds' = [fds EXCEPT ![m] = c]
    BY <1>2 DEF Accept
  <2>4. \A d \in Conns : \/ peer'[d] = peer[d]
                         \/ d = c /\ peer'[d] = "open" /\ peer[d] # "dead"
    <3>1. CASE peer' = peer
      BY <3>1
    <3>2. CASE peer' = [peer EXCEPT ![c] = IF peer[c] = "queued" THEN "open" ELSE peer[c]]
      BY <2>2, <3>2 DEF IInv, TypeOK, AppsOK
    <3> QED
      BY <1>2, <3>1, <3>2 DEF Accept
  <2>5. last' = last /\ writer' = writer
    BY <1>2 DEF Accept, writing
  <2>6. \A i \in 1 .. Len(backlog') : backlog'[i] # c
    BY <2>2 DEF IInv, WaitsOK
  <2>7. NewOK'
    <3> SUFFICES ASSUME NEW d \in Conns,
                        peer'[d] = "none" \/ \E i \in 1 .. Len(backlog') : backlog'[i] = d
                 PROVE  /\ last'[d] = [by |-> "nobody", part |-> 3]
                        /\ \A n \in Fds : fds'[n] # d
      BY DEF NewOK
    <3>1. d # c
      BY <1>2, <2>2, <2>4, <2>6 DEF IInv, WaitsOK
    <3>2. peer[d] = "none" \/ \E i \in 1 .. Len(backlog) : backlog[i] = d
      BY <2>2, <2>4, <3>1
    <3> QED
      BY <2>3, <2>5, <3>1, <3>2 DEF IInv, NewOK, TypeOK, AppsOK
  <2>8. WaitsOK'
    <3>1. ASSUME NEW i \in 1 .. Len(backlog') PROVE peer'[backlog'[i]] # "none"
      BY <2>1, <2>2, <2>4 DEF IInv, WaitsOK
    <3>2. ASSUME NEW i \in 1 .. Len(backlog'), NEW j \in 1 .. Len(backlog'),
                 backlog'[i] = backlog'[j]
          PROVE  i = j
      BY <2>2, <3>2 DEF IInv, WaitsOK
    <3> QED
      BY <3>1, <3>2 DEF WaitsOK
  <2>9. NumbersOK'
    <3>1. \A n \in Fds : fds[n] # c
      BY <2>2 DEF IInv, NewOK
    <3>2. CASE fds' = fds
      BY <3>2 DEF IInv, NumbersOK
    <3>3. ASSUME NEW m \in Fds, fds' = [fds EXCEPT ![m] = c] PROVE NumbersOK'
      <4>1. \A n \in Fds : fds'[n] = IF n = m THEN c ELSE fds[n]
        BY <3>3 DEF IInv, TypeOK, AppsOK
      <4> QED
        BY <3>1, <4>1 DEF IInv, NumbersOK
    <3> QED
      BY <2>3, <3>2, <3>3
  <2> QED
    BY <2>7, <2>8, <2>9
<1>3. CASE Check
  <2>1. Closes
    BY <1>3 DEF Closes, Check, IInv, TypeOK, AppsOK, apps
  <2> QED
    BY <1>3, <2>1, ClosesConns DEF Check, writing
<1>4. CASE CloseCommand
  <2>1. Closes
    BY <1>4 DEF Closes, CloseCommand, IInv, TypeOK, AppsOK, apps
  <2> QED
    BY <1>4, <2>1, ClosesConns DEF CloseCommand, writing
<1>5. CASE Leave
  <2>1. Closes
    BY <1>5 DEF Closes, Leave, IInv, TypeOK, AppsOK
  <2> QED
    BY <1>5, <2>1, ClosesConns DEF Leave, writing
<1>6. ASSUME NEW w \in Writers, SendPart(w) PROVE (NewOK /\ WaitsOK /\ NumbersOK)'
  <2>1. Closes
    BY <1>6 DEF Closes, SendPart, IInv, TypeOK, AppsOK, apps
  <2>2. writer[w].fd \in Fds
    BY <1>6 DEF SendPart, IInv, PlacesOK
  <2>3. \A c \in Conns : last'[c] = last[c] \/ c = fds[writer[w].fd]
    BY <1>6 DEF SendPart, IInv, TypeOK, WritingOK
  <2> QED
    BY <2>1, <2>2, <2>3, ClosesConns
<1>7. ASSUME NEW c \in Conns, Connect(c) PROVE (NewOK /\ WaitsOK /\ NumbersOK)'
  <2>1. /\ backlog \in Seq(Conns) /\ Len(backlog') = Len(backlog) + 1 /\ backlog'[Len(backlog')] = c
        /\ \A i \in 1 .. Len(backlog) : backlog'[i] = backlog[i]
    BY <1>7 DEF Connect, IInv, TypeOK, AppsOK
  <2>2. \A d \in Conns : peer'[d] = IF d = c THEN "queued" ELSE peer[d]
    BY <1>7 DEF Connect, IInv, TypeOK, AppsOK
  <2>3. NewOK'
    BY <1>7, <2>1, <2>2 DEF Connect, IInv, NewOK, writing
  <2>4. \A i \in 1 .. Len(backlog) : backlog[i] # c /\ backlog[i] \in Conns
    BY <1>7, <2>1 DEF Connect, IInv, WaitsOK
  <2>5. WaitsOK'
    BY <2>1, <2>2, <2>4 DEF IInv, WaitsOK
  <2> QED
    BY <1>7, <2>3, <2>5 DEF Connect, IInv, NumbersOK
<1>8. ASSUME NEW c \in Conns, Die(c) PROVE (NewOK /\ WaitsOK /\ NumbersOK)'
  BY <1>8 DEF Die, IInv, NewOK, WaitsOK, NumbersOK, writing
<1>9. CASE UNCHANGED <<peer, backlog, last, fds>>
  BY <1>9 DEF IInv, NewOK, WaitsOK, NumbersOK
<1> QED
  BY <1>1, <1>2, <1>3, <1>4, <1>5, <1>6, <1>7, <1>8, <1>9

\* What is known of frames.
LEMMA FramesStep ==
  ASSUME IInv, [Next]_vars
  PROVE  FramesOK'
<1>1. \/ Accept \/ Check \/ CloseCommand \/ Leave \/ (\E w \in Writers : SendBegin(w))
      \/ (\E w \in Writers : SendLock(w)) \/ (\E w \in Writers : SendPart(w))
      \/ (\E w \in Writers : SendEnd(w)) \/ (\E c \in Conns : Connect(c))
      \/ (\E c \in Conns : Die(c))
      \/ UNCHANGED <<last, fds, peer, writer>>
  BY DEF Next, Starting, Dispatch, Sending, vars, Start, Stop, Register, AddListen, Trigger,
       Join, EventInit, MakePipe, WatchPipe, CopySet, EnterSelect, Select, TurnEnd, Fire,
       Wakeup, HandleCommand, FillStream, Send, TriggerEventLoop, Ready, ConnReady, apps,
       writing
<1>2. CASE Accept
  <2> DEFINE c == Head(backlog)
  <2>1. backlog # <<>> /\ backlog \in Seq(Conns)
    BY <1>2 DEF Accept, SessionOK, IInv, TypeOK, AppsOK
  <2>2. /\ c = backlog[1] /\ c \in Conns /\ Len(backlog) \in Nat \ {0}
        /\ Len(backlog') = Len(backlog) - 1
        /\ \A i \in 1 .. Len(backlog') : i + 1 \in 2 .. Len(backlog) /\ backlog'[i] = backlog[i + 1]
    BY <1>2, <2>1 DEF Accept
  <2>3. fds' = fds \/ \E m \in Fds : fds[m] = NoConn /\ fds' = [fds EXCEPT ![m] = c]
    BY <1>2 DEF Accept
  <2>4. \A d \in Conns : \/ peer'[d] = peer[d]
                         \/ d = c /\ peer'[d] = "open" /\ peer[d] # "dead"
    <3>1. CASE peer' = peer
      BY <3>1
    <3>2. CASE peer' = [peer EXCEPT ![c] = IF peer[c] = "queued" THEN "open" ELSE peer[c]]
      BY <2>2, <3>2 DEF IInv, TypeOK, AppsOK
    <3> QED
      BY <1>2, <3>1, <3>2 DEF Accept
  <2>5. last' = last /\ writer' = writer
    BY <1>2 DEF Accept, writing
  <2>6. last[c].by = "nobody" /\ last[c].part = 3
    BY <2>2 DEF IInv, NewOK
  <2>7. ASSUME NEW n \in Fds PROVE Begun(n)'
    <3>1. fds'[n] = fds[n] \/ fds'[n] = c
      BY <2>3 DEF IInv, TypeOK, AppsOK
    <3>2. CASE fds'[n] = c
      BY <2>5, <2>6, <3>2 DEF Begun
    <3>3. CASE fds'[n] = fds[n]
      <4>1. Begun(n) /\ fds[n] \in Conns \cup {NoConn}
        BY DEF IInv, FramesOK, TypeOK, AppsOK
      <4> QED
        BY <2>4, <2>5, <3>3, <4>1 DEF Begun
    <3> QED
      BY <3>1, <3>2, <3>3
  <2>8. ASSUME NEW w \in Writers PROVE Amid(w)'
    <3> SUFFICES ASSUME writer[w].pc = "write" PROVE Amid(w)'
      BY <2>5 DEF Amid
    <3>1. writer[w].fd \in Fds /\ Amid(w)
      BY DEF IInv, PlacesOK, FramesOK
    <3>2. fds[writer[w].fd] \in Conns \cup {NoConn}
      BY <3>1 DEF IInv, TypeOK, AppsOK
    <3>3. fds'[writer[w].fd] = fds[writer[w].fd] \/ fds'[writer[w].fd] = c
      BY <2>3, <3>1 DEF IInv, TypeOK, AppsOK
    <3>4. CASE fds'[writer[w].fd] = c
      BY <2>5, <2>6, <3>4 DEF Amid
    <3>5. CASE fds'[writer[w].fd] = fds[writer[w].fd]
      BY <2>4, <2>5, <3>1, <3>2, <3>5 DEF Amid
    <3> QED
      BY <3>3, <3>4, <3>5
  <2> QED
    BY <2>5, <2>7, <2>8 DEF IInv, FramesOK
<1>3. CASE Check
  <2>1. Closes
    BY <1>3 DEF Closes, Check, IInv, TypeOK, AppsOK, apps
  <2> QED
    BY <1>3, <2>1, ClosesFrames DEF Check, writing
<1>4. CASE CloseCommand
  <2>1. Closes
    BY <1>4 DEF Closes, CloseCommand, IInv, TypeOK, AppsOK, apps
  <2> QED
    BY <1>4, <2>1, ClosesFrames DEF CloseCommand, writing
<1>5. CASE Leave
  <2>1. Closes
    BY <1>5 DEF Closes, Leave, IInv, TypeOK, AppsOK
  <2> QED
    BY <1>5, <2>1, ClosesFrames DEF Leave, writing
<1>6. ASSUME NEW w \in Writers, SendBegin(w) PROVE FramesOK'
  BY <1>6 DEF SendBegin, IInv, FramesOK, Begun, Amid, apps
<1>7. ASSUME NEW w \in Writers, SendLock(w) PROVE FramesOK'
  <2>1. writer' = [writer EXCEPT ![w].pc = "write"] /\ writer[w].pc = "lock" /\ writer[w].part = 1
    BY <1>7 DEF SendLock, IInv, PlacesOK
  <2>2. writer'[w].part = 1 /\ \A v \in Writers \ {w} : writer'[v] = writer[v]
    BY <2>1 DEF IInv, TypeOK, WritingOK
  <2>3. last' = last /\ fds' = fds /\ peer' = peer
    BY <1>7 DEF SendLock, apps
  <2>4. ASSUME NEW n \in Fds PROVE Begun(n)'
    <3>1. Begun(n) /\ (fds[n] # NoConn => last[fds[n]].by \in Writers \cup {"nobody"})
      BY DEF IInv, TypeOK, WritingOK, AppsOK, FramesOK
    <3>2. fds[n] # NoConn => last[fds[n]].by \in Writers \/ last[fds[n]].part = 3
      BY <3>1 DEF IInv, TypeOK, AppsOK, FramesOK
    <3> QED
      BY <2>1, <2>2, <2>3, <3>1, <3>2 DEF Begun
  <2>5. \A v \in Writers : Amid(v)'
    BY <2>2, <2>3 DEF IInv, FramesOK, Amid
  <2> QED
    BY <2>3, <2>4, <2>5 DEF IInv, FramesOK
<1>8. ASSUME NEW w \in Writers, SendPart(w) PROVE FramesOK'
  <2> DEFINE n == writer[w].fd
             p == writer[w].part
             c == fds[n]
  <2>1. n \in Fds /\ p \in 1 .. 3 /\ c \in Conns \cup {NoConn} /\ writer[w].pc = "write"
    BY <1>8 DEF SendPart, IInv, PlacesOK, TypeOK, WritingOK, AppsOK
  <2>2. \A v \in Writers : v # w => writer'[v] = writer[v] /\ writer[v].pc # "write"
    BY <1>8 DEF SendPart, WritePart, IInv, TypeOK, WritingOK
  <2>3. /\ writer'[w].fd = n
        /\ writer'[w].pc = "write" => writer'[w].part = p + 1
    BY <1>8 DEF SendPart, WritePart, IInv, TypeOK, WritingOK
  <2>4. peer' = peer
    BY <1>8 DEF SendPart, apps
  <2>5. CASE c # NoConn /\ peer[c] = "open"
    <3>1. fds' = fds /\ last' = [last EXCEPT ![c] = [by |-> w, part |-> p]]
      BY <1>8, <2>5 DEF SendPart
    <3>2. \A d \in Conns : last'[d] = IF d = c THEN [by |-> w, part |-> p] ELSE last[d]
      BY <3>1 DEF IInv, TypeOK, WritingOK
    <3>3. p < 3 => writer'[w].pc = "write" /\ writer'[w].part = p + 1
      BY <1>8, <2>1, <2>5 DEF SendPart, WritePart, IInv, TypeOK, WritingOK
    <3>4. ASSUME NEW m \in Fds PROVE Begun(m)'
      <4>1. CASE fds[m] = c
        <5>1. m = n
          BY <2>1, <2>5, <4>1 DEF IInv, NumbersOK
        <5> QED
          BY <2>1, <2>3, <2>5, <3>1, <3>2, <3>3, <5>1 DEF Begun
      <4>2. CASE fds[m] # c
        <5>1. Begun(m) /\ fds[m] \in Conns \cup {NoConn}
          BY DEF IInv, TypeOK, AppsOK, FramesOK
        <5>2. fds[m] # NoConn => \/ last[fds[m]].part = 3 \/ peer[fds[m]] = "dead"
          <6>1. m # n
            BY <4>2
          <6>2. fds[m] # NoConn => last[fds[m]].by \in Writers \/ last[fds[m]].part = 3
            BY <5>1 DEF IInv, TypeOK, WritingOK, FramesOK
          <6> QED
            BY <2>2, <5>1, <6>1, <6>2 DEF Begun
        <5> QED
          BY <2>4, <3>1, <3>2, <4>2, <5>1, <5>2 DEF Begun
      <4> QED
        BY <4>1, <4>2
    <3>5. ASSUME NEW v \in Writers PROVE Amid(v)'
      BY <2>1, <2>2, <2>3, <2>5, <3>1, <3>2 DEF Amid
    <3>6. \A d \in Conns : last'[d].by = "nobody" => last'[d].part = 3
      BY <3>2 DEF IInv, FramesOK, Writers
    <3> QED
      BY <3>4, <3>5, <3>6 DEF FramesOK
  <2>6. CASE ~(c # NoConn /\ peer[c] = "open")
    <3>1. last' = last /\ fds' = [fds EXCEPT ![n] = NoConn]
      BY <1>8, <2>6 DEF SendPart
    <3>2. \A m \in Fds : fds'[m] = IF m = n THEN NoConn ELSE fds[m]
      BY <3>1 DEF IInv, TypeOK, AppsOK
    <3>3. ASSUME NEW m \in Fds PROVE Begun(m)'
      <4>1. CASE m = n
        BY <3>2, <4>1 DEF Begun
      <4>2. CASE m # n
        <5>1. Begun(m) /\ fds[m] \in Conns \cup {NoConn}
          BY DEF IInv, TypeOK, AppsOK, FramesOK
        <5>2. fds[m] # NoConn => last[fds[m]].by \in Writers \/ last[fds[m]].part = 3
          BY <5>1 DEF IInv, TypeOK, WritingOK, FramesOK
        <5> QED
          BY <2>2, <2>4, <3>1, <3>2, <4>2, <5>1, <5>2 DEF Begun
      <4> QED
        BY <4>1, <4>2
    <3>4. ASSUME NEW v \in Writers PROVE Amid(v)'
      BY <2>1, <2>2, <2>3, <3>2 DEF Amid
    <3> QED
      BY <3>1, <3>3, <3>4 DEF IInv, FramesOK
  <2> QED
    BY <2>5, <2>6
<1>9. ASSUME NEW w \in Writers, SendEnd(w) PROVE FramesOK'
  <2>1. writer' = [writer EXCEPT ![w] = NoFrame] /\ writer[w].pc = "unlock"
    BY <1>9 DEF SendEnd
  <2>2. writer'[w].pc = "idle" /\ \A v \in Writers \ {w} : writer'[v] = writer[v]
    BY <2>1 DEF IInv, TypeOK, WritingOK, NoFrame
  <2>3. last' = last /\ fds' = fds /\ peer' = peer
    BY <1>9 DEF SendEnd, apps
  <2>4. ASSUME NEW n \in Fds PROVE Begun(n)'
    <3>1. Begun(n) /\ (fds[n] # NoConn => last[fds[n]].by \in Writers \cup {"nobody"})
      BY DEF IInv, TypeOK, WritingOK, AppsOK, FramesOK
    <3>2. fds[n] # NoConn => last[fds[n]].by \in Writers \/ last[fds[n]].part = 3
      BY <3>1 DEF IInv, TypeOK, AppsOK, FramesOK
    <3> QED
      BY <2>1, <2>2, <2>3, <3>1, <3>2 DEF Begun
  <2>5. \A v \in Writers : Amid(v)'
    BY <2>2, <2>3 DEF IInv, FramesOK, Amid
  <2> QED
    BY <2>3, <2>4, <2>5 DEF IInv, FramesOK
<1>10. ASSUME NEW c \in Conns, Connect(c) PROVE FramesOK'
  BY <1>10 DEF Connect, IInv, FramesOK, Begun, Amid, writing
<1>11. ASSUME NEW c \in Conns, Die(c) PROVE FramesOK'
  BY <1>11 DEF Die, IInv, FramesOK, Begun, Amid, writing
<1>12. CASE UNCHANGED <<last, fds, peer, writer>>
  BY <1>12 DEF IInv, FramesOK, Begun, Amid
<1> QED
  BY <1>1, <1>2, <1>3, <1>4, <1>5, <1>6, <1>7, <1>8, <1>9, <1>10, <1>11, <1>12

-----------------------------------------------------------------------------
LEMMA Initial == Init => IInv /\ Informed
<1> SUFFICES ASSUME Init PROVE IInv /\ Informed
  OBVIOUS
<1> USE DEF Init
<1>1. LoopOK /\ StarterOK
  <2>1. stream \in 0 .. MaxCommands
    BY HubOK
  <2> QED
    BY <2>1 DEF LoopOK, StarterOK
<1>2. AppsOK
  BY HubOK DEF AppsOK
<1>3. WritingOK
  BY DEF WritingOK, NoFrame, Writers
<1>4. TypeOK /\ SentOK
  BY <1>1, <1>2, <1>3, HubOK DEF TypeOK, SentOK
<1>5. PlacesOK /\ Informed
  BY DEF PlacesOK, Turn, Cycle, Selects, Events, NoFrame, Writers, Informed
<1>6. SessionOK /\ SessionKept
  BY DEF SessionOK, SessionKept, Cycle, Turn, Selects, Events
<1>7. NewOK /\ WaitsOK /\ NumbersOK
  BY DEF NewOK, WaitsOK, NumbersOK, Conns, NoConn
<1>8. FramesOK
  BY DEF FramesOK, Begun, Amid, NoFrame
<1> QED
  BY <1>4, <1>5, <1>6, <1>7, <1>8 DEF IInv

LEMMA Step ==
  ASSUME IInv, [Next]_vars
  PROVE  IInv'
<1>1. TypeOK'
  BY LoopStep, StarterStep, AppsStep, WritingStep, CountStep DEF TypeOK, CountOK
<1> QED
  BY <1>1, PlacesStep, SentStep, SessionStep, KeptStep, ConnsStep, FramesStep DEF IInv

LEMMA Inductive == Spec => []IInv
<1>1. IInv /\ [Next]_vars => IInv'
  BY Step
<1> QED
  BY <1>1, Initial, PTL DEF Spec

\* The hub stays within its types; in particular m_write_mutex has one holder.
THEOREM TypeCorrect == Spec => []TypeOK
<1>1. IInv => TypeOK
  BY DEF IInv
<1> QED
  BY <1>1, Inductive, PTL

\* _ext_hub_listen_callback and _ext_hub_process_command_callback hand the session
\* over to each other: the loop watches one connection or the listening socket,
\* never both and never neither, and m_command_fd is that of the watched event.
THEOREM SessionsApart == Spec => []OneSession
<1>1. IInv => OneSession
  <2> SUFFICES ASSUME IInv PROVE OneSession
    OBVIOUS
  <2>1. "command" \in watch /\ dpc # "ended" =>
          "listen" \notin watch /\ commandFd = eventFd /\ commandFd # NoFd
    BY DEF IInv, SessionOK, Fds, NoFd
  <2>2. dpc = "select" => pending = {}
    BY DEF IInv, PlacesOK, Turn, Events
  <2>3. dpc = "select" /\ apc = "running" /\ listening =>
          watch \cap {"listen", "command"} # {}
    BY <2>2 DEF IInv, SessionKept, Cycle, Selects
  <2> QED
    BY <2>1, <2>3 DEF OneSession
<1> QED
  BY <1>1, Inductive, PTL

\* If the hub is not stopped before its thread has made the wakeup pipe, the loop
\* never sleeps in select without knowing of the listening socket that
\* silfp_ext_event_add has added, or of the order to leave.
THEOREM SleepInformed ==
  ASSUME ~EarlyStop
  PROVE  Spec => []SleepsInformed
<1>1. IInv /\ Informed /\ [Next]_vars => Informed'
  BY InformedStep
<1>2. IInv /\ Informed => SleepsInformed
  BY DEF IInv, Informed, SleepsInformed, PlacesOK, Selects
<1>3. Spec => []Informed
  BY <1>1, Initial, Inductive, PTL DEF Spec
<1> QED
  BY <1>2, <1>3, Inductive, PTL

\* Only a writer of an answer writes.
LEMMA OthersSilent ==
  ASSUME [Next]_vars, \A w \in Writers : ~SendPart(w)
  PROVE  last' = last
BY DEF Next, Starting, Dispatch, Sending, Start, Stop, Register, AddListen, Trigger, Join,
       EventInit, MakePipe, WatchPipe, CopySet, EnterSelect, Select, TurnEnd, Fire, Wakeup,
       Accept, Check, HandleCommand, FillStream, CloseCommand, Leave, SendBegin, SendLock,
       SendEnd, Connect, Send, Die, vars, writing

\* silfp_ext_hub_send_response_raw keeps the three writes of a frame together on
\* every connection, although its descriptor may be closed and reused meanwhile.
THEOREM FramesKept == Spec => FramesTogether
<1>1. ASSUME IInv, [Next]_vars, NEW c \in Conns, last'[c] # last[c]
      PROVE  Follows(last[c], last'[c])
  <2>1. PICK w \in Writers : SendPart(w)
    BY <1>1, OthersSilent
  <2> DEFINE n == writer[w].fd
             p == writer[w].part
  <2>2. n \in Fds /\ p \in 1 .. 3 /\ writer[w].pc = "write"
    BY <1>1, <2>1 DEF SendPart, IInv, PlacesOK, TypeOK, WritingOK
  <2>3. fds[n] = c /\ peer[c] = "open" /\ last' = [last EXCEPT ![c] = [by |-> w, part |-> p]]
    BY <1>1, <2>1 DEF SendPart, IInv, TypeOK, WritingOK
  <2>4. last'[c] = [by |-> w, part |-> p]
    BY <1>1, <2>3 DEF IInv, TypeOK, WritingOK
  <2>5. c # NoConn /\ last[c].part \in 1 .. 3 /\ last[c].by \in Writers \cup {"nobody"}
    BY <1>1 DEF IInv, TypeOK, WritingOK, Conns, NoConn
  <2>6. CASE last[c].part < 3
    <3>1. LET v == last[c].by IN v \in Writers /\ writer[v].pc = "write"
                                 /\ writer[v].part = last[c].part + 1
      BY <1>1, <2>2, <2>3, <2>5, <2>6 DEF IInv, FramesOK, Begun
    <3>2. last[c].by = w
      BY <1>1, <2>2, <3>1 DEF IInv, TypeOK, WritingOK
    <3> QED
      BY <2>4, <2>6, <3>1, <3>2 DEF Follows
  <2>7. CASE last[c].part = 3
    <3>1. p = 1 \/ last[c].by = "nobody"
      BY <1>1, <2>2, <2>3, <2>5, <2>7 DEF IInv, FramesOK, Amid
    <3> QED
      BY <2>4, <2>7, <3>1 DEF Follows
  <2> QED
    BY <2>5, <2>6, <2>7
<1>2. IInv /\ [Next]_vars =>
        [\A c \in Conns : last'[c] # last[c] => Follows(last[c], last'[c])]_vars
  BY <1>1
<1> QED
  BY <1>2, Inductive, PTL DEF Spec, FramesTogether
=============================================================================
