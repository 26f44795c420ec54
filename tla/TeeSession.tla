---------------------------- MODULE TeeSession ----------------------------
(***************************************************************************)
(* Opening and closing the session with the trusted application:           *)
(* silead_ca_entry.c, the four backends with the libraries they load, and  *)
(* qsee's extensions: the listener thread that gives the TA access to the  *)
(* SPI device, and the memory lent to the TA.                              *)
(*                                                                         *)
(* One thread opens, sends and closes.  The listener is a thread of its    *)
(* own that exists while the feature "cb" is on.  The TA (external) works  *)
(* on one command and may ask the listener for something before it         *)
(* answers.  What is sent is left out here and is in TeeSend.              *)
(*                                                                         *)
(* A resource is in "held" from where the code gets it to where it gives   *)
(* it back.  Giving back what is not held is undefined behaviour of the C  *)
(* program (a second pthread_join, a mutex destroyed twice, a call through *)
(* a freed table): it is recorded in "bad" and the program goes on.        *)
(***************************************************************************)
EXTENDS Naturals, Sequences

CONSTANTS
  Chains,   \* the backends of a build, in the order they are tried
  MaxOpens  \* bound on the number of times the session is opened

ASSUME SessionOK ==
  /\ Chains \subseteq Seq({"qsee", "gp", "tee", "nosec"}) \ {<<>>}
  /\ MaxOpens \in Nat

Features  == {"cb", "mem"}
Lent      == {"spilib", "sem", "ion", "thread", "memion"}
Resources == {"lock", "lib", "app", "km", "ctx", "session", "dev", "tci", "trustlet"} \cup Lent

\* m_fp_handle is set.
Handle == {"app", "session", "trustlet"}
-----------------------------------------------------------------------------
(***************************************************************************)
(* The backends                                                            *)
(***************************************************************************)
\* Loading a vendor's library takes a record, the library and its table of
\* functions; a failure gives back all of it.  Without memory for the record
\* that way out reads it through NULL, except qsee's.
QseeLibrary  == [got |-> "lib", broken |-> {}]
GpLibrary    == [got |-> "lib", broken |-> {"null"}]
TeeLibrary   == [got |-> "lib", broken |-> {"null"}]
NosecLibrary == [got |-> "lib", broken |-> {"null"}]
SpiLibrary   == [got |-> "spilib", broken |-> {"null"}]

Library(b) ==
  CASE b = "qsee" -> QseeLibrary [] b = "gp" -> GpLibrary [] b = "tee" -> TeeLibrary
    [] b = "nosec" -> NosecLibrary

\* The other steps of opening, and what each of them gets.
OpenQsee  == <<"app", "info">>
OpenGp    == <<"ctx", "session">>
OpenTee   == <<"dev", "tci", "trustlet">>
OpenNosec == <<>>
Steps(b) ==
  <<Library(b).got>> \o
  CASE b = "qsee" -> OpenQsee [] b = "gp" -> OpenGp [] b = "tee" -> OpenTee
    [] b = "nosec" -> OpenNosec

\* What closing gives back when m_fp_handle is set.
CloseQsee  == {"app"}
CloseGp    == {"session", "ctx"}
CloseTee   == {"trustlet", "dev", "tci"}
CloseNosec == {}
Closes(b) ==
  CASE b = "qsee" -> CloseQsee [] b = "gp" -> CloseGp [] b = "tee" -> CloseTee
    [] b = "nosec" -> CloseNosec
-----------------------------------------------------------------------------
VARIABLES
  chain,    \* the backends built in
  pc,       \* position of the thread that opens and closes
  at,       \* the backend registered last, as an index of chain
  step,     \* the next step of opening it
  after,    \* where closing it leads: "next", "again" or "down"
  held,     \* resources that have not been given back
  feature,  \* m_qsee_feature_value
  table,    \* m_qsee_handle of the extensions: "null", "live" or "dangling"
  exit,     \* m_exit
  lst,      \* position of the listener thread
  ready,    \* m_sem
  fd,       \* m_spi_fd is open
  ta,       \* what the TA does: "idle", "run", "ask" or "given"
  ask,      \* what it asks the listener for
  opens,    \* number of times the session was opened so far
  failed,   \* a backend could not be opened so far
  spoilt,   \* the listener's registration or a receive failed, or the TA sent EXIT
  bad       \* releases of what was not held so far

opening == <<chain, at, step, after, opens, failed>>
ext     == <<feature, table, exit, ready>>
spi     == <<lst, fd, spoilt>>
tee     == <<ta, ask>>
vars    == <<opening, pc, held, ext, spi, tee, bad>>

Backend == chain[at]
Open    == held \cap Handle # {}
Alive   == {"check", "receive", "serve", "resp"}
-----------------------------------------------------------------------------
(***************************************************************************)
(* Opening                                                                 *)
(***************************************************************************)
\* silfp_ca_open
CaOpen ==
  /\ pc = "down" /\ opens < MaxOpens
  /\ opens' = opens + 1
  /\ pc' = "register" /\ at' = 1
  /\ UNCHANGED <<chain, step, after, failed, held, ext, spi, tee, bad>>

\* silfp_ca_<backend>_register, to mutex_init.
Register ==
  /\ pc = "register"
  /\ pc' = "open" /\ step' = 1
  /\ held' = held \cup {"lock"}
  /\ UNCHANGED <<chain, at, after, opens, failed, ext, spi, tee, bad>>

\* A backend that cannot be opened is closed, and the next one is tried.
Undo == pc' = "close" /\ after' = "next" /\ failed' = TRUE

\* What a step that fails gives back itself: _tlcOpen all it has got, while gp
\* keeps its context.
TlcOpenFails == held \ {"dev", "tci"}
StepFails    == IF Backend = "tee" THEN TlcOpenFails ELSE held

\* One step of _ca_open: a library, a session, a trustlet.
OpenStep ==
  /\ pc = "open" /\ step <= Len(Steps(Backend))
  /\ \/ /\ held' = held \cup ({Steps(Backend)[step]} \ {"info"})
        /\ step' = step + 1
        /\ UNCHANGED <<pc, after, failed, bad>>
     \/ /\ Undo
        /\ held' = StepFails
        /\ bad' \in IF step = 1 THEN {bad, bad \cup Library(Backend).broken} ELSE {bad}
        /\ UNCHANGED step
  /\ UNCHANGED <<chain, at, opens, ext, spi, tee>>

Opened ==
  /\ pc = "open" /\ step > Len(Steps(Backend))
  /\ pc' = IF Backend = "qsee" THEN "query" ELSE "up"
  /\ UNCHANGED <<opening, held, ext, spi, tee, bad>>

Extensions == IF "cb" \in feature' THEN "spilib" ELSE IF "mem" \in feature' THEN "memion" ELSE "up"

\* Fault: when the query fails the features of the last session stay.
Query_Keeps ==
  /\ pc = "query"
  /\ \/ feature' \in SUBSET Features /\ pc' = Extensions
     \/ UNCHANGED feature /\ pc' = "up"
  /\ UNCHANGED <<opening, held, table, exit, ready, spi, tee, bad>>

\* silfp_ext_qsee_init: the TA is asked for its features; a failure means none.
Query ==
  /\ pc = "query"
  /\ feature' \in SUBSET Features
  /\ pc' = Extensions
  /\ UNCHANGED <<opening, held, table, exit, ready, spi, tee, bad>>

\* The library for SPI, the memory for frames, the memory lent to the TA: one
\* allocation each, tried twice where it is memory.
Lend(here, next, what) ==
  /\ pc = here
  /\ \/ /\ held' = held \cup what
        /\ pc' = next
        /\ UNCHANGED <<after, failed>>
     \/ Undo /\ UNCHANGED held
  /\ UNCHANGED <<chain, at, step, opens>>

SpiLib ==
  /\ Lend("spilib", "ion", {SpiLibrary.got, "sem"})
  /\ IF pc' = "ion"
       THEN table' = [table EXCEPT !["cb"] = "live"] /\ ready' = 0 /\ UNCHANGED bad
       ELSE bad' \in {bad, bad \cup SpiLibrary.broken} /\ UNCHANGED <<table, ready>>
  /\ UNCHANGED <<feature, exit, spi, tee>>

\* An allocation that fails midway gives back what it got.
Ion == Lend("ion", "thread", {"ion"}) /\ UNCHANGED <<ext, spi, tee, bad>>

\* pthread_create; an error is a positive number, which "ret < 0" does not see.
Thread ==
  /\ pc = "thread"
  /\ pc' = "wait"
  /\ \/ held' = held \cup {"thread"} /\ lst' = "start"
     \/ UNCHANGED <<held, lst>>
  /\ UNCHANGED <<opening, ext, fd, spoilt, tee, bad>>

Send(here) == pc' = here /\ ta' = "run"

\* sem_wait, then INIT_UNK_1.
Wait ==
  /\ pc = "wait" /\ ready > 0
  /\ ready' = ready - 1
  /\ Send("initcb")
  /\ UNCHANGED <<opening, held, feature, table, exit, spi, ask, bad>>

MemIon ==
  /\ Lend("memion", "initmem", {"memion"})
  /\ table' = [table EXCEPT !["mem"] = "live"]
  /\ ta' = IF pc' = "initmem" THEN "run" ELSE ta
  /\ UNCHANGED <<feature, exit, ready, spi, ask, bad>>
-----------------------------------------------------------------------------
(***************************************************************************)
(* Closing                                                                 *)
(***************************************************************************)
\* fp_tz_deinit of a session that is up: the TA is told, then it is closed.
CaClose ==
  /\ pc = "up"
  /\ Send("deinit") /\ after' = "down"
  /\ UNCHANGED <<chain, at, step, opens, failed, held, ext, spi, ask, bad>>

Cb == Backend = "qsee" /\ "cb" \in feature

\* silfp_cb_qsee_deinit: m_exit is set and DEINIT_UNK_1 sent, if there is a
\* session to send it on.
CloseCb ==
  /\ pc = "close" /\ Cb
  /\ exit' = TRUE
  /\ IF Open THEN Send("deinitcb") ELSE pc' = "join" /\ UNCHANGED ta
  /\ UNCHANGED <<opening, held, feature, table, ready, spi, ask, bad>>

\* Memory is freed through the table of the session it came from; what has been
\* freed, or was never there, is not freed again.
Freed(f, what) == IF table[f] = "live" THEN {what} ELSE {}

\* pthread_join, and what the listener used goes.
Join ==
  /\ pc = "join" /\ ("thread" \in held => lst = "ended")
  /\ held' = held \ ({"thread", "sem", SpiLibrary.got} \cup Freed("cb", "ion"))
  /\ bad' = bad \cup ({"thread", "sem"} \ held)
                \cup IF table["cb"] = "dangling" THEN {"table"} ELSE {}
  /\ pc' = "closemem"
  /\ UNCHANGED <<opening, ext, spi, tee>>

Mem == Backend = "qsee" /\ "mem" \in feature

\* silfp_qsee_custom_mem_deinit: DEINIT_UNK_2, then the memory goes.
CloseMem ==
  /\ (pc = "close" /\ ~ Cb) \/ pc = "closemem"
  /\ IF Mem /\ Open THEN Send("deinitmem") ELSE pc' = "rest" /\ UNCHANGED ta
  /\ UNCHANGED <<opening, held, ext, spi, ask, bad>>

\* Fault: a trustlet that was opened is left open.
Session_Library == {"lib", "lock"}

\* _ca_close: without m_fp_handle only the library and the lock.
Session == {"lib", "lock"} \cup IF Open THEN Closes(Backend) ELSE {}

\* The session, the library, the lock; then the next backend, or, when no
\* backend could be opened, silfp_get_impl_handler closes the last one again.
Rest ==
  /\ pc = "rest"
  /\ held' = held \ (Session \cup IF Mem THEN Freed("mem", "memion") ELSE {})
  /\ bad' = bad \cup ({"lock"} \ held)
                \cup IF Mem /\ table["mem"] = "dangling" THEN {"table"} ELSE {}
  /\ table' = IF "lib" \in held /\ Backend = "qsee"
                THEN [f \in Features |-> IF table[f] = "live" THEN "dangling" ELSE table[f]]
                ELSE table
  /\ \/ after = "next" /\ at < Len(chain) /\ pc' = "register" /\ at' = at + 1
        /\ UNCHANGED after
     \/ after = "next" /\ at = Len(chain) /\ pc' = "close" /\ after' = "again" /\ UNCHANGED at
     \/ after \in {"again", "down"} /\ pc' = "down" /\ UNCHANGED <<at, after>>
  /\ UNCHANGED <<chain, step, opens, failed, feature, exit, ready, spi, tee>>
-----------------------------------------------------------------------------
(***************************************************************************)
(* Commands and the TA                                                     *)
(***************************************************************************)
Command ==
  /\ pc = "up"
  /\ Send("command")
  /\ UNCHANGED <<opening, held, ext, spi, ask, bad>>

\* _ca_keymaster_get, in the course of init2: a second application is loaded for
\* the key, asked and shut down; whatever came of it, the TA is told.
KeymasterLoad ==
  /\ pc = "up" /\ Backend = "qsee"
  /\ pc' = "km"
  /\ held' = held \cup {"km"}
  /\ UNCHANGED <<opening, ext, spi, tee, bad>>

KeymasterGet ==
  /\ pc = "km"
  /\ held' = held \ {"km"}
  /\ Send("command")
  /\ UNCHANGED <<opening, ext, spi, ask, bad>>

\* The TA asks the listener, if there is one it knows.
TaAsk ==
  /\ ta = "run" /\ lst \in Alive
  /\ ta' = "ask"
  /\ ask' \in {"open", "io", "exit"}
  /\ UNCHANGED <<opening, pc, held, ext, spi, bad>>

\* The TA ends the command; initialising may be refused.
TaEnd ==
  /\ ta = "run"
  /\ ta' = "idle"
  /\ \/ /\ \/ pc = "command" /\ pc' = "up"
           \/ pc = "initcb" /\ pc' = IF "mem" \in feature THEN "memion" ELSE "up"
           \/ pc = "initmem" /\ pc' = "up"
           \/ pc = "deinit" /\ pc' = "close"
           \/ pc = "deinitcb" /\ pc' = "join"
           \/ pc = "deinitmem" /\ pc' = "rest"
        /\ UNCHANGED <<after, failed>>
     \/ pc \in {"initcb", "initmem"} /\ Undo
  /\ UNCHANGED <<chain, at, step, opens, held, ext, spi, ask, bad>>
-----------------------------------------------------------------------------
(***************************************************************************)
(* The listener                                                            *)
(***************************************************************************)
\* Fault: a listener that cannot register leaves without saying so.
LstRegister_Silent ==
  /\ lst = "start"
  /\ \/ lst' = "check" /\ ready' = ready + 1 /\ UNCHANGED spoilt
     \/ lst' = "leave" /\ spoilt' = TRUE /\ UNCHANGED ready
  /\ UNCHANGED <<opening, pc, held, feature, table, exit, fd, tee, bad>>

\* It registers with the TA and tells the opener, also when that failed.
LstRegister ==
  /\ lst = "start"
  /\ \/ lst' = "check" /\ UNCHANGED spoilt
     \/ lst' = "leave" /\ spoilt' = TRUE
  /\ ready' = ready + 1
  /\ UNCHANGED <<opening, pc, held, feature, table, exit, fd, tee, bad>>

LstCheck ==
  /\ lst = "check"
  /\ lst' = IF exit THEN "leave" ELSE "receive"
  /\ UNCHANGED <<opening, pc, held, ext, fd, spoilt, tee, bad>>

\* QSEECom_receive_req, which waits for the TA, or fails.
LstReceive ==
  /\ lst = "receive"
  /\ \/ ta = "ask" /\ ta' = "given" /\ lst' = "serve" /\ UNCHANGED spoilt
     \/ lst' = "leave" /\ spoilt' = TRUE /\ UNCHANGED ta
  /\ UNCHANGED <<opening, pc, held, ext, fd, ask, bad>>

\* Fault: OPEN falls through to EXIT.
LstServe_Falls ==
  /\ lst = "serve"
  /\ lst' = "resp"
  /\ \/ ask \in {"open", "exit"} /\ fd' = FALSE /\ exit' = TRUE /\ spoilt' = (ask = "exit")
     \/ ask = "io" /\ UNCHANGED <<fd, exit, spoilt>>
  /\ UNCHANGED <<opening, pc, held, feature, table, ready, tee, bad>>

\* The requests, carried out on the SPI device.  OPEN leaves an open device alone.
CbOpen  == ask = "open" /\ fd' \in {fd, TRUE} /\ UNCHANGED <<exit, spoilt>>
CbClose == ask = "exit" /\ fd' = FALSE /\ exit' = TRUE /\ spoilt' = TRUE
CbIo    == ask = "io" /\ UNCHANGED <<fd, exit, spoilt>>

LstServe ==
  /\ lst = "serve"
  /\ lst' = "resp"
  /\ CbOpen \/ CbClose \/ CbIo
  /\ UNCHANGED <<opening, pc, held, feature, table, ready, tee, bad>>

LstRespond ==
  /\ lst = "resp"
  /\ ta' = "run" /\ lst' = "check"
  /\ UNCHANGED <<opening, pc, held, ext, fd, spoilt, ask, bad>>

\* It unregisters; a request nobody received is returned to the TA.
LstLeave ==
  /\ lst = "leave"
  /\ lst' = "ended"
  /\ ta' = IF ta = "ask" THEN "run" ELSE ta
  /\ UNCHANGED <<opening, pc, held, ext, fd, spoilt, ask, bad>>
-----------------------------------------------------------------------------
Init ==
  /\ chain \in Chains
  /\ pc = "down" /\ at = 1 /\ step = 1 /\ after = "down"
  /\ held = {} /\ feature = {} /\ table = [f \in Features |-> "null"]
  /\ exit = FALSE /\ lst = "none" /\ ready = 0 /\ fd = FALSE
  /\ ta = "idle" /\ ask = "io"
  /\ opens = 0 /\ failed = FALSE /\ spoilt = FALSE /\ bad = {}

Opener ==
  CaOpen \/ Register \/ OpenStep \/ Opened \/ Query \/ SpiLib \/ Ion \/ Thread \/ Wait
  \/ MemIon \/ KeymasterGet \/ CloseCb \/ Join \/ CloseMem \/ Rest

Listener ==
  LstRegister \/ LstCheck \/ LstReceive \/ LstServe \/ LstRespond \/ LstLeave

Next == Opener \/ CaClose \/ Command \/ KeymasterLoad \/ TaAsk \/ TaEnd \/ Listener

\* Threads run, and the TA ends a command however often it asks.  Nobody has to
\* use or close a session that is up, and a receive need not fail.
Spec ==
  /\ Init /\ [][Next]_vars
  /\ WF_vars(Opener) /\ SF_vars(TaEnd)
  /\ WF_vars(LstRegister \/ LstCheck \/ LstServe \/ LstRespond \/ LstLeave)
  /\ WF_vars(LstReceive /\ ta = "ask")
-----------------------------------------------------------------------------
(***************************************************************************)
(* Properties                                                              *)
(***************************************************************************)
\* Types of the state: positions, resources, and what the TA does.
TypeOK ==
  /\ chain \in Chains /\ at \in 1 .. Len(chain) /\ step \in 1 .. 5
  /\ pc \in {"down", "register", "open", "query", "spilib", "ion", "thread", "wait", "initcb",
             "memion", "initmem", "up", "command", "km", "deinit", "close", "deinitcb", "join", "closemem",
             "deinitmem", "rest"}
  /\ after \in {"next", "again", "down"} /\ held \subseteq Resources
  /\ feature \subseteq Features /\ table \in [Features -> {"null", "live", "dangling"}]
  /\ exit \in BOOLEAN /\ lst \in Alive \cup {"none", "start", "leave", "ended"}
  /\ ready \in 0 .. 1 /\ fd \in BOOLEAN
  /\ ta \in {"idle", "run", "ask", "given"} /\ ask \in {"open", "io", "exit"}
  /\ opens \in 0 .. MaxOpens /\ failed \in BOOLEAN /\ spoilt \in BOOLEAN
  /\ bad \subseteq {"thread", "sem", "table", "lock", "null"}

\* When the session is down nothing is held, whichever step of whichever
\* backend failed, and while it is up nothing of another backend is.  The
\* exception is the context gp keeps when its session cannot be opened.
OneSession ==
  /\ pc = "down" => held \subseteq {"ctx"}
  /\ pc = "up" => held \subseteq {"lock", "ctx"} \cup {Steps(Backend)[i] : i \in 1 .. Len(Steps(Backend))}
                              \cup IF Backend = "qsee" THEN Lent ELSE {}

\* As long as every backend that was tried could be opened, nothing is given
\* back twice, however often the session is opened and closed.
ReleasedOnce == bad # {} => failed

\* While a session with callbacks is up the TA finds its listener, if it is the
\* first session of the process: m_exit is never cleared, so the listener of a
\* later one leaves at once.
ListenerServes ==
  (pc \in {"up", "command"} /\ Cb /\ opens = 1 /\ ~ failed /\ ~ spoilt) => lst \in Alive

\* Opening and closing end.  Opening does not when the listener's thread could
\* not be created, and closing waits for a listener whose receive nothing ends
\* when the TA has not asked it to leave.
CallsEnd ==
  pc \notin {"down", "up"} ~>
    \/ pc \in {"down", "up"}
    \/ pc = "wait" /\ "thread" \notin held
    \/ pc = "join" /\ lst = "receive"
=============================================================================
