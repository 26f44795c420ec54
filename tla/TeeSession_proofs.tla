------------------------- MODULE TeeSession_proofs -------------------------
(***************************************************************************)
(* Proofs about TeeSession: the types, what is held when a session is down *)
(* or up, that nothing is given back twice, and that the listener is there.*)
(***************************************************************************)
EXTENDS TeeSession, TLAPS

Backends == {"qsee", "gp", "tee", "nosec"}

\* What opening a backend gets.
Got(b) == {Steps(b)[i] : i \in 1 .. Len(Steps(b))}

\* Positions, by what is held there.
Outside   == {"down", "register"}
Before    == Outside \cup {"open", "query"}                     \* nothing is lent yet
Starting  == {"ion", "thread", "wait"}                          \* the listener is being set up
Running   == {"initcb", "memion", "initmem", "up", "command", "km", "deinit"}
Closing   == {"close", "deinitcb", "join"}
Ending    == {"closemem", "deinitmem", "rest"}                  \* the listener is gone

CbLent == {"spilib", "sem", "ion", "thread"}

\* Only what the backend at hand got is held, and gp's context.
HeldOK ==
  /\ pc \in Outside => held \subseteq {"ctx"}
  /\ held \subseteq {"lock", "ctx"} \cup Got(Backend) \cup (IF Backend = "qsee" THEN Lent ELSE {})
                    \cup (IF pc = "km" THEN {"km"} ELSE {})
  /\ pc = "open" => \A i \in 1 .. step - 1 : Steps(Backend)[i] \in held \cup {"info"}
  /\ pc = "open" => step <= Len(Steps(Backend)) + 1
  /\ pc # "open" /\ held \cap {"dev", "tci"} # {} => "trustlet" \in held

\* What was lent to the TA is known by the features, and its table is alive.
LentOK ==
  /\ held \cap CbLent # {} => Cb /\ pc \in Starting \cup Running \cup Closing
  /\ "ion" \in held => table["cb"] = "live"
  /\ "memion" \in held => Mem /\ table["mem"] = "live" /\ pc \notin Before \cup {"spilib"} \cup Starting
  /\ pc \in {"query", "spilib", "memion", "initcb", "initmem"} \cup Starting => Backend = "qsee"
  /\ pc \in {"spilib", "initcb"} \cup Starting => "cb" \in feature
  /\ pc \in {"memion", "initmem"} => "mem" \in feature
  /\ pc \in Starting => table["cb"] = "live" /\ "sem" \in held
  /\ pc \in {"deinitcb", "join"} => Cb
  /\ pc \in {"ion", "thread"} => "thread" \notin held

\* The listener lives while its thread is held, and says once that it is there.
ThreadOK ==
  /\ lst \notin {"none", "ended"} => "thread" \in held
  /\ lst = "start" => pc = "wait" /\ ready = 0
  /\ pc \in {"ion", "thread"} => ready = 0
  /\ pc = "wait" /\ "thread" \notin held => ready = 0

\* Where nothing failed, closing finds what it gives back.
UsedOK ==
  ~ failed =>
    /\ bad = {} /\ after = "down"
    /\ pc \notin Outside => "lock" \in held
    /\ pc \in Running \cup Closing /\ Cb => {"thread", "sem"} \subseteq held /\ table["cb"] = "live"
    /\ pc \in (Running \ {"initcb", "memion"}) \cup Closing \cup Ending /\ Mem => table["mem"] = "live"

\* In the first session nobody has told the listener to leave.
FreshOK ==
  ~ failed /\ ~ spoilt =>
    /\ opens = 0 => ~ exit /\ lst = "none" /\ pc = "down"
    /\ opens = 1 /\ pc \in {"register", "open", "query", "spilib"} \cup Starting \cup Running
         => ~ exit /\ lst # "leave" /\ ("thread" \in held => lst \in {"start"} \cup Alive)

IInv == TypeOK /\ HeldOK /\ LentOK /\ ThreadOK /\ UsedOK /\ FreshOK
-----------------------------------------------------------------------------
\* The steps of opening each backend, one by one.
LEMMA StepsOf ==
  /\ Len(Steps("qsee")) = 3 /\ Len(Steps("gp")) = 3 /\ Len(Steps("tee")) = 4 /\ Len(Steps("nosec")) = 1
  /\ Steps("qsee")[1] = "lib" /\ Steps("qsee")[2] = "app" /\ Steps("qsee")[3] = "info"
  /\ Steps("gp")[1] = "lib" /\ Steps("gp")[2] = "ctx" /\ Steps("gp")[3] = "session"
  /\ Steps("tee")[1] = "lib" /\ Steps("tee")[2] = "dev" /\ Steps("tee")[3] = "tci" /\ Steps("tee")[4] = "trustlet"
  /\ Steps("nosec")[1] = "lib"
<1>1. ASSUME NEW S, NEW q \in Seq(S), NEW x \in S
      PROVE  /\ Len(<<x>> \o q) = Len(q) + 1 /\ (<<x>> \o q)[1] = x
             /\ \A i \in 1 .. Len(q) : (<<x>> \o q)[i + 1] = q[i]
  OBVIOUS
<1> DEFINE S == Resources \cup {"info"}
<1>2. OpenQsee \in Seq(S) /\ OpenGp \in Seq(S) /\ OpenTee \in Seq(S) /\ OpenNosec \in Seq(S) /\ "lib" \in S
  BY DEF Resources, OpenQsee, OpenGp, OpenTee, OpenNosec
<1>3. /\ Len(OpenQsee) = 2 /\ Len(OpenGp) = 2 /\ Len(OpenTee) = 3 /\ Len(OpenNosec) = 0
      /\ OpenQsee[1] = "app" /\ OpenQsee[2] = "info" /\ OpenGp[1] = "ctx" /\ OpenGp[2] = "session"
      /\ OpenTee[1] = "dev" /\ OpenTee[2] = "tci" /\ OpenTee[3] = "trustlet"
  BY DEF OpenQsee, OpenGp, OpenTee, OpenNosec
<1>4. /\ Steps("qsee") = <<"lib">> \o OpenQsee /\ Steps("gp") = <<"lib">> \o OpenGp
      /\ Steps("tee") = <<"lib">> \o OpenTee /\ Steps("nosec") = <<"lib">> \o OpenNosec
  BY DEF Steps, Library, QseeLibrary, GpLibrary, TeeLibrary, NosecLibrary
<1> DEFINE Of(b, q) == /\ Len(Steps(b)) = Len(q) + 1 /\ Steps(b)[1] = "lib"
                       /\ \A i \in 1 .. Len(q) : Steps(b)[i + 1] = q[i]
<1>5. Of("qsee", OpenQsee) /\ Of("gp", OpenGp) /\ Of("tee", OpenTee) /\ Of("nosec", OpenNosec)
  <2> HIDE DEF S
  <2>1. ASSUME NEW b, NEW q \in Seq(S), Steps(b) = <<"lib">> \o q PROVE Of(b, q)
    BY <1>1, <1>2, <2>1
  <2> HIDE DEF Of
  <2> QED BY <1>2, <1>4, <2>1
<1>6. 1 + 1 = 2 /\ 2 + 1 = 3 /\ 3 + 1 = 4 /\ 0 + 1 = 1
  OBVIOUS
<1>7. 1 \in 1 .. 2 /\ 2 \in 1 .. 2 /\ 1 \in 1 .. 3 /\ 2 \in 1 .. 3 /\ 3 \in 1 .. 3
  OBVIOUS
<1> QED BY <1>3, <1>5, <1>6, <1>7

LEMMA Gots ==
  /\ Got("qsee") = {"lib", "app", "info"} /\ Got("gp") = {"lib", "ctx", "session"}
  /\ Got("tee") = {"lib", "dev", "tci", "trustlet"} /\ Got("nosec") = {"lib"}
<1>1. 1 .. 3 = {1, 2, 3} /\ 1 .. 4 = {1, 2, 3, 4} /\ 1 .. 1 = {1}
  OBVIOUS
<1> QED BY <1>1, StepsOf DEF Got

\* What closing gives back, by backend.
LEMMA Closed ==
  /\ Closes("qsee") = {"app"} /\ Closes("gp") = {"session", "ctx"}
  /\ Closes("tee") = {"trustlet", "dev", "tci"} /\ Closes("nosec") = {}
  /\ SpiLibrary.got = "spilib" /\ SpiLibrary.broken = {"null"}
  /\ \A b \in Backends : Library(b).broken \subseteq {"null"}
BY DEF Closes, CloseQsee, CloseGp, CloseTee, CloseNosec, SpiLibrary, Library, QseeLibrary,
   GpLibrary,
       TeeLibrary, NosecLibrary, Backends

\* The backend at hand is one of the build, and stays as long as the place in
\* the list does.
LEMMA BackendFacts ==
  ASSUME TypeOK
  PROVE  /\ Backend \in Backends /\ Len(chain) \in Nat \ {0} /\ at \in Nat
         /\ Len(Steps(Backend)) \in 1 .. 4
         /\ \A i \in 1 .. Len(Steps(Backend)) : Steps(Backend)[i] \in Got(Backend)
         /\ Got(Backend) \subseteq Resources \cup {"info"}
<1>1. chain \in Seq(Backends) /\ chain # <<>> /\ at \in 1 .. Len(chain)
  BY SessionOK DEF TypeOK, Backends
<1>2. Backend \in Backends /\ Len(chain) \in Nat \ {0} /\ at \in Nat
  BY <1>1 DEF Backend
<1>3. Len(Steps(Backend)) \in 1 .. 4
  BY <1>2, StepsOf DEF Backends
<1>4. Got(Backend) \subseteq Resources \cup {"info"}
  BY <1>2, Gots DEF Backends, Resources
<1> QED BY <1>2, <1>3, <1>4 DEF Got

\* No backend gets by itself what is lent to the TA.
LEMMA OwnSteps ==
  ASSUME TypeOK
  PROVE  \A i \in 1 .. Len(Steps(Backend)) : Steps(Backend)[i] \notin Lent
<1>1. \A b \in Backends : Got(b) \cap Lent = {}
  BY Gots DEF Backends, Lent
<1> QED BY <1>1, BackendFacts

\* When a backend has been closed gp's context is all that may be left.
LEMMA AtRest ==
  ASSUME IInv, pc = "rest"
  PROVE  held \ (Session \cup IF Mem THEN Freed("mem", "memion") ELSE {}) \subseteq {"ctx"}
<1>1. /\ Backend \in Backends /\ held \cap CbLent = {} /\ "info" \notin held
      /\ held \subseteq {"lock", "ctx"} \cup Got(Backend) \cup (IF Backend = "qsee" THEN Lent ELSE {})
      /\ held \cap {"dev", "tci"} # {} => "trustlet" \in held
      /\ "memion" \in held => Mem /\ table["mem"] = "live"
  BY BackendFacts DEF IInv, TypeOK, HeldOK, LentOK, Outside, Starting, Running, Closing,
     Resources, Lent
<1>2. "memion" \in held => Mem /\ Freed("mem", "memion") = {"memion"}
  BY <1>1 DEF Freed
<1>3. CASE Backend = "qsee"
  <2>1. held \subseteq {"lock", "ctx", "lib", "app", "memion"}
    BY <1>1, <1>3, Gots DEF Lent, CbLent
  <2>2. "app" \in held => Open
    BY DEF Open, Handle
  <2> QED BY <1>2, <1>3, <2>1, <2>2, Closed DEF Session
<1>4. CASE Backend = "gp"
  BY <1>1, <1>2, <1>4, Gots, Closed DEF Session, Open, Handle
<1>5. CASE Backend = "tee"
  BY <1>1, <1>2, <1>5, Gots, Closed DEF Session, Open, Handle
<1>6. CASE Backend = "nosec"
  BY <1>1, <1>2, <1>6, Gots, Closed DEF Session, Open, Handle
<1> QED BY <1>1, <1>3, <1>4, <1>5, <1>6 DEF Backends
-----------------------------------------------------------------------------
\* Every step keeps the types.
LEMMA TypeStep == IInv /\ [Next]_vars => TypeOK'
<1> SUFFICES ASSUME IInv, [Next]_vars PROVE TypeOK'
  OBVIOUS
<1>1. TypeOK /\ MaxOpens \in Nat /\ ThreadOK
  BY SessionOK DEF IInv
<1>2. /\ Backend \in Backends /\ Len(chain) \in Nat /\ at \in Nat /\ Len(Steps(Backend)) \in 1 .. 4
      /\ \A i \in 1 .. Len(Steps(Backend)) : Steps(Backend)[i] \in Resources \cup {"info"}
      /\ Library(Backend).broken \subseteq {"null"}
      /\ SpiLibrary.got = "spilib" /\ SpiLibrary.broken = {"null"}
  BY <1>1, BackendFacts, Closed
<1>3. CASE CaOpen
  BY <1>1, <1>2, <1>3 DEF CaOpen, ext, spi, tee, TypeOK, Alive
<1>4. CASE Register
  <2>1. held' \subseteq Resources
    BY <1>1, <1>2, <1>4 DEF Register, ext, spi, tee, TypeOK, Resources, Lent
  <2>2. step' \in 1 .. 5
    BY <1>1, <1>2, <1>4 DEF Register, ext, spi, tee, TypeOK, Resources, Lent
  <2>3. pc' \in {"open"}
    BY <1>1, <1>2, <1>4 DEF Register, ext, spi, tee
  <2>4. UNCHANGED <<chain, at, after, feature, table, exit, lst, ready, fd, ta, ask, opens, failed, spoilt, bad>>
    BY <1>4 DEF Register, ext, spi, tee
  <2> QED BY <1>1, <2>1, <2>2, <2>3, <2>4 DEF TypeOK
<1>5. CASE OpenStep
  <2>1. held' \subseteq Resources
    BY <1>1, <1>2, <1>5 DEF OpenStep, Undo, StepFails, TlcOpenFails, tee, ext, spi, TypeOK
  <2>2. step' \in 1 .. 5
    BY <1>1, <1>2, <1>5 DEF OpenStep, Undo, StepFails, TlcOpenFails, tee, ext, spi, TypeOK
  <2>3. after' \in {"next", "again", "down"}
    BY <1>1, <1>2, <1>5 DEF OpenStep, Undo, StepFails, TlcOpenFails, tee, ext, spi, TypeOK
  <2>4. failed' \in BOOLEAN
    BY <1>1, <1>2, <1>5 DEF OpenStep, Undo, StepFails, TlcOpenFails, tee, ext, spi, TypeOK
  <2>5. bad' \subseteq {"thread", "sem", "table", "lock", "null"}
    BY <1>1, <1>2, <1>5 DEF OpenStep, Undo, StepFails, TlcOpenFails, tee, ext, spi, TypeOK
  <2>6. pc' \in {"open", "close"}
    BY <1>1, <1>2, <1>5 DEF OpenStep, Undo, StepFails, TlcOpenFails, tee, ext, spi
  <2>7. UNCHANGED <<chain, at, feature, table, exit, lst, ready, fd, ta, ask, opens, spoilt>>
    BY <1>5 DEF OpenStep, Undo, StepFails, TlcOpenFails, tee, ext, spi
  <2> QED BY <1>1, <2>1, <2>2, <2>3, <2>4, <2>5, <2>6, <2>7 DEF TypeOK
<1>6. CASE Opened
  BY <1>1, <1>2, <1>6 DEF Opened, opening, ext, spi, tee, TypeOK, Alive
<1>7. CASE Query
  BY <1>1, <1>2, <1>7 DEF Query, Extensions, opening, spi, tee, TypeOK, Alive
<1>8. CASE SpiLib
  <2>1. held' \subseteq Resources
    BY <1>1, <1>2, <1>8 DEF SpiLib, Lend, Undo, spi, tee, TypeOK, Resources, Lent, Features
  <2>2. after' \in {"next", "again", "down"}
    BY <1>1, <1>2, <1>8 DEF SpiLib, Lend, Undo, spi, tee, TypeOK, Resources, Lent, Features
  <2>3. failed' \in BOOLEAN
    BY <1>1, <1>2, <1>8 DEF SpiLib, Lend, Undo, spi, tee, TypeOK, Resources, Lent, Features
  <2>4. bad' \subseteq {"thread", "sem", "table", "lock", "null"}
    BY <1>1, <1>2, <1>8 DEF SpiLib, Lend, Undo, spi, tee, TypeOK, Resources, Lent, Features
  <2>5. table' \in [Features -> {"null", "live", "dangling"}]
    BY <1>1, <1>2, <1>8 DEF SpiLib, Lend, Undo, spi, tee, TypeOK, Resources, Lent, Features
  <2>6. ready' \in 0 .. 1
    BY <1>1, <1>2, <1>8 DEF SpiLib, Lend, Undo, spi, tee, TypeOK, Resources, Lent, Features
  <2>7. pc' \in {"ion", "close"}
    BY <1>1, <1>2, <1>8 DEF SpiLib, Lend, Undo, spi, tee
  <2>8. UNCHANGED <<chain, at, step, feature, exit, lst, fd, ta, ask, opens, spoilt>>
    BY <1>8 DEF SpiLib, Lend, Undo, spi, tee
  <2> QED BY <1>1, <2>1, <2>2, <2>3, <2>4, <2>5, <2>6, <2>7, <2>8 DEF TypeOK
<1>9. CASE Ion
  <2>1. held' \subseteq Resources
    BY <1>1, <1>2, <1>9 DEF Ion, Lend, Undo, ext, spi, tee, TypeOK, Resources, Lent
  <2>2. after' \in {"next", "again", "down"}
    BY <1>1, <1>2, <1>9 DEF Ion, Lend, Undo, ext, spi, tee, TypeOK, Resources, Lent
  <2>3. failed' \in BOOLEAN
    BY <1>1, <1>2, <1>9 DEF Ion, Lend, Undo, ext, spi, tee, TypeOK, Resources, Lent
  <2>4. pc' \in {"thread", "close"}
    BY <1>1, <1>2, <1>9 DEF Ion, Lend, Undo, ext, spi, tee
  <2>5. UNCHANGED <<chain, at, step, feature, table, exit, lst, ready, fd, ta, ask, opens, spoilt, bad>>
    BY <1>9 DEF Ion, Lend, Undo, ext, spi, tee
  <2> QED BY <1>1, <2>1, <2>2, <2>3, <2>4, <2>5 DEF TypeOK
<1>10. CASE Thread
  <2>1. held' \subseteq Resources
    BY <1>1, <1>2, <1>10 DEF Thread, opening, ext, tee, TypeOK, Resources, Lent, Alive
  <2>2. lst' \in Alive \cup {"none", "start", "leave", "ended"}
    BY <1>1, <1>2, <1>10 DEF Thread, opening, ext, tee, TypeOK, Resources, Lent, Alive
  <2>3. pc' \in {"wait"}
    BY <1>1, <1>2, <1>10 DEF Thread, opening, ext, tee
  <2>4. UNCHANGED <<chain, at, step, after, feature, table, exit, ready, fd, ta, ask, opens, failed, spoilt, bad>>
    BY <1>10 DEF Thread, opening, ext, tee
  <2> QED BY <1>1, <2>1, <2>2, <2>3, <2>4 DEF TypeOK
<1>11. CASE Wait
  BY <1>1, <1>2, <1>11 DEF Wait, Send, opening, spi, TypeOK, Alive
<1>12. CASE MemIon
  <2>1. held' \subseteq Resources
    BY <1>1, <1>2, <1>12 DEF MemIon, Lend, Undo, spi, TypeOK, Resources, Lent, Features
  <2>2. after' \in {"next", "again", "down"}
    BY <1>1, <1>2, <1>12 DEF MemIon, Lend, Undo, spi, TypeOK, Resources, Lent, Features
  <2>3. failed' \in BOOLEAN
    BY <1>1, <1>2, <1>12 DEF MemIon, Lend, Undo, spi, TypeOK, Resources, Lent, Features
  <2>4. table' \in [Features -> {"null", "live", "dangling"}]
    BY <1>1, <1>2, <1>12 DEF MemIon, Lend, Undo, spi, TypeOK, Resources, Lent, Features
  <2>5. ta' \in {"idle", "run", "ask", "given"}
    BY <1>1, <1>2, <1>12 DEF MemIon, Lend, Undo, spi, TypeOK, Resources, Lent, Features
  <2>6. pc' \in {"initmem", "close"}
    BY <1>1, <1>2, <1>12 DEF MemIon, Lend, Undo, spi
  <2>7. UNCHANGED <<chain, at, step, feature, exit, lst, ready, fd, ask, opens, spoilt, bad>>
    BY <1>12 DEF MemIon, Lend, Undo, spi
  <2> QED BY <1>1, <2>1, <2>2, <2>3, <2>4, <2>5, <2>6, <2>7 DEF TypeOK
<1>13. CASE KeymasterGet
  BY <1>1, <1>2, <1>13 DEF KeymasterGet, Send, opening, ext, spi, TypeOK, Alive
<1>14. CASE CloseCb
  BY <1>1, <1>2, <1>14 DEF CloseCb, Send, opening, spi, TypeOK, Alive
<1>15. CASE Join
  <2>1. held' \subseteq held
    BY <1>15 DEF Join
  <2>2. bad' \subseteq bad \cup {"thread", "sem", "table"}
    BY <1>15 DEF Join
  <2>3. pc' = "closemem"
    BY <1>15 DEF Join
  <2>4. UNCHANGED <<chain, at, step, after, feature, table, exit, lst, ready, fd, ta, ask, opens, failed, spoilt>>
    BY <1>15 DEF Join, opening, ext, spi, tee
  <2>5. held' \subseteq Resources /\ bad' \subseteq {"thread", "sem", "table", "lock", "null"}
    BY <1>1, <2>1, <2>2 DEF TypeOK
  <2> QED BY <1>1, <2>3, <2>4, <2>5 DEF TypeOK
<1>16. CASE CloseMem
  BY <1>1, <1>2, <1>16 DEF CloseMem, Send, opening, ext, spi, TypeOK, Alive
<1>17. CASE Rest
  <2>1. held' \subseteq Resources
    BY <1>1, <1>2, <1>17 DEF Rest, Freed, Session, spi, tee, TypeOK, Features
  <2>2. bad' \subseteq {"thread", "sem", "table", "lock", "null"}
    BY <1>1, <1>2, <1>17 DEF Rest, Freed, Session, spi, tee, TypeOK, Features
  <2>3. table' \in [Features -> {"null", "live", "dangling"}]
    BY <1>1, <1>2, <1>17 DEF Rest, Freed, Session, spi, tee, TypeOK, Features
  <2>4. after' \in {"next", "again", "down"}
    BY <1>1, <1>2, <1>17 DEF Rest, Freed, Session, spi, tee, TypeOK, Features
  <2>5. at' \in 1 .. Len(chain)
    BY <1>1, <1>2, <1>17 DEF Rest, Freed, Session, spi, tee, TypeOK, Features
  <2>6. pc' \in {"register", "close", "down"}
    BY <1>1, <1>2, <1>17 DEF Rest, Freed, Session, spi, tee
  <2>7. UNCHANGED <<chain, step, feature, exit, lst, ready, fd, ta, ask, opens, failed, spoilt>>
    BY <1>17 DEF Rest, Freed, Session, spi, tee
  <2> QED BY <1>1, <2>1, <2>2, <2>3, <2>4, <2>5, <2>6, <2>7 DEF TypeOK
<1>18. CASE CaClose
  BY <1>1, <1>2, <1>18 DEF CaClose, Send, ext, spi, TypeOK, Alive
<1>19. CASE Command
  BY <1>1, <1>2, <1>19 DEF Command, Send, opening, ext, spi, TypeOK, Alive
<1>20. CASE KeymasterLoad
  <2>1. held' \subseteq Resources
    BY <1>1, <1>2, <1>20 DEF KeymasterLoad, opening, ext, spi, tee, TypeOK, Resources, Lent
  <2>2. pc' \in {"km"}
    BY <1>1, <1>2, <1>20 DEF KeymasterLoad, opening, ext, spi, tee
  <2>3. UNCHANGED <<chain, at, step, after, feature, table, exit, lst, ready, fd, ta, ask, opens, failed, spoilt, bad>>
    BY <1>20 DEF KeymasterLoad, opening, ext, spi, tee
  <2> QED BY <1>1, <2>1, <2>2, <2>3 DEF TypeOK
<1>21. CASE TaAsk
  BY <1>1, <1>2, <1>21 DEF TaAsk, opening, ext, spi, TypeOK, Alive
<1>22. CASE TaEnd
  <2>1. ta' \in {"idle", "run", "ask", "given"}
    BY <1>1, <1>2, <1>22 DEF TaEnd, Undo, ext, spi, TypeOK
  <2>2. after' \in {"next", "again", "down"}
    BY <1>1, <1>2, <1>22 DEF TaEnd, Undo, ext, spi, TypeOK
  <2>3. failed' \in BOOLEAN
    BY <1>1, <1>2, <1>22 DEF TaEnd, Undo, ext, spi, TypeOK
  <2>4. pc' \in {"up", "memion", "close", "join", "rest"}
    BY <1>1, <1>2, <1>22 DEF TaEnd, Undo, ext, spi
  <2>5. UNCHANGED <<chain, at, step, held, feature, table, exit, lst, ready, fd, ask, opens, spoilt, bad>>
    BY <1>22 DEF TaEnd, Undo, ext, spi
  <2> QED BY <1>1, <2>1, <2>2, <2>3, <2>4, <2>5 DEF TypeOK
<1>23. CASE LstRegister
  <2>1. lst' \in Alive \cup {"none", "start", "leave", "ended"}
    BY <1>1, <1>2, <1>23 DEF LstRegister, opening, tee, TypeOK, ThreadOK, Alive
  <2>2. spoilt' \in BOOLEAN
    BY <1>1, <1>2, <1>23 DEF LstRegister, opening, tee, TypeOK, ThreadOK, Alive
  <2>3. ready' \in 0 .. 1
    BY <1>1, <1>2, <1>23 DEF LstRegister, opening, tee, TypeOK, ThreadOK, Alive
  <2>4. UNCHANGED <<chain, pc, at, step, after, held, feature, table, exit, fd, ta, ask, opens, failed, bad>>
    BY <1>23 DEF LstRegister, opening, tee
  <2> QED BY <1>1, <2>1, <2>2, <2>3, <2>4 DEF TypeOK
<1>24. CASE LstCheck
  BY <1>1, <1>2, <1>24 DEF LstCheck, opening, ext, tee, TypeOK, Alive
<1>25. CASE LstReceive
  <2>1. lst' \in Alive \cup {"none", "start", "leave", "ended"}
    BY <1>1, <1>2, <1>25 DEF LstReceive, opening, ext, TypeOK, Alive
  <2>2. spoilt' \in BOOLEAN
    BY <1>1, <1>2, <1>25 DEF LstReceive, opening, ext, TypeOK, Alive
  <2>3. ta' \in {"idle", "run", "ask", "given"}
    BY <1>1, <1>2, <1>25 DEF LstReceive, opening, ext, TypeOK, Alive
  <2>4. UNCHANGED <<chain, pc, at, step, after, held, feature, table, exit, ready, fd, ask, opens, failed, bad>>
    BY <1>25 DEF LstReceive, opening, ext
  <2> QED BY <1>1, <2>1, <2>2, <2>3, <2>4 DEF TypeOK
<1>26. CASE LstServe
  <2>1. lst' \in Alive \cup {"none", "start", "leave", "ended"}
    BY <1>1, <1>2, <1>26 DEF LstServe, CbOpen, CbClose, CbIo, opening, tee, TypeOK, Alive
  <2>2. fd' \in BOOLEAN
    BY <1>1, <1>2, <1>26 DEF LstServe, CbOpen, CbClose, CbIo, opening, tee, TypeOK, Alive
  <2>3. exit' \in BOOLEAN
    BY <1>1, <1>2, <1>26 DEF LstServe, CbOpen, CbClose, CbIo, opening, tee, TypeOK, Alive
  <2>4. spoilt' \in BOOLEAN
    BY <1>1, <1>2, <1>26 DEF LstServe, CbOpen, CbClose, CbIo, opening, tee, TypeOK, Alive
  <2>5. UNCHANGED <<chain, pc, at, step, after, held, feature, table, ready, ta, ask, opens, failed, bad>>
    BY <1>26 DEF LstServe, CbOpen, CbClose, CbIo, opening, tee
  <2> QED BY <1>1, <2>1, <2>2, <2>3, <2>4, <2>5 DEF TypeOK
<1>27. CASE LstRespond
  BY <1>1, <1>2, <1>27 DEF LstRespond, opening, ext, TypeOK, Alive
<1>28. CASE LstLeave
  BY <1>1, <1>2, <1>28 DEF LstLeave, opening, ext, TypeOK, Alive
<1>29. CASE UNCHANGED vars
  BY <1>1, <1>2, <1>29 DEF vars, opening, ext, spi, tee, TypeOK, Alive
<1> QED
  BY <1>3, <1>4, <1>5, <1>6, <1>7, <1>8, <1>9, <1>10, <1>11, <1>12, <1>13, <1>14, <1>15, <1>16,
     <1>17, <1>18, <1>19, <1>20, <1>21, <1>22, <1>23, <1>24, <1>25, <1>26, <1>27, <1>28,
     <1>29 DEF Next, Opener, Listener

\* Every step keeps what the listener has said.
LEMMA ThreadStep == IInv /\ [Next]_vars => ThreadOK'
<1> SUFFICES ASSUME IInv, [Next]_vars PROVE ThreadOK'
  OBVIOUS
<1>1. ThreadOK /\ LentOK /\ ready \in Nat
  BY DEF IInv, TypeOK
<1>2. CASE CaOpen
  BY <1>1, <1>2 DEF CaOpen, ext, spi, tee, ThreadOK, Alive
<1>3. CASE Register
  BY <1>1, <1>3 DEF Register, ext, spi, tee, ThreadOK, Alive
<1>4. CASE OpenStep
  BY <1>1, <1>4 DEF OpenStep, Undo, StepFails, TlcOpenFails, tee, ext, spi, ThreadOK, Alive
<1>5. CASE Opened
  BY <1>1, <1>5 DEF Opened, opening, ext, spi, tee, ThreadOK, Alive
<1>6. CASE Query
  BY <1>1, <1>6 DEF Query, Extensions, opening, spi, tee, ThreadOK, Alive
<1>7. CASE SpiLib
  BY <1>1, <1>7 DEF SpiLib, Lend, Undo, spi, tee, ThreadOK, Alive
<1>8. CASE Ion
  BY <1>1, <1>8 DEF Ion, Lend, Undo, ext, spi, tee, ThreadOK, Alive
<1>9. CASE Thread
  BY <1>1, <1>9 DEF Thread, opening, ext, tee, ThreadOK, Alive
<1>10. CASE Wait
  BY <1>1, <1>10 DEF Wait, Send, opening, spi, ThreadOK, Alive
<1>11. CASE MemIon
  BY <1>1, <1>11 DEF MemIon, Lend, Undo, spi, ThreadOK, Alive
<1>12. CASE KeymasterGet
  BY <1>1, <1>12 DEF KeymasterGet, Send, opening, ext, spi, ThreadOK, Alive
<1>13. CASE CloseCb
  BY <1>1, <1>13 DEF CloseCb, Send, opening, spi, ThreadOK, Alive
<1>14. CASE Join
  BY <1>1, <1>14 DEF Join, Freed, opening, ext, spi, tee, ThreadOK, Alive
<1>15. CASE CloseMem
  BY <1>1, <1>15 DEF CloseMem, Send, opening, ext, spi, ThreadOK, Alive
<1>16. CASE Rest
  BY <1>1, <1>16 DEF Rest, Freed, Session, spi, tee, ThreadOK, Alive, LentOK, CbLent, Starting,
     Running, Closing
<1>17. CASE CaClose
  BY <1>1, <1>17 DEF CaClose, Send, ext, spi, ThreadOK, Alive
<1>18. CASE Command
  BY <1>1, <1>18 DEF Command, Send, opening, ext, spi, ThreadOK, Alive
<1>19. CASE KeymasterLoad
  BY <1>1, <1>19 DEF KeymasterLoad, opening, ext, spi, tee, ThreadOK, Alive
<1>20. CASE TaAsk
  BY <1>1, <1>20 DEF TaAsk, opening, ext, spi, ThreadOK, Alive
<1>21. CASE TaEnd
  BY <1>1, <1>21 DEF TaEnd, Undo, ext, spi, ThreadOK, Alive
<1>22. CASE LstRegister
  BY <1>1, <1>22 DEF LstRegister, opening, tee, ThreadOK, Alive
<1>23. CASE LstCheck
  BY <1>1, <1>23 DEF LstCheck, opening, ext, tee, ThreadOK, Alive
<1>24. CASE LstReceive
  BY <1>1, <1>24 DEF LstReceive, opening, ext, ThreadOK, Alive
<1>25. CASE LstServe
  BY <1>1, <1>25 DEF LstServe, CbOpen, CbClose, CbIo, opening, tee, ThreadOK, Alive
<1>26. CASE LstRespond
  BY <1>1, <1>26 DEF LstRespond, opening, ext, ThreadOK, Alive
<1>27. CASE LstLeave
  BY <1>1, <1>27 DEF LstLeave, opening, ext, ThreadOK, Alive
<1>28. CASE UNCHANGED vars
  BY <1>1, <1>28 DEF vars, opening, ext, spi, tee, ThreadOK, Alive
<1> QED
  BY <1>2, <1>3, <1>4, <1>5, <1>6, <1>7, <1>8, <1>9, <1>10, <1>11, <1>12, <1>13, <1>14, <1>15,
     <1>16, <1>17, <1>18, <1>19, <1>20, <1>21, <1>22, <1>23, <1>24, <1>25, <1>26, <1>27,
     <1>28 DEF Next, Opener, Listener

\* Every step keeps what is known of what is lent.
LEMMA LentStep == IInv /\ [Next]_vars => LentOK'
<1> SUFFICES ASSUME IInv, [Next]_vars PROVE LentOK'
  OBVIOUS
<1>1. /\ LentOK /\ table \in [Features -> {"null", "live", "dangling"}] /\ Features = {"cb", "mem"}
      /\ SpiLibrary.got = "spilib"
      /\ \A i \in 1 .. Len(Steps(Backend)) : Steps(Backend)[i] \notin Lent
      /\ step \in 1 .. 5
  BY Closed, OwnSteps DEF IInv, TypeOK, Features
<1>2. CASE CaOpen
  BY <1>1, <1>2 DEF CaOpen, ext, spi, tee, LentOK, CbLent, Cb, Mem, Backend, Outside, Before,
     Starting, Running, Closing, Ending
<1>3. CASE Register
  BY <1>1, <1>3 DEF Register, ext, spi, tee, LentOK, CbLent, Cb, Mem, Backend, Outside, Before,
     Starting, Running, Closing, Ending
<1>4. CASE OpenStep
  BY <1>1, <1>4 DEF OpenStep, Undo, StepFails, TlcOpenFails, tee, ext, spi, LentOK, CbLent, Cb,
     Mem, Backend, Outside, Before, Starting, Running, Closing, Ending, Lent
<1>5. CASE Opened
  BY <1>1, <1>5 DEF Opened, opening, ext, spi, tee, LentOK, CbLent, Cb, Mem, Backend, Outside,
     Before, Starting, Running, Closing, Ending
<1>6. CASE Query
  BY <1>1, <1>6 DEF Query, Extensions, opening, spi, tee, LentOK, CbLent, Cb, Mem, Backend,
     Outside, Before, Starting, Running, Closing, Ending
<1>7. CASE SpiLib
  BY <1>1, <1>7 DEF SpiLib, Lend, Undo, spi, tee, LentOK, CbLent, Cb, Mem, Backend, Outside,
     Before, Starting, Running, Closing, Ending
<1>8. CASE Ion
  BY <1>1, <1>8 DEF Ion, Lend, Undo, ext, spi, tee, LentOK, CbLent, Cb, Mem, Backend, Outside,
     Before, Starting, Running, Closing, Ending
<1>9. CASE Thread
  BY <1>1, <1>9 DEF Thread, opening, ext, tee, LentOK, CbLent, Cb, Mem, Backend, Outside,
     Before, Starting, Running, Closing, Ending
<1>10. CASE Wait
  BY <1>1, <1>10 DEF Wait, Send, opening, spi, LentOK, CbLent, Cb, Mem, Backend, Outside,
     Before, Starting, Running, Closing, Ending
<1>11. CASE MemIon
  BY <1>1, <1>11 DEF MemIon, Lend, Undo, spi, LentOK, CbLent, Cb, Mem, Backend, Outside,
     Before, Starting, Running, Closing, Ending
<1>12. CASE KeymasterGet
  BY <1>1, <1>12 DEF KeymasterGet, Send, opening, ext, spi, LentOK, CbLent, Cb, Mem, Backend,
     Outside, Before, Starting, Running, Closing, Ending
<1>13. CASE CloseCb
  BY <1>1, <1>13 DEF CloseCb, Send, opening, spi, LentOK, CbLent, Cb, Mem, Backend, Outside,
     Before, Starting, Running, Closing, Ending
<1>14. CASE Join
  BY <1>1, <1>14 DEF Join, Freed, opening, ext, spi, tee, LentOK, CbLent, Cb, Mem, Backend,
     Outside, Before, Starting, Running, Closing, Ending
<1>15. CASE CloseMem
  BY <1>1, <1>15 DEF CloseMem, Send, opening, ext, spi, LentOK, CbLent, Cb, Mem, Backend,
     Outside, Before, Starting, Running, Closing, Ending
<1>16. CASE Rest
  BY <1>1, <1>16 DEF Rest, Freed, Session, spi, tee, LentOK, CbLent, Cb, Mem, Backend, Outside,
     Before, Starting, Running, Closing, Ending
<1>17. CASE CaClose
  BY <1>1, <1>17 DEF CaClose, Send, ext, spi, LentOK, CbLent, Cb, Mem, Backend, Outside,
     Before, Starting, Running, Closing, Ending
<1>18. CASE Command
  BY <1>1, <1>18 DEF Command, Send, opening, ext, spi, LentOK, CbLent, Cb, Mem, Backend,
     Outside, Before, Starting, Running, Closing, Ending
<1>19. CASE KeymasterLoad
  BY <1>1, <1>19 DEF KeymasterLoad, opening, ext, spi, tee, LentOK, CbLent, Cb, Mem, Backend,
     Outside, Before, Starting, Running, Closing, Ending
<1>20. CASE TaAsk
  BY <1>1, <1>20 DEF TaAsk, opening, ext, spi, LentOK, CbLent, Cb, Mem, Backend, Outside,
     Before, Starting, Running, Closing, Ending
<1>21. CASE TaEnd
  BY <1>1, <1>21 DEF TaEnd, Undo, ext, spi, LentOK, CbLent, Cb, Mem, Backend, Outside, Before,
     Starting, Running, Closing, Ending
<1>22. CASE LstRegister
  BY <1>1, <1>22 DEF LstRegister, opening, tee, LentOK, CbLent, Cb, Mem, Backend, Outside,
     Before, Starting, Running, Closing, Ending
<1>23. CASE LstCheck
  BY <1>1, <1>23 DEF LstCheck, opening, ext, tee, LentOK, CbLent, Cb, Mem, Backend, Outside,
     Before, Starting, Running, Closing, Ending
<1>24. CASE LstReceive
  BY <1>1, <1>24 DEF LstReceive, opening, ext, LentOK, CbLent, Cb, Mem, Backend, Outside,
     Before, Starting, Running, Closing, Ending
<1>25. CASE LstServe
  BY <1>1, <1>25 DEF LstServe, CbOpen, CbClose, CbIo, opening, tee, LentOK, CbLent, Cb, Mem,
     Backend, Outside, Before, Starting, Running, Closing, Ending
<1>26. CASE LstRespond
  BY <1>1, <1>26 DEF LstRespond, opening, ext, LentOK, CbLent, Cb, Mem, Backend, Outside,
     Before, Starting, Running, Closing, Ending
<1>27. CASE LstLeave
  BY <1>1, <1>27 DEF LstLeave, opening, ext, LentOK, CbLent, Cb, Mem, Backend, Outside, Before,
     Starting, Running, Closing, Ending
<1>28. CASE UNCHANGED vars
  BY <1>1, <1>28 DEF vars, opening, ext, spi, tee, LentOK, CbLent, Cb, Mem, Backend, Outside,
     Before, Starting, Running, Closing, Ending
<1> QED
  BY <1>2, <1>3, <1>4, <1>5, <1>6, <1>7, <1>8, <1>9, <1>10, <1>11, <1>12, <1>13, <1>14, <1>15,
     <1>16, <1>17, <1>18, <1>19, <1>20, <1>21, <1>22, <1>23, <1>24, <1>25, <1>26, <1>27,
     <1>28 DEF Next, Opener, Listener

\* Every step keeps what is known of the first session.
LEMMA FreshStep == IInv /\ [Next]_vars => FreshOK'
<1> SUFFICES ASSUME IInv, [Next]_vars PROVE FreshOK'
  OBVIOUS
<1>1. /\ FreshOK /\ ThreadOK /\ UsedOK /\ LentOK /\ opens \in Nat /\ exit \in BOOLEAN
      /\ failed \in BOOLEAN /\ spoilt \in BOOLEAN /\ SpiLibrary.got = "spilib"
      /\ \A i \in 1 .. Len(Steps(Backend)) : Steps(Backend)[i] \notin Lent
      /\ step \in 1 .. 5
  BY Closed, OwnSteps DEF IInv, TypeOK
<1>2. CASE CaOpen
  BY <1>1, <1>2 DEF CaOpen, ext, spi, tee, FreshOK, Alive, Starting, Running, CbLent, Before,
     LentOK, Closing
<1>3. CASE Register
  BY <1>1, <1>3 DEF Register, ext, spi, tee, FreshOK, Alive, Starting, Running, CbLent, Before
<1>4. CASE OpenStep
  BY <1>1, <1>4 DEF OpenStep, Undo, StepFails, TlcOpenFails, tee, ext, spi, FreshOK, Alive,
     Starting, Running, CbLent, Before, Lent, LentOK, UsedOK
<1>5. CASE Opened
  BY <1>1, <1>5 DEF Opened, opening, ext, spi, tee, FreshOK, Alive, Starting, Running, CbLent,
     Before
<1>6. CASE Query
  BY <1>1, <1>6 DEF Query, Extensions, opening, spi, tee, FreshOK, Alive, Starting, Running,
     CbLent, Before
<1>7. CASE SpiLib
  BY <1>1, <1>7 DEF SpiLib, Lend, Undo, spi, tee, FreshOK, Alive, Starting, Running, CbLent,
     Before
<1>8. CASE Ion
  BY <1>1, <1>8 DEF Ion, Lend, Undo, ext, spi, tee, FreshOK, Alive, Starting, Running, CbLent,
     Before
<1>9. CASE Thread
  BY <1>1, <1>9 DEF Thread, opening, ext, tee, FreshOK, Alive, Starting, Running, CbLent, Before
<1>10. CASE Wait
  BY <1>1, <1>10 DEF Wait, Send, opening, spi, FreshOK, Alive, Starting, Running, CbLent, Before
<1>11. CASE MemIon
  BY <1>1, <1>11 DEF MemIon, Lend, Undo, spi, FreshOK, Alive, Starting, Running, CbLent, Before
<1>12. CASE KeymasterGet
  BY <1>1, <1>12 DEF KeymasterGet, Send, opening, ext, spi, FreshOK, Alive, Starting, Running,
     CbLent, Before
<1>13. CASE CloseCb
  BY <1>1, <1>13 DEF CloseCb, Send, opening, spi, FreshOK, Alive, Starting, Running, CbLent,
     Before
<1>14. CASE Join
  BY <1>1, <1>14 DEF Join, Freed, opening, ext, spi, tee, FreshOK, Alive, Starting, Running,
     CbLent, Before
<1>15. CASE CloseMem
  BY <1>1, <1>15 DEF CloseMem, Send, opening, ext, spi, FreshOK, Alive, Starting, Running,
     CbLent, Before
<1>16. CASE Rest
  BY <1>1, <1>16 DEF Rest, Freed, Session, spi, tee, FreshOK, Alive, Starting, Running, CbLent,
     Before, LentOK, UsedOK, Closing
<1>17. CASE CaClose
  BY <1>1, <1>17 DEF CaClose, Send, ext, spi, FreshOK, Alive, Starting, Running, CbLent, Before
<1>18. CASE Command
  BY <1>1, <1>18 DEF Command, Send, opening, ext, spi, FreshOK, Alive, Starting, Running,
     CbLent, Before
<1>19. CASE KeymasterLoad
  BY <1>1, <1>19 DEF KeymasterLoad, opening, ext, spi, tee, FreshOK, Alive, Starting, Running,
     CbLent, Before
<1>20. CASE TaAsk
  BY <1>1, <1>20 DEF TaAsk, opening, ext, spi, FreshOK, Alive, Starting, Running, CbLent, Before
<1>21. CASE TaEnd
  BY <1>1, <1>21 DEF TaEnd, Undo, ext, spi, FreshOK, Alive, Starting, Running, CbLent, Before
<1>22. CASE LstRegister
  BY <1>1, <1>22 DEF LstRegister, opening, tee, FreshOK, Alive, Starting, Running, CbLent,
     Before
<1>23. CASE LstCheck
  BY <1>1, <1>23 DEF LstCheck, opening, ext, tee, FreshOK, Alive, Starting, Running, CbLent,
     Before
<1>24. CASE LstReceive
  BY <1>1, <1>24 DEF LstReceive, opening, ext, FreshOK, Alive, Starting, Running, CbLent, Before
<1>25. CASE LstServe
  BY <1>1, <1>25 DEF LstServe, CbOpen, CbClose, CbIo, opening, tee, FreshOK, Alive, Starting,
     Running, CbLent, Before
<1>26. CASE LstRespond
  BY <1>1, <1>26 DEF LstRespond, opening, ext, FreshOK, Alive, Starting, Running, CbLent, Before
<1>27. CASE LstLeave
  BY <1>1, <1>27 DEF LstLeave, opening, ext, FreshOK, Alive, Starting, Running, CbLent, Before
<1>28. CASE UNCHANGED vars
  BY <1>1, <1>28 DEF vars, opening, ext, spi, tee, FreshOK, Alive, Starting, Running, CbLent,
     Before
<1> QED
  BY <1>2, <1>3, <1>4, <1>5, <1>6, <1>7, <1>8, <1>9, <1>10, <1>11, <1>12, <1>13, <1>14, <1>15,
     <1>16, <1>17, <1>18, <1>19, <1>20, <1>21, <1>22, <1>23, <1>24, <1>25, <1>26, <1>27,
     <1>28 DEF Next, Opener, Listener

\* Every step keeps what closing gives back.
LEMMA UsedStep == IInv /\ [Next]_vars => UsedOK'
<1> SUFFICES ASSUME IInv, [Next]_vars PROVE UsedOK'
  OBVIOUS
<1>1. /\ UsedOK /\ LentOK /\ ThreadOK /\ table \in [Features -> {"null", "live", "dangling"}]
      /\ Features = {"cb", "mem"} /\ SpiLibrary.got = "spilib" /\ failed \in BOOLEAN
  BY Closed DEF IInv, TypeOK, Features
<1>2. CASE CaOpen
  BY <1>1, <1>2 DEF CaOpen, ext, spi, tee, UsedOK, Cb, Mem, Backend, Outside, Before, Starting,
     Running, Closing, Ending
<1>3. CASE Register
  BY <1>1, <1>3 DEF Register, ext, spi, tee, UsedOK, Cb, Mem, Backend, Outside, Before,
     Starting, Running, Closing, Ending
<1>4. CASE OpenStep
  BY <1>1, <1>4 DEF OpenStep, Undo, StepFails, TlcOpenFails, tee, ext, spi, UsedOK, Cb, Mem,
     Backend, Outside, Before, Starting, Running, Closing, Ending
<1>5. CASE Opened
  BY <1>1, <1>5 DEF Opened, opening, ext, spi, tee, UsedOK, Cb, Mem, Backend, Outside, Before,
     Starting, Running, Closing, Ending
<1>6. CASE Query
  BY <1>1, <1>6 DEF Query, Extensions, opening, spi, tee, UsedOK, Cb, Mem, Backend, Outside,
     Before, Starting, Running, Closing, Ending
<1>7. CASE SpiLib
  BY <1>1, <1>7 DEF SpiLib, Lend, Undo, spi, tee, UsedOK, Cb, Mem, Backend, Outside, Before,
     Starting, Running, Closing, Ending
<1>8. CASE Ion
  BY <1>1, <1>8 DEF Ion, Lend, Undo, ext, spi, tee, UsedOK, Cb, Mem, Backend, Outside, Before,
     Starting, Running, Closing, Ending
<1>9. CASE Thread
  BY <1>1, <1>9 DEF Thread, opening, ext, tee, UsedOK, Cb, Mem, Backend, Outside, Before,
     Starting, Running, Closing, Ending
<1>10. CASE Wait
  BY <1>1, <1>10 DEF Wait, Send, opening, spi, UsedOK, Cb, Mem, Backend, Outside, Before,
     Starting, Running, Closing, Ending, LentOK, ThreadOK
<1>11. CASE MemIon
  BY <1>1, <1>11 DEF MemIon, Lend, Undo, spi, UsedOK, Cb, Mem, Backend, Outside, Before,
     Starting, Running, Closing, Ending
<1>12. CASE KeymasterGet
  BY <1>1, <1>12 DEF KeymasterGet, Send, opening, ext, spi, UsedOK, Cb, Mem, Backend, Outside,
     Before, Starting, Running, Closing, Ending
<1>13. CASE CloseCb
  BY <1>1, <1>13 DEF CloseCb, Send, opening, spi, UsedOK, Cb, Mem, Backend, Outside, Before,
     Starting, Running, Closing, Ending
<1>14. CASE Join
  BY <1>1, <1>14 DEF Join, Freed, opening, ext, spi, tee, UsedOK, Cb, Mem, Backend, Outside,
     Before, Starting, Running, Closing, Ending, LentOK
<1>15. CASE CloseMem
  BY <1>1, <1>15 DEF CloseMem, Send, opening, ext, spi, UsedOK, Cb, Mem, Backend, Outside,
     Before, Starting, Running, Closing, Ending
<1>16. CASE Rest
  BY <1>1, <1>16 DEF Rest, Freed, Session, spi, tee, UsedOK, Cb, Mem, Backend, Outside, Before,
     Starting, Running, Closing, Ending
<1>17. CASE CaClose
  BY <1>1, <1>17 DEF CaClose, Send, ext, spi, UsedOK, Cb, Mem, Backend, Outside, Before,
     Starting, Running, Closing, Ending
<1>18. CASE Command
  BY <1>1, <1>18 DEF Command, Send, opening, ext, spi, UsedOK, Cb, Mem, Backend, Outside,
     Before, Starting, Running, Closing, Ending
<1>19. CASE KeymasterLoad
  BY <1>1, <1>19 DEF KeymasterLoad, opening, ext, spi, tee, UsedOK, Cb, Mem, Backend, Outside,
     Before, Starting, Running, Closing, Ending
<1>20. CASE TaAsk
  BY <1>1, <1>20 DEF TaAsk, opening, ext, spi, UsedOK, Cb, Mem, Backend, Outside, Before,
     Starting, Running, Closing, Ending
<1>21. CASE TaEnd
  BY <1>1, <1>21 DEF TaEnd, Undo, ext, spi, UsedOK, Cb, Mem, Backend, Outside, Before,
     Starting, Running, Closing, Ending
<1>22. CASE LstRegister
  BY <1>1, <1>22 DEF LstRegister, opening, tee, UsedOK, Cb, Mem, Backend, Outside, Before,
     Starting, Running, Closing, Ending
<1>23. CASE LstCheck
  BY <1>1, <1>23 DEF LstCheck, opening, ext, tee, UsedOK, Cb, Mem, Backend, Outside, Before,
     Starting, Running, Closing, Ending
<1>24. CASE LstReceive
  BY <1>1, <1>24 DEF LstReceive, opening, ext, UsedOK, Cb, Mem, Backend, Outside, Before,
     Starting, Running, Closing, Ending
<1>25. CASE LstServe
  BY <1>1, <1>25 DEF LstServe, CbOpen, CbClose, CbIo, opening, tee, UsedOK, Cb, Mem, Backend,
     Outside, Before, Starting, Running, Closing, Ending
<1>26. CASE LstRespond
  BY <1>1, <1>26 DEF LstRespond, opening, ext, UsedOK, Cb, Mem, Backend, Outside, Before,
     Starting, Running, Closing, Ending
<1>27. CASE LstLeave
  BY <1>1, <1>27 DEF LstLeave, opening, ext, UsedOK, Cb, Mem, Backend, Outside, Before,
     Starting, Running, Closing, Ending
<1>28. CASE UNCHANGED vars
  BY <1>1, <1>28 DEF vars, opening, ext, spi, tee, UsedOK, Cb, Mem, Backend, Outside, Before,
     Starting, Running, Closing, Ending
<1> QED
  BY <1>2, <1>3, <1>4, <1>5, <1>6, <1>7, <1>8, <1>9, <1>10, <1>11, <1>12, <1>13, <1>14, <1>15,
     <1>16, <1>17, <1>18, <1>19, <1>20, <1>21, <1>22, <1>23, <1>24, <1>25, <1>26, <1>27,
     <1>28 DEF Next, Opener, Listener

\* Every step keeps what is held to what the backend got.
LEMMA HeldStep == IInv /\ [Next]_vars => HeldOK'
<1> SUFFICES ASSUME IInv, [Next]_vars PROVE HeldOK'
  OBVIOUS
<1>1. /\ HeldOK /\ LentOK /\ step \in 1 .. 5 /\ held \subseteq Resources /\ "info" \notin Resources
      /\ SpiLibrary.got = "spilib"
  BY Closed DEF IInv, TypeOK, Resources, Lent
<1>2. /\ Backend \in Backends /\ Len(Steps(Backend)) \in 1 .. 4
      /\ \A i \in 1 .. Len(Steps(Backend)) : Steps(Backend)[i] \in Got(Backend)
  BY BackendFacts DEF IInv
<1>3. CASE CaOpen
  <2>1. held' \subseteq {"ctx"} /\ pc' = "register"
    BY <1>1, <1>3 DEF CaOpen, HeldOK, Outside
  <2> QED BY <2>1 DEF HeldOK, Outside
<1>4. CASE Register
  BY <1>1, <1>2, <1>4 DEF Register, ext, spi, tee, HeldOK, Outside, Backend
<1>5. CASE OpenStep
  <2>1. /\ pc = "open" /\ step <= Len(Steps(Backend)) /\ Backend' = Backend /\ Steps(Backend)[step] \in Got(Backend)
        /\ held \subseteq {"lock", "ctx"} \cup Got(Backend) \cup (IF Backend = "qsee" THEN Lent ELSE {})
        /\ \A i \in 1 .. step - 1 : Steps(Backend)[i] \in held \cup {"info"}
    BY <1>1, <1>2, <1>5 DEF OpenStep, HeldOK, Backend
  <2>2. CASE /\ held' = held \cup ({Steps(Backend)[step]} \ {"info"})
             /\ step' = step + 1 /\ pc' = "open"
    <3>1. \A i \in 1 .. step' - 1 : i = step \/ i \in 1 .. step - 1
      BY <1>1, <2>2
    <3>2. \A i \in 1 .. step' - 1 : Steps(Backend')[i] \in held' \cup {"info"}
      BY <2>1, <2>2, <3>1
    <3>3. step' <= Len(Steps(Backend')) + 1
      BY <1>1, <1>2, <2>1, <2>2
    <3> QED BY <2>1, <2>2, <3>2, <3>3 DEF HeldOK, Outside
  <2>3. CASE held' = StepFails /\ pc' = "close"
    <3>1. held' \cap {"dev", "tci"} = {} /\ held' \subseteq held
      <4>1. Backend # "tee" => {"dev", "tci"} \cap (Got(Backend) \cup Lent) = {}
        BY <1>2, Gots DEF Backends, Lent
      <4> QED BY <2>1, <2>3, <4>1 DEF StepFails, TlcOpenFails
    <3> QED BY <2>1, <2>3, <3>1 DEF HeldOK, Outside
  <2>4. (/\ held' = held \cup ({Steps(Backend)[step]} \ {"info"})
         /\ step' = step + 1 /\ pc' = "open") \/ (held' = StepFails /\ pc' = "close")
    BY <1>5 DEF OpenStep, Undo
  <2> QED BY <2>2, <2>3, <2>4
<1>6. CASE Opened
  <2>1. /\ pc = "open" /\ step > Len(Steps(Backend)) /\ Backend' = Backend /\ held' = held
        /\ held \subseteq {"lock", "ctx"} \cup Got(Backend) \cup (IF Backend = "qsee" THEN Lent ELSE {})
        /\ pc' \in {"query", "up"}
    BY <1>1, <1>6 DEF Opened, HeldOK, Backend, opening
  <2>2. ASSUME held \cap {"dev", "tci"} # {} PROVE "trustlet" \in held
    <3>1. Backend = "tee"
      BY <1>2, <2>1, <2>2, Gots DEF Backends, Lent
    <3>2. 4 \in 1 .. step - 1
      BY <1>1, <2>1, <3>1, StepsOf
    <3> QED BY <1>1, <2>1, <3>1, <3>2, StepsOf DEF HeldOK
  <2> QED BY <2>1, <2>2 DEF HeldOK, Outside
<1>7. CASE Query
  BY <1>1, <1>2, <1>7 DEF Query, Extensions, opening, spi, tee, HeldOK, Outside, Backend
<1>8. CASE SpiLib
  BY <1>1, <1>2, <1>8 DEF SpiLib, Lend, Undo, spi, tee, HeldOK, Outside, Backend, Lent, LentOK,
     Starting
<1>9. CASE Ion
  BY <1>1, <1>2, <1>9 DEF Ion, Lend, Undo, ext, spi, tee, HeldOK, Outside, Backend, Lent,
     LentOK, Starting
<1>10. CASE Thread
  BY <1>1, <1>2, <1>10 DEF Thread, opening, ext, tee, HeldOK, Outside, Backend, Lent, LentOK,
     Starting
<1>11. CASE Wait
  BY <1>1, <1>2, <1>11 DEF Wait, Send, opening, spi, HeldOK, Outside, Backend
<1>12. CASE MemIon
  BY <1>1, <1>2, <1>12 DEF MemIon, Lend, Undo, spi, HeldOK, Outside, Backend, Lent, LentOK,
     Starting
<1>13. CASE KeymasterGet
  BY <1>1, <1>2, <1>13 DEF KeymasterGet, Send, opening, ext, spi, HeldOK, Outside, Backend
<1>14. CASE CloseCb
  BY <1>1, <1>2, <1>14 DEF CloseCb, Send, opening, spi, HeldOK, Outside, Backend
<1>15. CASE Join
  BY <1>1, <1>2, <1>15 DEF Join, Freed, opening, ext, spi, tee, HeldOK, Outside, Backend
<1>16. CASE CloseMem
  BY <1>1, <1>2, <1>16 DEF CloseMem, Send, opening, ext, spi, HeldOK, Outside, Backend
<1>17. CASE Rest
  <2>1. held' \subseteq {"ctx"}
    BY <1>1, <1>17, AtRest DEF Rest
  <2>2. pc' \in {"register", "close", "down"}
    BY <1>17 DEF Rest
  <2> QED BY <2>1, <2>2 DEF HeldOK, Outside
<1>18. CASE CaClose
  BY <1>1, <1>2, <1>18 DEF CaClose, Send, ext, spi, HeldOK, Outside, Backend
<1>19. CASE Command
  BY <1>1, <1>2, <1>19 DEF Command, Send, opening, ext, spi, HeldOK, Outside, Backend
<1>20. CASE KeymasterLoad
  BY <1>1, <1>2, <1>20 DEF KeymasterLoad, opening, ext, spi, tee, HeldOK, Outside, Backend
<1>21. CASE TaAsk
  BY <1>1, <1>2, <1>21 DEF TaAsk, opening, ext, spi, HeldOK, Outside, Backend
<1>22. CASE TaEnd
  BY <1>1, <1>2, <1>22 DEF TaEnd, Undo, ext, spi, HeldOK, Outside, Backend
<1>23. CASE LstRegister
  BY <1>1, <1>2, <1>23 DEF LstRegister, opening, tee, HeldOK, Outside, Backend
<1>24. CASE LstCheck
  BY <1>1, <1>2, <1>24 DEF LstCheck, opening, ext, tee, HeldOK, Outside, Backend
<1>25. CASE LstReceive
  BY <1>1, <1>2, <1>25 DEF LstReceive, opening, ext, HeldOK, Outside, Backend
<1>26. CASE LstServe
  BY <1>1, <1>2, <1>26 DEF LstServe, CbOpen, CbClose, CbIo, opening, tee, HeldOK, Outside,
     Backend
<1>27. CASE LstRespond
  BY <1>1, <1>2, <1>27 DEF LstRespond, opening, ext, HeldOK, Outside, Backend
<1>28. CASE LstLeave
  BY <1>1, <1>2, <1>28 DEF LstLeave, opening, ext, HeldOK, Outside, Backend
<1>29. CASE UNCHANGED vars
  BY <1>1, <1>2, <1>29 DEF vars, opening, ext, spi, tee, HeldOK, Outside, Backend
<1> QED
  BY <1>3, <1>4, <1>5, <1>6, <1>7, <1>8, <1>9, <1>10, <1>11, <1>12, <1>13, <1>14, <1>15, <1>16,
     <1>17, <1>18, <1>19, <1>20, <1>21, <1>22, <1>23, <1>24, <1>25, <1>26, <1>27, <1>28,
     <1>29 DEF Next, Opener, Listener

LEMMA InitIInv == Init => IInv
<1> SUFFICES ASSUME Init PROVE IInv
  OBVIOUS
<1> USE DEF Init
<1>1. TypeOK
  <2>1. chain \in Chains /\ at \in 1 .. Len(chain)
    BY SessionOK
  <2>2. exit \in BOOLEAN /\ fd \in BOOLEAN /\ failed \in BOOLEAN /\ spoilt \in BOOLEAN
    OBVIOUS
  <2>3. opens \in 0 .. MaxOpens /\ ready \in 0 .. 1 /\ step \in 1 .. 5
    BY SessionOK
  <2>4. table \in [Features -> {"null", "live", "dangling"}]
    OBVIOUS
  <2>5. /\ pc = "down" /\ after = "down" /\ held = {} /\ feature = {} /\ lst = "none" /\ ta = "idle"
        /\ ask = "io" /\ bad = {}
    OBVIOUS
  <2> HIDE DEF Init
  <2> QED BY <2>1, <2>2, <2>3, <2>4, <2>5 DEF TypeOK
<1>2. HeldOK /\ LentOK /\ ThreadOK
  BY DEF HeldOK, LentOK, ThreadOK, Starting, Running, Closing
<1>3. UsedOK /\ FreshOK
  BY DEF UsedOK, FreshOK, Outside, Running, Closing, Ending, Starting
<1> QED BY <1>1, <1>2, <1>3 DEF IInv

\* What is held, lent and alive stands together, at every position.
LEMMA Invariance == Spec => []IInv
<1>1. Init => IInv
  BY InitIInv
<1>2. IInv /\ [Next]_vars => IInv'
  BY TypeStep, HeldStep, LentStep, ThreadStep, UsedStep, FreshStep DEF IInv
<1> QED BY <1>1, <1>2, PTL DEF Spec
-----------------------------------------------------------------------------
\* Every variable keeps its type, for any lists of backends.
THEOREM TypeCorrect == Spec => []TypeOK
<1>1. IInv => TypeOK
  BY DEF IInv
<1> QED BY <1>1, Invariance, PTL

\* A session that is down holds nothing, and one that is up nothing of another
\* backend, whichever steps of whichever backends of the list have failed
\* (gp's context excepted, which _ca_open keeps).
THEOREM NothingLeftOpen == Spec => []OneSession
<1>1. IInv => OneSession
  BY DEF IInv, HeldOK, OneSession, Outside, Got
<1> QED BY <1>1, Invariance, PTL

\* Where every backend that was tried could be opened nothing is given back
\* twice, no table is used after its library went and no lock destroyed twice.
THEOREM NoDoubleRelease == Spec => []ReleasedOnce
<1>1. IInv => ReleasedOnce
  BY DEF IInv, TypeOK, UsedOK, ReleasedOnce
<1> QED BY <1>1, Invariance, PTL

\* The TA of the first session of the process finds its listener, however the
\* listener's steps and the opener's interleave.
THEOREM ListenerIsThere == Spec => []ListenerServes
<1>1. IInv => ListenerServes
  <2> SUFFICES ASSUME IInv, pc \in {"up", "command"}, Cb, opens = 1, ~ failed, ~ spoilt
               PROVE  lst \in Alive
    BY DEF ListenerServes
  <2>1. "thread" \in held
    BY DEF IInv, UsedOK, Running
  <2>2. lst # "start"
    BY DEF IInv, ThreadOK
  <2> QED BY <2>1, <2>2 DEF IInv, FreshOK, Running
<1> QED BY <1>1, Invariance, PTL
=============================================================================
