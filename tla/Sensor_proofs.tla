--------------------------- MODULE Sensor_proofs ---------------------------
(***************************************************************************)
(* Proofs about Sensor: the types, that no capture reaches a chip without  *)
(* its program, and that a changed configuration stays marked.             *)
(***************************************************************************)
EXTENDS Sensor, TLAPS

\* Commands that must find the chip loaded, and those after which it is.
Needing == Capturing \cup {"auth_step"}
Feeding == {"download"} \cup Downs

Commands == TaSteps \cup Capturing \cup Downs \cup Ups
            \cup {"download", "cal", "fpcal", "fpcal2", "nav_start"}

\* What lists of commands are like: what needs the program comes after what
\* loads it; nothing that needs it follows a wait for the lift; the restart of
\* a calibration is followed by a command, and by none that needs the program.
Avoids(q, S) == \A i \in DOMAIN q : q[i] \notin S
Quiet(q)     == Avoids(q, Needing)
Plain(q)     == Avoids(q, Downs \cup Ups \cup {"fpcal"})
Fed(q)       == \A j \in DOMAIN q : q[j] \in Needing => \E i \in 1 .. j - 1 : q[i] \in Feeding
UpsLast(q)   == \A i, j \in DOMAIN q : q[i] \in Ups /\ i < j => q[j] \notin Needing
Ends(q)      == \A i \in DOMAIN q : q[i] = "fpcal" => i < Len(q) /\ Quiet(q)

\* What every operation is like.
Sound(s) ==
  /\ s.start \in Seq(Commands) /\ s.body \in Seq(Commands)
  /\ s.up \in Ups \cup {"none"} /\ s.again \in BOOLEAN
  /\ s.body = <<>> => ~ s.again /\ s.start = <<>>
  /\ \A q \in {s.start \o s.body, s.body} : Fed(q) /\ Ends(q) /\ (UpsLast(q) \/ s = Nav("LITE"))

OpenPcs == {"dev", "ta_full", "ta_empty", "init2"}
Busy    == {"run"} \cup WaitPcs
Asleep  == script = Nav("LITE") /\ "irqpwdn" \in features

Results == {"ok", "err", "esd", "canceled"}

\* The types TypeOK leaves out.
DataOK ==
  /\ todo \in Seq(Commands) /\ Sound(script)
  /\ wait \in [for : {"none", "down", "up", "nav"}, unc : BOOLEAN, retry : 0 .. Retries, ret : Results]
  /\ "irqpwdn" \in features => "reinit" \in features

\* An attempt to open is left, and a retry of a wait that begins.
CountsOK ==
  /\ pc \in OpenPcs => tries > 0
  /\ pc \in {"begin", "detect"} => wait.retry > 0

\* The commands left are such as an operation has.
TodoOK ==
  pc \in Busy =>
    /\ Ends(todo)
    /\ UpsLast(todo) \/ script = Nav("LITE")
    /\ script = Calibrate(build, features) => Quiet(todo)
    /\ script = Aging => Plain(todo)

\* Where the chip has its program.
ChipOK ==
  /\ pc = "run" /\ ~ Asleep => chip \in Loaded \/ Fed(todo)
  /\ pc \in {"detect", "poll"} => chip \in Loaded
  /\ pc \in {"check", "block", "after"} => chip \in Loaded \/ "irqpwdn" \in features
  /\ pc = "end" /\ wait.ret = "ok" =>
       chip \in Loaded \/ ("irqpwdn" \in features /\ wait.for = "up")

\* A device that is closed or being opened has no change to save.
SavedOK == pc \in OpenPcs \cup {"closed"} => ~ changed

IInv == TypeOK /\ DataOK /\ CountsOK /\ TodoOK /\ ChipOK /\ SavedOK /\ ConfigNotForgotten
-----------------------------------------------------------------------------
(* Lists of commands                                                       *)
-----------------------------------------------------------------------------
\* What the rest of a list keeps of it.
LEMMA TailFacts ==
  ASSUME NEW q \in Seq(Commands), q # <<>>
  PROVE  /\ Tail(q) \in Seq(Commands)
         /\ Head(q) \notin Feeding /\ Fed(q) => Fed(Tail(q))
         /\ Quiet(q) => Quiet(Tail(q))
         /\ UpsLast(q) => UpsLast(Tail(q))
         /\ UpsLast(q) /\ Head(q) \in Ups => Quiet(Tail(q))
         /\ Ends(q) => Ends(Tail(q))
         /\ Plain(q) => Plain(Tail(q))
<1> DEFINE t == Tail(q)
<1>1. /\ t \in Seq(Commands) /\ Len(t) = Len(q) - 1 /\ Len(t) \in Nat
      /\ DOMAIN q = 1 .. Len(q) /\ DOMAIN t = 1 .. Len(t)
      /\ Head(q) = q[1] /\ 1 \in DOMAIN q
  OBVIOUS
<1>2. \A i \in DOMAIN t : t[i] = q[i + 1] /\ i + 1 \in DOMAIN q
  OBVIOUS
<1> HIDE DEF t
<1>3. Head(q) \notin Feeding /\ Fed(q) => Fed(t)
  <2> SUFFICES ASSUME q[1] \notin Feeding, Fed(q), NEW j \in DOMAIN t, t[j] \in Needing
               PROVE  \E i \in 1 .. j - 1 : t[i] \in Feeding
    BY <1>1 DEF Fed
  <2>1. PICK i \in 1 .. j : q[i] \in Feeding
    BY <1>1, <1>2 DEF Fed
  <2>2. i # 1 /\ i - 1 \in 1 .. j - 1 /\ i - 1 \in DOMAIN t /\ (i - 1) + 1 = i
    BY <1>1, <2>1
  <2>3. t[i - 1] = q[i]
    BY <1>2, <2>2
  <2> QED BY <2>1, <2>2, <2>3
<1>4. Quiet(q) => Quiet(t)
  BY <1>1, <1>2 DEF Quiet, Avoids
<1>5. UpsLast(q) => UpsLast(t)
  BY <1>1, <1>2 DEF UpsLast
<1>6. UpsLast(q) /\ Head(q) \in Ups => Quiet(t)
  BY <1>1, <1>2 DEF UpsLast, Quiet, Avoids
<1>7. Ends(q) => Ends(t)
  BY <1>1, <1>2, <1>4 DEF Ends
<1>8. Plain(q) => Plain(t)
  BY <1>1, <1>2 DEF Plain, Avoids
<1> QED BY <1>1, <1>3, <1>4, <1>5, <1>6, <1>7, <1>8 DEF t

\* No command does two of these: load the chip, need its program, wait for a lift.
LEMMA Kinds ==
  /\ Needing \cap Feeding = {} /\ Needing \cap Ups = {} /\ Feeding \cap Ups = {}
  /\ "fpcal" \notin Needing \cup Feeding \cup Ups
  /\ TaSteps \cap Feeding = {} /\ "nav_start" \notin Feeding /\ "cal" \notin Feeding
  /\ "fpcal2" \notin Feeding /\ "download" \in Feeding /\ Joined \cap (Downs \cup Ups) = {}
BY DEF Needing, Feeding, Ups, Downs, TaSteps, AuthSteps, EnrollSteps, NavSteps, ImageSteps,
       VersionSteps, Capturing, FrameSteps, ImagingSteps, TouchSteps, FactorySteps, SnrSteps,
       SramSteps, ChipSteps, SpeedSteps, Joined

\* Which these are.
LEMMA Needs ==
  /\ Needing = {"capture", "navcap", "chk", "gain", "shot", "tp", "qa", "snr", "sram", "chipid",
                "speed", "auth_step"}
  /\ Feeding = {"download", "wait_down", "get_down", "wait_nav"}
  /\ Ups = {"wait_up", "get_up", "get_up_unc"}
BY DEF Needing, Feeding, Ups, Downs, Capturing, FrameSteps, ImagingSteps, TouchSteps,
   FactorySteps,
       SnrSteps, SramSteps, ChipSteps, SpeedSteps

\* A list that needs nothing, and one that loads the chip at once, are fed.
LEMMA FedFacts ==
  ASSUME NEW q \in Seq(Commands)
  PROVE  /\ Quiet(q) => Fed(q) /\ UpsLast(q)
         /\ q # <<>> /\ Head(q) \in Feeding => Fed(q)
         /\ Avoids(q, Ups \cup {"fpcal"}) => UpsLast(q) /\ Ends(q)
<1>1. Quiet(q) => Fed(q) /\ UpsLast(q)
  BY DEF Quiet, Avoids, Fed, UpsLast
<1>2. q # <<>> /\ Head(q) \in Feeding => Fed(q)
  BY Kinds DEF Fed
<1>3. Avoids(q, Ups \cup {"fpcal"}) => UpsLast(q) /\ Ends(q)
  BY DEF Avoids, UpsLast, Ends
<1> QED BY <1>1, <1>2, <1>3

\* Lists that are joined.
LEMMA JoinFacts ==
  ASSUME NEW q \in Seq(Commands), NEW r \in Seq(Commands)
  PROVE  /\ q \o r \in Seq(Commands)
         /\ \A S : Avoids(q, S) /\ Avoids(r, S) => Avoids(q \o r, S)
         /\ q # <<>> => q \o r # <<>> /\ Head(q \o r) = Head(q)
         /\ r # <<>> => q \o r # <<>>
<1>1. /\ q \o r \in Seq(Commands) /\ Len(q \o r) = Len(q) + Len(r) /\ Len(q) \in Nat /\ Len(r) \in Nat
      /\ DOMAIN q = 1 .. Len(q) /\ DOMAIN r = 1 .. Len(r) /\ DOMAIN (q \o r) = 1 .. Len(q \o r)
  OBVIOUS
<1>2. \A i \in DOMAIN (q \o r) : (q \o r)[i] = IF i <= Len(q) THEN q[i] ELSE r[i - Len(q)]
  OBVIOUS
<1>3. ASSUME NEW S, Avoids(q, S), Avoids(r, S) PROVE Avoids(q \o r, S)
  BY <1>1, <1>2, <1>3 DEF Avoids
<1>4. q # <<>> => Len(q) > 0 /\ Head(q) = q[1]
  OBVIOUS
<1>5. r # <<>> => Len(r) > 0
  OBVIOUS
<1>6. Len(q \o r) > 0 => q \o r # <<>> /\ Head(q \o r) = (q \o r)[1]
  BY <1>1
<1> QED BY <1>1, <1>2, <1>3, <1>4, <1>5, <1>6

\* A command that does not need the program, put before a list.
LEMMA ConsFacts ==
  ASSUME NEW c \in Commands \ (Needing \cup {"fpcal"}), NEW q \in Seq(Commands)
  PROVE  /\ <<c>> \o q \in Seq(Commands) /\ <<c>> \o q # <<>>
         /\ Fed(q) => Fed(<<c>> \o q)
         /\ c \notin Ups /\ UpsLast(q) => UpsLast(<<c>> \o q)
         /\ Ends(q) => Ends(<<c>> \o q)
         /\ Quiet(q) => Quiet(<<c>> \o q)
<1> DEFINE r == <<c>> \o q
<1>1. /\ r \in Seq(Commands) /\ r # <<>> /\ Len(r) = Len(q) + 1 /\ Len(q) \in Nat
      /\ DOMAIN q = 1 .. Len(q) /\ DOMAIN r = 1 .. Len(r)
  OBVIOUS
<1>2. r[1] = c /\ \A i \in DOMAIN r : i # 1 => r[i] = q[i - 1] /\ i - 1 \in DOMAIN q
  OBVIOUS
<1> HIDE DEF r
<1>3. Quiet(q) => Quiet(r)
  BY <1>1, <1>2 DEF Quiet, Avoids
<1>4. c \notin Ups /\ UpsLast(q) => UpsLast(r)
  BY <1>1, <1>2 DEF UpsLast
<1>5. Ends(q) => Ends(r)
  BY <1>1, <1>2, <1>3 DEF Ends
<1>6. Fed(q) => Fed(r)
  <2> SUFFICES ASSUME Fed(q), NEW j \in DOMAIN r, r[j] \in Needing
               PROVE  \E i \in 1 .. j - 1 : r[i] \in Feeding
    BY DEF Fed
  <2>1. j # 1 /\ j - 1 \in DOMAIN q /\ q[j - 1] \in Needing
    BY <1>2
  <2>2. PICK i \in 1 .. (j - 1) - 1 : q[i] \in Feeding
    BY <2>1 DEF Fed
  <2>3. i + 1 \in DOMAIN r /\ r[i + 1] = q[i] /\ i + 1 \in 1 .. j - 1
    BY <1>1, <1>2, <2>1, <2>2
  <2> QED BY <2>2, <2>3
<1> QED BY <1>1, <1>3, <1>4, <1>5, <1>6 DEF r

\* A wait for the lift alone.
LEMMA LiftFacts ==
  ASSUME NEW u \in Ups
  PROVE  /\ <<u>> \in Seq(Commands) /\ <<u>> # <<>>
         /\ Quiet(<<u>>) /\ Fed(<<u>>) /\ UpsLast(<<u>>) /\ Ends(<<u>>)
<1>1. u \in Commands /\ u \notin Needing /\ u # "fpcal"
  BY Kinds DEF Commands
<1>2. <<u>> \in Seq(Commands) /\ <<u>> # <<>> /\ DOMAIN <<u>> = {1} /\ <<u>>[1] = u
  BY <1>1
<1>3. Quiet(<<u>>)
  BY <1>1, <1>2 DEF Quiet, Avoids
<1>4. Ends(<<u>>)
  BY <1>1, <1>2 DEF Ends
<1> QED BY <1>2, <1>3, <1>4, FedFacts
-----------------------------------------------------------------------------
(* The operations                                                          *)
-----------------------------------------------------------------------------
\* An operation that repeats all of it or none.
LEMMA SoundScript ==
  ASSUME NEW b \in Seq(Commands), NEW u \in Ups \cup {"none"}, NEW again \in BOOLEAN,
         b # <<>> \/ ~ again, Fed(b), Ends(b), UpsLast(b)
  PROVE  Sound(Script(b, u, again))
<1>1. <<>> \o b = b
  OBVIOUS
<1> QED BY <1>1 DEF Sound, Script, Rounds

\* One that loads the chip at once.
LEMMA SoundLoading ==
  ASSUME NEW b \in Seq(Commands), b # <<>>, Head(b) \in Feeding, Avoids(b, Ups \cup {"fpcal"}),
         NEW u \in Ups \cup {"none"}, NEW again \in BOOLEAN
  PROVE  Sound(Script(b, u, again))
BY FedFacts, SoundScript

\* One whose start only the TA sees.
LEMMA SoundRounds ==
  ASSUME NEW c \in {"auth_start", "enroll_start"},
         NEW b \in Seq(Commands), b # <<>>, Head(b) \in Feeding, Avoids(b, Ups \cup {"fpcal"}),
         NEW u \in Ups
  PROVE  Sound(Rounds(<<c>>, b, u, TRUE))
<1>1. c \in Commands \ (Needing \cup Ups \cup {"fpcal"}) /\ <<c>> \in Seq(Commands)
  BY Needs DEF Commands, TaSteps, AuthSteps, EnrollSteps
<1>2. Fed(b) /\ UpsLast(b) /\ Ends(b)
  BY FedFacts
<1>3. Fed(<<c>> \o b) /\ UpsLast(<<c>> \o b) /\ Ends(<<c>> \o b)
  BY <1>1, <1>2, ConsFacts
<1> QED BY <1>1, <1>2, <1>3 DEF Sound, Rounds

\* The image is captured by commands the chip must be ready for.
LEMMA ImageFacts ==
  ASSUME NEW c \in {"auth_step", "enroll_step"}
  PROVE  /\ Image \o <<c>> \in Seq(Commands) /\ Image \o <<c>> # <<>>
         /\ Avoids(Image \o <<c>>, Ups \cup {"fpcal"})
<1>1. Image \in Seq(Commands) /\ Image # <<>> /\ Avoids(Image, Ups \cup {"fpcal"})
  BY Needs DEF Image, Commands, Capturing, TouchSteps, ImagingSteps, Avoids
<1>2. <<c>> \in Seq(Commands) /\ Avoids(<<c>>, Ups \cup {"fpcal"})
  BY Needs DEF Commands, TaSteps, AuthSteps, EnrollSteps, Avoids
<1> QED BY <1>1, <1>2, JoinFacts

LEMMA TouchedRound ==
  ASSUME NEW d \in {"get_down", "wait_down"}, NEW c \in {"auth_step", "enroll_step"}
  PROVE  LET b == <<d>> \o Image \o <<c>>
         IN  /\ b \in Seq(Commands) /\ b # <<>> /\ Head(b) \in Feeding
             /\ Avoids(b, Ups \cup {"fpcal"})
<1>1. Image \in Seq(Commands) /\ Image # <<>> /\ Avoids(Image, Ups \cup {"fpcal"})
  BY Needs DEF Image, Commands, Capturing, TouchSteps, ImagingSteps, Avoids
<1>2. <<c>> \in Seq(Commands) /\ Avoids(<<c>>, Ups \cup {"fpcal"})
  BY Needs DEF Commands, TaSteps, AuthSteps, EnrollSteps, Avoids
<1>3. <<d>> \in Seq(Commands) /\ <<d>> # <<>> /\ Head(<<d>>) \in Feeding /\ Avoids(<<d>>, Ups \cup {"fpcal"})
  BY Needs DEF Commands, Downs, Avoids
<1> DEFINE i == <<d>> \o Image
<1>4. i \in Seq(Commands) /\ i # <<>> /\ Head(i) \in Feeding /\ Avoids(i, Ups \cup {"fpcal"})
  BY <1>1, <1>3, JoinFacts
<1> HIDE DEF i
<1>5. /\ i \o <<c>> \in Seq(Commands) /\ i \o <<c>> # <<>> /\ Head(i \o <<c>>) \in Feeding
      /\ Avoids(i \o <<c>>, Ups \cup {"fpcal"})
  BY <1>2, <1>4, JoinFacts
<1> QED BY <1>5 DEF i

\* Every operation the worker takes up is sound.
LEMMA ScriptsSound == \A s \in Scripts : Sound(s)
<1> USE DEF Commands, TaSteps, ImageSteps, VersionSteps, Capturing, FrameSteps, ImagingSteps,
            FactorySteps, SnrSteps, SramSteps, ChipSteps, SpeedSteps, Downs
<1>1. Sound(Enroll)
  BY TouchedRound, SoundRounds DEF Enroll, Ups
<1>2. Sound(Auth)
  BY TouchedRound, SoundRounds DEF Auth, Ups
<1>3. Sound(Lock)
  <2> DEFINE b == <<"wait_down">>
  <2>1. b \in Seq(Commands) /\ b # <<>> /\ Head(b) \in Feeding /\ Avoids(b, Ups \cup {"fpcal"})
    BY Needs DEF Avoids
  <2> QED BY <2>1, SoundLoading DEF Lock, Ups
<1>4. Sound(GetImage)
  <2> DEFINE b == <<"get_down", "chk", "gain", "image", "shot", "image">>
  <2>1. b \in Seq(Commands) /\ b # <<>> /\ Head(b) \in Feeding /\ Avoids(b, Ups \cup {"fpcal"})
    BY Needs DEF Avoids
  <2> QED BY <2>1, SoundLoading DEF GetImage, Ups
<1>5. Sound(Speed)
  <2> DEFINE b == <<"get_down", "speed">>
  <2>1. b \in Seq(Commands) /\ b # <<>> /\ Head(b) \in Feeding /\ Avoids(b, Ups \cup {"fpcal"})
    BY Needs DEF Avoids
  <2> QED BY <2>1, SoundLoading DEF Speed, Ups
<1>6. Sound(Quality)
  <2> DEFINE b == <<"get_down", "capture", "image">>
  <2>1. b \in Seq(Commands) /\ b # <<>> /\ Head(b) \in Feeding /\ Avoids(b, Ups \cup {"fpcal"})
    BY Needs DEF Avoids
  <2> QED BY <2>1, SoundLoading DEF Quality, Ups
<1>7. Sound(Aging)
  <2> DEFINE b == <<"download", "chk", "gain", "gain">>
  <2>1. b \in Seq(Commands) /\ b # <<>> /\ Head(b) \in Feeding /\ Avoids(b, Ups \cup {"fpcal"})
    BY Needs DEF Avoids
  <2> QED BY <2>1, SoundLoading DEF Aging
<1>8. Sound(Factory)
  <2> DEFINE b == <<"download", "qa", "snr">>
  <2>1. b \in Seq(Commands) /\ b # <<>> /\ Head(b) \in Feeding /\ Avoids(b, Ups \cup {"fpcal"})
    BY Needs DEF Avoids
  <2> QED BY <2>1, SoundLoading DEF Factory
<1>9. Sound(SpiTest)
  <2> DEFINE b == <<"download", "chipid", "download", "sram">>
  <2>1. b \in Seq(Commands) /\ b # <<>> /\ Head(b) \in Feeding /\ Avoids(b, Ups \cup {"fpcal"})
    BY Needs DEF Avoids
  <2> QED BY <2>1, SoundLoading DEF SpiTest
<1>10. Sound(Reset)
  <2> DEFINE b == <<"download">>
  <2>1. b \in Seq(Commands) /\ b # <<>> /\ Head(b) \in Feeding /\ Avoids(b, Ups \cup {"fpcal"})
    BY Needs DEF Avoids
  <2> QED BY <2>1, SoundLoading DEF Reset
<1>11. Sound(Silent)
  <2> DEFINE b == <<"version", "frrfar", "finish">>
  <2>1. b \in Seq(Commands) /\ b # <<>> /\ Quiet(b) /\ Avoids(b, Ups \cup {"fpcal"})
    BY Needs DEF Avoids, Quiet
  <2>2. Fed(b) /\ UpsLast(b) /\ Ends(b)
    BY <2>1, FedFacts
  <2> QED BY <2>1, <2>2, SoundScript DEF Silent
<1> QED
  BY <1>1, <1>2, <1>3, <1>4, <1>5, <1>6, <1>7, <1>8, <1>9, <1>10, <1>11 DEF Scripts

\* A stroke loads the chip with its wait; in light navigation another wait and
\* another capture come after it.
LEMMA NavSound == ASSUME NEW type \in NavTypes PROVE Sound(Nav(type))
<1> DEFINE r == <<"wait_up", "navcap", "nav_step">>
           w == <<"wait_nav", "navcap", "nav_step">>
<1> USE DEF Commands, TaSteps, NavSteps, Capturing, FrameSteps, Downs, Ups
<1>1. "nav_start" \in Commands \ (Needing \cup Ups \cup {"fpcal"})
  BY Needs
<1>2. w \in Seq(Commands) /\ w # <<>> /\ Head(w) \in Feeding /\ Avoids(w, Ups \cup {"fpcal"})
  BY Needs DEF Avoids
<1>3. Stroke \in Seq(Commands) /\ Stroke # <<>> /\ Fed(Stroke) /\ Avoids(Stroke, Ups \cup {"fpcal"})
  BY Needs DEF Avoids, Stroke, Fed
<1>4. CASE type # "LITE"
  BY <1>3, <1>4, FedFacts, SoundScript DEF Nav
<1>5. CASE type = "LITE"
  <2>1. r \in Seq(Commands) /\ Avoids(r, {"fpcal"})
    BY DEF Avoids
  <2>2. Avoids(Stroke, {"fpcal"})
    BY <1>3 DEF Avoids
  <2>3. Stroke \o r \in Seq(Commands) /\ Stroke \o r # <<>> /\ Avoids(Stroke \o r, {"fpcal"})
    BY <1>3, <2>1, <2>2, JoinFacts
  <2>4. Ends(Stroke \o r)
    BY <2>3 DEF Avoids, Ends
  <2>5. Fed(Stroke \o r)
    BY <1>3, <2>1, Needs DEF Fed, Stroke
  <2> HIDE DEF r
  <2>6. Nav(type) = Script(Stroke \o r, "none", FALSE)
    BY <1>5 DEF Nav, r
  <2>7. Sound(Nav(type))
    <3> DEFINE b == Stroke \o r
    <3>1. <<>> \o b = b
      BY <2>3
    <3>2. Nav(type).start = <<>> /\ Nav(type).body = b /\ Nav(type).up = "none" /\ Nav(type).again = FALSE
      BY <2>6 DEF Script, Rounds
    <3> HIDE DEF b, Commands
    <3>3. b \in Seq(Commands) /\ b # <<>> /\ Ends(b) /\ Fed(b)
      BY <2>3, <2>4, <2>5 DEF b
    <3>4. <<>> \in Seq(Commands)
      OBVIOUS
    <3>5. \A q \in {Nav(type).start \o Nav(type).body, Nav(type).body} : q = b
      BY <3>1, <3>2
    <3> QED BY <1>5, <3>2, <3>3, <3>4, <3>5 DEF Sound
  <2> QED BY <2>7
<1> QED BY <1>4, <1>5

\* Calibration never needs what it loads, and ends with a download.
LEMMA CalibrateFacts ==
  ASSUME NEW b, NEW f
  PROVE  /\ Sound(Calibrate(b, f)) /\ Quiet(Calibrate(b, f).body)
         /\ Calibrate(b, f).start = <<>> /\ Calibrate(b, f).up = "none" /\ ~ Calibrate(b, f).again
<1> DEFINE bad == Needing \cup Ups
           c1 == IF "cal" \in f THEN <<"fpcal">> ELSE <<>>
           c2 == IF "cal2" \in f THEN <<"fpcal2">> ELSE <<>>
           c3 == IF f \cap {"cal", "cal2"} # {} THEN <<"download">> ELSE <<>>
           q  == c1 \o c2 \o c3
<1>1. SUFFICES ASSUME NEW body \in Seq(Commands), Quiet(body), Ends(body),
                      Calibrate(b, f) = Script(body, "none", FALSE)
               PROVE  /\ Sound(Calibrate(b, f)) /\ Quiet(Calibrate(b, f).body)
                      /\ Calibrate(b, f).start = <<>> /\ Calibrate(b, f).up = "none"
                      /\ ~ Calibrate(b, f).again
  <2>1. CASE b = "optic"
    <3> DEFINE o == <<"download", "cal", "download", "cal", "download", "cal">>
    <3>1. o \in Seq(Commands) /\ Quiet(o) /\ Ends(o)
      BY Needs DEF Commands, Quiet, Avoids, Ends
    <3> QED BY <1>1, <2>1, <3>1 DEF Calibrate, Optic
  <2>2. CASE b # "optic"
    <3>1. /\ c1 \in Seq(Commands) /\ c2 \in Seq(Commands) /\ c3 \in Seq(Commands)
          /\ Avoids(c1, Needing) /\ Avoids(c2, Needing) /\ Avoids(c3, Needing)
          /\ Avoids(c2, {"fpcal"}) /\ Avoids(c3, {"fpcal"})
      <4>1. /\ c1 \in {<<>>, <<"fpcal">>} /\ c2 \in {<<>>, <<"fpcal2">>}
            /\ c3 \in {<<>>, <<"download">>}
        OBVIOUS
      <4>2. \A c \in {"fpcal", "fpcal2", "download"} :
              <<c>> \in Seq(Commands) /\ Avoids(<<c>>, Needing) /\ (c # "fpcal" => Avoids(<<c>>, {"fpcal"}))
        BY Needs DEF Commands, Avoids
      <4>3. <<>> \in Seq(Commands) /\ \A S : Avoids(<<>>, S)
        BY DEF Avoids
      <4> HIDE DEF c1, c2, c3
      <4> QED BY <4>1, <4>2, <4>3
    <3>2. c1 = <<>> \/ c3 = <<"download">>
      OBVIOUS
    <3>3. c1 = <<>> => Avoids(c1, {"fpcal"})
      BY DEF Avoids
    <3> HIDE DEF c1, c2, c3
    <3>4. c1 \o c2 \in Seq(Commands) /\ Avoids(c1 \o c2, Needing)
      BY <3>1, JoinFacts
    <3>5. q \in Seq(Commands) /\ Avoids(q, Needing)
      BY <3>1, <3>4, JoinFacts
    <3>6. ASSUME c1 = <<>> PROVE Ends(q)
      <4>1. Avoids(c1 \o c2, {"fpcal"})
        BY <3>1, <3>3, <3>6, JoinFacts
      <4>2. Avoids(q, {"fpcal"})
        BY <3>1, <3>4, <4>1, JoinFacts
      <4> QED BY <3>5, <4>2 DEF Avoids, Ends
    <3>7. ASSUME c3 = <<"download">> PROVE Ends(q)
      <4> DEFINE p == c1 \o c2
      <4>1. p \in Seq(Commands)
        BY <3>4
      <4> HIDE DEF p
      <4>2. \A i \in DOMAIN (p \o <<"download">>) :
              i >= Len(p \o <<"download">>) => (p \o <<"download">>)[i] = "download"
        BY <4>1
      <4>3. q = p \o <<"download">>
        BY <3>7 DEF p
      <4>4. \A i \in DOMAIN q : i \in Nat /\ Len(q) \in Nat
        BY <3>5
      <4> HIDE DEF q
      <4>5. \A i \in DOMAIN q : q[i] = "fpcal" => i < Len(q)
        BY <4>2, <4>3, <4>4
      <4> QED BY <3>5, <4>5 DEF Ends, Quiet, q
    <3>8. Ends(q) /\ Quiet(q)
      BY <3>2, <3>5, <3>6, <3>7 DEF Quiet
    <3>9. Calibrate(b, f) = Script(q, "none", FALSE)
      BY <2>2 DEF Calibrate, c1, c2, c3
    <3> HIDE DEF q
    <3> QED BY <1>1, <3>5, <3>8, <3>9 DEF q
  <2> QED BY <2>1, <2>2
<1>2. Fed(body) /\ UpsLast(body)
  BY <1>1, FedFacts
<1>3. Sound(Script(body, "none", FALSE))
  BY <1>1, <1>2, SoundScript
<1> QED BY <1>1, <1>3 DEF Script, Rounds

\* Some operations are told apart by what they end with.
LEMMA Apart ==
  /\ Auth # Nav("LITE") /\ \A b, f : Auth # Calibrate(b, f)
  /\ Auth # Aging
  /\ Aging.up = "none" /\ Aging \notin {Quality, GetImage} /\ Aging # Nav("LITE")
  /\ \A b, f : Calibrate(b, f) \notin {Quality, GetImage}
  /\ Quality.up \in Ups /\ GetImage.up \in Ups
  /\ Aging.start = <<>> /\ Aging.body \in Seq(Commands) /\ Plain(Aging.body)
<1>1. Auth.up = "wait_up" /\ Auth.again = TRUE
  BY DEF Auth, Rounds
<1>2. Nav("LITE").again = FALSE
  BY DEF Nav, Script, Rounds
<1>3. Quality.up = "get_up_unc" /\ GetImage.up = "get_up"
  BY DEF Quality, GetImage, Script, Rounds
<1>4. Aging.up = "none" /\ Aging.start = <<>> /\ Aging.body = <<"download", "chk", "gain", "gain">>
  BY DEF Aging, Script, Rounds
<1>5. Aging.body \in Seq(Commands) /\ Plain(Aging.body)
  BY <1>4, Needs DEF Commands, Capturing, ImagingSteps, Plain, Avoids, Downs
<1>6. Aging # Nav("LITE")
  <2>1. Aging.body[1] = "download"
    BY <1>4
  <2>2. Nav("LITE").body[1] = "nav_start"
    BY DEF Nav, Script, Rounds, Stroke
  <2> QED BY <2>1, <2>2
<1>7. \A b, f : Calibrate(b, f).up = "none"
  BY CalibrateFacts
<1> QED BY <1>1, <1>2, <1>3, <1>4, <1>5, <1>6, <1>7 DEF Ups
-----------------------------------------------------------------------------
(* Steps of an operation                                                   *)
-----------------------------------------------------------------------------
LEMMA Facts ==
  ASSUME IInv
  PROVE  /\ TypeOK /\ DataOK /\ CountsOK /\ TodoOK /\ ChipOK /\ SavedOK /\ ConfigNotForgotten
         /\ todo \in Seq(Commands) /\ Sound(script)
         /\ pc \in Busy => todo # <<>> /\ Head(todo) = todo[1] /\ 1 \in DOMAIN todo
<1>1. todo \in Seq(Commands)
  BY DEF IInv, DataOK
<1>2. pc \in Busy => todo # <<>>
  BY DEF IInv, TypeOK, Busy
<1>3. todo # <<>> => Head(todo) = todo[1] /\ 1 \in DOMAIN todo
  BY <1>1
<1> QED BY <1>1, <1>2, <1>3 DEF IInv, DataOK

\* A poll that ends the loop feature does not change what calibration is.
LEMMA CalibrateSame ==
  ASSUME features' \in {features, features \ {"loop"}}
  PROVE  \A b : Calibrate(b, features') = Calibrate(b, features)
<1>1. ("cal" \in features' <=> "cal" \in features) /\ ("cal2" \in features' <=> "cal2" \in features)
  OBVIOUS
<1>2. features' \cap {"cal", "cal2"} = features \cap {"cal", "cal2"}
  BY <1>1
<1> QED BY <1>1, <1>2 DEF Calibrate

\* A command that ends keeps the list of those to come in order.
LEMMA StepKeeps ==
  ASSUME IInv, NEW r \in Results, pc \in Busy, Step(r), UNCHANGED <<build, script>>,
         features' \in {features, features \ {"loop"}},
         r = "ok" \/ Forgiven => Asleep \/ chip' \in Loaded \/ Fed(Tail(todo))
  PROVE  /\ TodoOK' /\ todo' \in Seq(Commands) /\ wait' = NoWait
         /\ (pc' = "run" /\ todo' # <<>>) \/ pc' = "done"
         /\ pc' = "run" /\ ~ Asleep' => chip' \in Loaded \/ Fed(todo')
<1>1. /\ todo \in Seq(Commands) /\ todo # <<>> /\ Sound(script)
      /\ Ends(todo) /\ (UpsLast(todo) \/ script = Nav("LITE"))
      /\ script = Calibrate(build, features) => Quiet(todo)
      /\ script = Aging => Plain(todo)
  BY Facts DEF TodoOK
<1>2. Calibrate(build', features') = Calibrate(build, features) /\ script' = script
  BY CalibrateSame
<1>3. Asleep' <=> Asleep
  BY DEF Asleep
<1>4. ASSUME pc' = "done", todo' = <<>>, wait' = NoWait
      PROVE  /\ TodoOK' /\ todo' \in Seq(Commands) /\ wait' = NoWait
             /\ (pc' = "run" /\ todo' # <<>>) \/ pc' = "done"
             /\ pc' = "run" /\ ~ Asleep' => chip' \in Loaded \/ Fed(todo')
  BY <1>4 DEF TodoOK, Busy, WaitPcs
<1>5. ASSUME pc' = "run", wait' = NoWait, todo' \in Seq(Commands), todo' # <<>>,
             Ends(todo'), UpsLast(todo') \/ script = Nav("LITE"),
             script = Calibrate(build, features) => Quiet(todo'),
             script = Aging => Plain(todo'),
             Asleep \/ chip' \in Loaded \/ Fed(todo')
      PROVE  /\ TodoOK' /\ todo' \in Seq(Commands) /\ wait' = NoWait
             /\ (pc' = "run" /\ todo' # <<>>) \/ pc' = "done"
             /\ pc' = "run" /\ ~ Asleep' => chip' \in Loaded \/ Fed(todo')
  BY <1>2, <1>3, <1>5 DEF TodoOK
<1>6. CASE todo = <<script.up>> /\ script.again /\ ~ cancel
  <2>1. todo' = script.body /\ pc' = "run" /\ wait' = NoWait
    BY <1>6 DEF Step
  <2>2. script.body \in Seq(Commands) /\ script.body # <<>> /\ Fed(script.body) /\ Ends(script.body)
        /\ (UpsLast(script.body) \/ script = Nav("LITE"))
    BY <1>1, <1>6 DEF Sound
  <2> QED BY <1>5, <2>1, <2>2, CalibrateFacts, Apart
<1>7. CASE todo = <<script.up>> /\ ~ (script.again /\ ~ cancel)
  BY <1>4, <1>7 DEF Step
<1>8. CASE todo # <<script.up>> /\ (r = "ok" \/ Forgiven) /\ Tail(todo) # <<>>
  <2>1. todo' = Tail(todo) /\ pc' = "run" /\ wait' = NoWait
    BY <1>8 DEF Step
  <2> QED BY <1>1, <1>5, <1>8, <2>1, TailFacts
<1>9. ASSUME NEW q, Lift(q)
      PROVE  /\ TodoOK' /\ todo' \in Seq(Commands) /\ wait' = NoWait
             /\ (pc' = "run" /\ todo' # <<>>) \/ pc' = "done"
             /\ pc' = "run" /\ ~ Asleep' => chip' \in Loaded \/ Fed(todo')
  <2>1. CASE todo' = <<>>
    BY <1>4, <1>9, <2>1 DEF Lift
  <2>2. CASE todo' # <<>>
    <3>1. todo' = <<script.up>> /\ pc' = "run" /\ wait' = NoWait /\ script.up \in Ups /\ script # Aging
      BY <1>1, <1>9, <2>2, Apart DEF Lift, Sound
    <3> QED BY <1>5, <3>1, LiftFacts
  <2> QED BY <2>1, <2>2
<1> QED BY <1>6, <1>7, <1>8, <1>9 DEF Step

LEMMA StepIInv ==
  ASSUME IInv, NEW r \in Results, pc \in Busy, Step(r), UNCHANGED <<opening, script>>,
         features' \in {features, features \ {"loop"}},
         r = "ok" \/ Forgiven => Asleep \/ chip' \in Loaded \/ Fed(Tail(todo)),
         chip' \in Loaded \cup {chip}, cancel' = cancel,
         bits' \subseteq {"CHG", "UP", "DOWN"}, changed' \in BOOLEAN, lost' \in BOOLEAN,
         ConfigNotForgotten'
  PROVE  IInv'
<1> USE DEF opening
<1>1. /\ TodoOK' /\ todo' \in Seq(Commands) /\ wait' = NoWait
      /\ (pc' = "run" /\ todo' # <<>>) \/ pc' = "done"
      /\ pc' = "run" /\ ~ Asleep' => chip' \in Loaded \/ Fed(todo')
  BY StepKeeps
<1>2. TypeOK'
  <2>1. pc' \notin WaitPcs /\ (pc' = "run" => todo' # <<>>)
    BY <1>1 DEF WaitPcs
  <2>2. wait'.retry \in 0 .. Retries
    BY <1>1, SensorOK DEF NoWait
  <2>3. features' \subseteq Features /\ chip' \in {"off", "reset", "ready", "failed"} /\ cancel' \in BOOLEAN
    BY Facts DEF TypeOK, Loaded
  <2> QED BY <1>1, <2>1, <2>2, <2>3, Facts DEF TypeOK
<1>3. DataOK'
  <2>1. Sound(script')
    BY Facts
  <2>2. wait' \in [for : {"none", "down", "up", "nav"}, unc : BOOLEAN, retry : 0 .. Retries, ret : Results]
    BY <1>1, SensorOK DEF NoWait, Results
  <2> QED BY <1>1, <2>1, <2>2, Facts DEF DataOK
<1>4. CountsOK'
  BY <1>1 DEF CountsOK, OpenPcs
<1>5. ChipOK'
  BY <1>1 DEF ChipOK
<1>6. SavedOK'
  BY <1>1 DEF SavedOK, OpenPcs
<1> QED BY <1>1, <1>2, <1>3, <1>4, <1>5, <1>6 DEF IInv

\* A failure is forgiven only where nothing after it needs the program.
LEMMA WaitFails ==
  ASSUME IInv, pc \in WaitPcs, Forgiven
  PROVE  Fed(Tail(todo))
<1>1. Head(todo) \in Downs \cup Ups /\ todo \in Seq(Commands) /\ todo # <<>>
      /\ Head(todo) = todo[1] /\ 1 \in DOMAIN todo
  BY Facts DEF TypeOK, Busy
<1>2. Head(todo) \notin Joined
  BY <1>1, Kinds
<1>3. script = Aging => Plain(todo)
  BY Facts DEF TodoOK, Busy
<1>4. script # Aging
  BY <1>1, <1>3 DEF Plain, Avoids
<1>5. script = Calibrate(build, features)
  BY <1>2, <1>4 DEF Forgiven
<1>6. Quiet(todo)
  BY <1>5, Facts DEF TodoOK, Busy
<1> QED BY <1>1, <1>6, TailFacts, FedFacts

\* What begins is in order.
LEMMA BeginIInv ==
  ASSUME IInv, NEW s, Sound(s), Begin(s), UNCHANGED <<build, opens, inited, conf, chip, config>>,
         features' \subseteq Features, "irqpwdn" \in features' => "reinit" \in features',
         cancel' = FALSE, tries' \in 0 .. Attempts, ConfigNotForgotten'
  PROVE  IInv'
<1> DEFINE q == s.start \o s.body
<1> USE DEF config
<1>1. /\ s.start \in Seq(Commands) /\ s.body \in Seq(Commands)
      /\ Fed(q) /\ Ends(q) /\ (UpsLast(q) \/ s = Nav("LITE"))
  BY DEF Sound
<1>2. q \in Seq(Commands) /\ (s.body # <<>> => q # <<>>)
  BY <1>1, JoinFacts
<1>3. /\ script' = s /\ todo' = q /\ wait' = NoWait
      /\ (pc' = "run" /\ q # <<>>) \/ pc' = "done"
  BY <1>2 DEF Begin
<1>4. s = Calibrate(build, features') => Quiet(q)
  <2> SUFFICES ASSUME s = Calibrate(build, features') PROVE Quiet(q)
    OBVIOUS
  <2>1. s.start = <<>> /\ Quiet(s.body)
    BY CalibrateFacts
  <2>2. q = s.body
    BY <1>1, <2>1
  <2> QED BY <2>1, <2>2
<1>5. s = Aging => Plain(q)
  <2> SUFFICES ASSUME s = Aging PROVE Plain(q)
    OBVIOUS
  <2>1. s.start = <<>> /\ Plain(s.body)
    BY Apart
  <2>2. q = s.body
    BY <1>1, <2>1
  <2> QED BY <2>1, <2>2
<1> HIDE DEF q
<1>6. TypeOK'
  <2>1. pc' \notin WaitPcs /\ (pc' = "run" => todo' # <<>>)
    BY <1>3 DEF WaitPcs
  <2>2. wait'.retry \in 0 .. Retries
    BY <1>3, SensorOK DEF NoWait
  <2> QED BY <1>3, <2>1, <2>2, Facts DEF TypeOK
<1>7. DataOK'
  <2>1. wait' \in [for : {"none", "down", "up", "nav"}, unc : BOOLEAN, retry : 0 .. Retries, ret : Results]
    BY <1>3, SensorOK DEF NoWait, Results
  <2> QED BY <1>2, <1>3, <2>1 DEF DataOK
<1>8. CountsOK'
  BY <1>3 DEF CountsOK, OpenPcs
<1>9. TodoOK'
  BY <1>1, <1>3, <1>4, <1>5 DEF TodoOK
<1>10. ChipOK'
  BY <1>1, <1>3 DEF ChipOK
<1>11. SavedOK'
  BY <1>3 DEF SavedOK, OpenPcs
<1> QED BY <1>6, <1>7, <1>8, <1>9, <1>10, <1>11 DEF IInv
-----------------------------------------------------------------------------
(* The actions                                                             *)
-----------------------------------------------------------------------------
\* Where the configuration is left alone nothing is forgotten.
LEMMA ConfigSame ==
  ASSUME IInv, UNCHANGED config, features' \in {features, features \ {"loop"}}
  PROVE  /\ ConfigNotForgotten'
         /\ bits' \subseteq {"CHG", "UP", "DOWN"} /\ changed' \in BOOLEAN /\ lost' \in BOOLEAN
<1> USE DEF config
<1>1. features' \cap {"cal", "cal2"} = features \cap {"cal", "cal2"}
  OBVIOUS
<1>2. ConfigNotForgotten'
  BY <1>1, Facts DEF ConfigNotForgotten
<1>3. bits' \subseteq {"CHG", "UP", "DOWN"} /\ changed' \in BOOLEAN /\ lost' \in BOOLEAN
  BY Facts DEF TypeOK
<1> QED BY <1>2, <1>3

\* Saving clears the mark only when it is done with it or has failed.
LEMMA Saves ==
  ASSUME IInv, NEW b \in SUBSET {"CHG", "UP", "DOWN"}, NEW d \in BOOLEAN, Save(b, d),
         features' \in {features, features \ {"loop"}},
         d => "CHG" \in b \/ lost \/ features \cap {"cal", "cal2"} = {}
  PROVE  /\ ConfigNotForgotten'
         /\ bits' \subseteq {"CHG", "UP", "DOWN"} /\ changed' \in BOOLEAN /\ lost' \in BOOLEAN
<1>1. features' \cap {"cal", "cal2"} = features \cap {"cal", "cal2"}
  OBVIOUS
<1>2. lost \in BOOLEAN
  BY Facts DEF TypeOK
<1>3. bits' \subseteq {"CHG", "UP", "DOWN"} /\ changed' \in BOOLEAN /\ lost' \in BOOLEAN
  BY <1>2 DEF Save
<1>4. ConfigNotForgotten'
  BY <1>1 DEF Save, ConfigNotForgotten
<1> QED BY <1>3, <1>4

\* A finger that is seen does not clear the mark.
LEMMA SeenSaves ==
  ASSUME IInv, NEW for, Save(Seen(for), changed), features' \in {features, features \ {"loop"}}
  PROVE  /\ ConfigNotForgotten'
         /\ bits' \subseteq {"CHG", "UP", "DOWN"} /\ changed' \in BOOLEAN /\ lost' \in BOOLEAN
<1>1. Seen(for) \in SUBSET {"CHG", "UP", "DOWN"} /\ ("CHG" \in bits => "CHG" \in Seen(for))
  BY Facts DEF TypeOK, Seen
<1>2. changed \in BOOLEAN /\ (changed => "CHG" \in bits \/ lost \/ features \cap {"cal", "cal2"} = {})
  BY Facts DEF TypeOK, ConfigNotForgotten
<1> QED BY <1>1, <1>2, Saves

\* A step inside a wait.
LEMMA WaitStep ==
  ASSUME IInv, pc \in Busy, pc' \in WaitPcs, Head(todo) \in Downs \cup Ups,
         UNCHANGED <<opening, script, todo, cancel>>, features' \in {features, features \ {"loop"}},
         wait' \in [for : {"none", "down", "up", "nav"}, unc : BOOLEAN, retry : 0 .. Retries, ret : Results],
         wait'.for = For(Head(todo)), chip' \in {"off", "reset", "ready", "failed"},
         bits' \subseteq {"CHG", "UP", "DOWN"}, changed' \in BOOLEAN, lost' \in BOOLEAN,
         ConfigNotForgotten', CountsOK', ChipOK'
  PROVE  IInv'
<1> USE DEF opening
<1>1. TypeOK'
  BY Facts DEF TypeOK, WaitPcs, For
<1>2. DataOK'
  BY Facts DEF DataOK
<1>3. TodoOK'
  BY CalibrateSame, Facts DEF TodoOK
<1>4. SavedOK'
  BY DEF SavedOK, OpenPcs, WaitPcs
<1> QED BY <1>1, <1>2, <1>3, <1>4 DEF IInv

\* A step outside the operations.
LEMMA OpenStep ==
  ASSUME IInv, pc' \in OpenPcs \cup {"closed", "done", "rest"},
         Sound(script'), todo' = todo, features' = features, wait' = wait, cancel' = cancel, build' = build,
         tries' \in 0 .. Attempts, pc' \in OpenPcs => tries' > 0, opens' \in 0 .. MaxOpens,
         inited' \in BOOLEAN, conf' \in {"none", "empty", "full"},
         chip' \in {"off", "reset", "ready", "failed"},
         bits' = bits, lost' = lost, changed' \in {changed, FALSE}, SavedOK'
  PROVE  IInv'
<1> USE DEF OpenPcs
<1>1. pc' \notin Busy
  BY DEF Busy, WaitPcs
<1>2. TypeOK'
  BY <1>1, Facts DEF TypeOK, Busy
<1>3. DataOK'
  BY Facts DEF DataOK
<1>4. CountsOK'
  BY DEF CountsOK
<1>5. TodoOK' /\ ChipOK'
  BY <1>1 DEF TodoOK, ChipOK, Busy, WaitPcs
<1>6. ConfigNotForgotten'
  BY Facts DEF ConfigNotForgotten
<1> QED BY <1>2, <1>3, <1>4, <1>5, <1>6 DEF IInv

LEMMA OpeningIInv == IInv /\ Opening => IInv'
<1> SUFFICES ASSUME IInv, Opening PROVE IInv'
  OBVIOUS
<1> USE DEF opening, config
<1>1. /\ tries \in 0 .. Attempts /\ opens \in 0 .. MaxOpens /\ MaxOpens \in Nat /\ inited \in BOOLEAN
      /\ conf \in {"none", "empty", "full"} /\ chip \in {"off", "reset", "ready", "failed"}
      /\ Sound(script) /\ (pc \in OpenPcs => tries > 0) /\ SavedOK
  BY Facts, SensorOK DEF TypeOK, CountsOK
<1>2. ASSUME Failed, pc \in OpenPcs, changed' = changed
      PROVE  /\ tries' \in 0 .. Attempts /\ (pc' \in OpenPcs => tries' > 0)
             /\ pc' \in OpenPcs \cup {"closed"} /\ SavedOK'
  BY <1>1, <1>2 DEF Failed, OpenPcs, SavedOK, Attempts
<1>3. CASE Open
  <2>1. tries' \in 0 .. Attempts /\ tries' > 0 /\ opens' \in 0 .. MaxOpens /\ SavedOK'
    BY <1>1, <1>3 DEF Open, SavedOK, OpenPcs, Attempts
  <2> QED BY <1>1, <1>3, <2>1, OpenStep DEF Open, OpenPcs
<1>4. CASE DevInit
  <2>1. CASE Failed
    BY <1>1, <1>2, <1>4, <2>1, OpenStep DEF DevInit, Describe, HwReset, OpenPcs
  <2>2. CASE ~ Failed
    <3>1. pc' \in {"ta_full", "ta_empty"} /\ inited' = TRUE /\ SavedOK'
      BY <1>1, <1>4, <2>2 DEF DevInit, Describe, SavedOK, OpenPcs
    <3> QED BY <1>1, <1>4, <2>2, <3>1, OpenStep DEF DevInit, Describe, HwReset, OpenPcs
  <2> QED BY <2>1, <2>2
<1>5. CASE TaInit
  <2>1. CASE Failed /\ UNCHANGED conf
    BY <1>1, <1>2, <1>5, <2>1, OpenStep DEF TaInit, OpenPcs
  <2>2. CASE ~ (Failed /\ UNCHANGED conf)
    <3>1. conf' \in {"none", "empty", "full"} /\ pc' = "init2" /\ UNCHANGED tries /\ SavedOK'
      BY <1>1, <1>5, <2>2 DEF TaInit, SavedOK, OpenPcs
    <3> QED BY <1>1, <1>5, <3>1, OpenStep DEF TaInit, OpenPcs
  <2> QED BY <2>1, <2>2
<1>6. CASE Init2
  <2>1. CASE Failed /\ UNCHANGED <<features, script, todo, wait, cancel>>
    BY <1>1, <1>2, <1>6, <2>1, OpenStep DEF Init2, OpenPcs
  <2>2. ASSUME features' \in FeatureSets, Begin(Calibrate(build, features')), cancel' = FALSE, tries' = 0
        PROVE  IInv'
    <3>1. UNCHANGED <<build, opens, inited, conf, chip, config>> /\ pc = "init2"
      BY <1>6 DEF Init2
    <3>2. Sound(Calibrate(build, features'))
      BY CalibrateFacts
    <3>3. features' \subseteq Features /\ ("irqpwdn" \in features' => "reinit" \in features')
      BY <2>2, SensorOK
    <3>4. ConfigNotForgotten'
      BY <1>1, <3>1 DEF SavedOK, OpenPcs, ConfigNotForgotten
    <3>5. tries' \in 0 .. Attempts
      BY <2>2 DEF Attempts
    <3> QED BY <2>2, <3>1, <3>2, <3>3, <3>4, <3>5, BeginIInv
  <2> QED BY <1>6, <2>1, <2>2 DEF Init2
<1>7. CASE Close
  <2>1. SavedOK'
    BY <1>7 DEF Close, SavedOK
  <2> QED BY <1>1, <1>7, <2>1, OpenStep DEF Close, DevDeinit, OpenPcs
<1> QED BY <1>3, <1>4, <1>5, <1>6, <1>7 DEF Opening

LEMMA TakeUpIInv == IInv /\ TakeUp => IInv'
<1> SUFFICES ASSUME IInv, TakeUp PROVE IInv'
  OBVIOUS
<1> USE DEF opening
<1>1. ASSUME NEW s, Sound(s), Take(s) PROVE IInv'
  <2>1. /\ Begin(s) /\ cancel' = FALSE /\ features' = features
        /\ UNCHANGED <<build, opens, inited, conf, chip, config>> /\ UNCHANGED config /\ tries' = tries
    BY <1>1 DEF Take
  <2>2. /\ features' \subseteq Features /\ tries' \in 0 .. Attempts
        /\ "irqpwdn" \in features' => "reinit" \in features'
    BY <2>1, Facts DEF TypeOK, DataOK
  <2>3. ConfigNotForgotten'
    BY <2>1, ConfigSame
  <2> QED BY <1>1, <2>1, <2>2, <2>3, BeginIInv
<1> QED BY <1>1, ScriptsSound, NavSound, CalibrateFacts DEF TakeUp

\* What a command that the worker is to issue next finds.
LEMMA CommandFacts ==
  ASSUME IInv, NEW set, Command(set)
  PROVE  /\ pc = "run" /\ pc \in Busy /\ Head(todo) \in set /\ todo # <<>>
         /\ Asleep \/ chip \in Loaded \/ Fed(todo)
         /\ Head(todo) \notin Feeding => Asleep \/ chip \in Loaded \/ Fed(Tail(todo))
<1>1. pc = "run" /\ pc \in Busy /\ Head(todo) \in set /\ todo # <<>>
  BY DEF Command, Busy
<1>2. Asleep \/ chip \in Loaded \/ Fed(todo)
  BY <1>1, Facts DEF ChipOK
<1> QED BY <1>1, <1>2, Facts, TailFacts

LEMMA WorkerIInv == IInv /\ Worker => IInv'
<1> SUFFICES ASSUME IInv, Worker PROVE IInv'
  OBVIOUS
<1> USE DEF opening
<1>1. CASE Wait
  <2>1. /\ pc = "run" /\ Head(todo) \in Downs \cup Ups /\ WaitFor(Head(todo))
        /\ UNCHANGED <<opening, features, chip, script, todo, cancel, config>> /\ UNCHANGED config
    BY <1>1 DEF Wait, Command
  <2>2. /\ pc' \in {"begin", "pollbegin"}
        /\ wait' \in [for : {"none", "down", "up", "nav"}, unc : BOOLEAN, retry : 0 .. Retries, ret : Results]
        /\ wait'.for = For(Head(todo)) /\ wait'.retry > 0
    BY <2>1, SensorOK DEF WaitFor, For, Results
  <2>3. CountsOK' /\ ChipOK'
    BY <2>2 DEF CountsOK, ChipOK, OpenPcs
  <2>4. chip' \in {"off", "reset", "ready", "failed"} /\ pc' \in WaitPcs /\ pc \in Busy
    BY <2>1, <2>2, Facts DEF TypeOK, WaitPcs, Busy
  <2> QED BY <2>1, <2>2, <2>3, <2>4, ConfigSame, WaitStep
<1>2. CASE Ta
  <2>1. PICK r \in {"ok", "err"} : Step(r)
    BY <1>2 DEF Ta
  <2>2. /\ Command(TaSteps \cup Capturing \cup {"cal", "fpcal2"}) /\ UNCHANGED config
        /\ UNCHANGED <<opening, features, chip, script, cancel>> /\ UNCHANGED <<opening, script>>
    BY <1>2 DEF Ta
  <2>3. Head(todo) \notin Feeding
    BY <2>2, CommandFacts, Kinds DEF Needing
  <2> QED BY <2>1, <2>2, <2>3, CommandFacts, ConfigSame, StepIInv DEF Results
<1>3. CASE Retry
  <2> DEFINE q == Image \o <<"auth_step">>
  <2>1. /\ pc = "run" /\ pc' = "run" /\ script = Auth /\ todo # <<>> /\ Head(todo) \in {"chk", "gain", "shot", "auth_step"}
        /\ todo' = q /\ UNCHANGED <<opening, pc, features, chip, script, wait, cancel, config>>
    BY <1>3 DEF Retry, Command
  <2>2. q \in Seq(Commands) /\ q # <<>> /\ UpsLast(q) /\ Ends(q)
    BY ImageFacts, FedFacts
  <2> HIDE DEF q
  <2>3. chip \in Loaded
    <3>1. Head(todo) \in Needing /\ Head(todo) = todo[1] /\ 1 \in DOMAIN todo
      BY <2>1, Needs, Facts DEF Busy
    <3>2. ~ Fed(todo)
      BY <3>1 DEF Fed
    <3> QED BY <2>1, <3>2, Facts, Apart DEF ChipOK, Asleep
  <2>4. TypeOK'
    BY <2>1, <2>2, Facts DEF TypeOK, WaitPcs, config
  <2>5. DataOK'
    BY <2>1, <2>2, Facts DEF DataOK
  <2>6. CountsOK' /\ SavedOK'
    BY <2>1 DEF CountsOK, SavedOK, OpenPcs
  <2>7. TodoOK'
    BY <2>1, <2>2, Apart DEF TodoOK
  <2>8. ChipOK'
    BY <2>1, <2>3 DEF ChipOK
  <2>9. ConfigNotForgotten'
    BY <2>1, ConfigSame
  <2> QED BY <2>4, <2>5, <2>6, <2>7, <2>8, <2>9 DEF IInv
<1>4. CASE Load
  <2>1. /\ Command({"download"}) /\ chip' \in Loaded /\ Step("ok") /\ UNCHANGED config
        /\ UNCHANGED <<opening, features, script, cancel>> /\ UNCHANGED <<opening, script>>
    BY <1>4 DEF Load, Download
  <2> QED BY <2>1, CommandFacts, ConfigSame, StepIInv DEF Results
<1>5. CASE NavStart
  <2>1. PICK r \in {"ok", "err"} : Step(r)
    BY <1>5 DEF NavStart
  <2>2. /\ Command({"nav_start"}) /\ (chip' \in Loaded \/ chip' = chip) /\ UNCHANGED config
        /\ UNCHANGED <<opening, features, script, cancel>> /\ UNCHANGED <<opening, script>>
    BY <1>5 DEF NavStart, Download
  <2>3. Head(todo) \notin Feeding
    BY <2>2, CommandFacts, Kinds
  <2> QED BY <2>1, <2>2, <2>3, CommandFacts, ConfigSame, StepIInv DEF Results
<1>6. CASE FpCal
  <2>1. Command({"fpcal"}) /\ UNCHANGED <<opening, features, chip, script, cancel>> /\ UNCHANGED <<opening, script>>
    BY <1>6 DEF FpCal
  <2>2. Head(todo) = "fpcal" /\ Head(todo) \notin Feeding
    BY <2>1, CommandFacts, Kinds
  <2>3. CASE Step("ok") /\ UNCHANGED config
    BY <2>1, <2>2, <2>3, CommandFacts, ConfigSame, StepIInv DEF Results
  <2>4. CASE ~ (Step("ok") /\ UNCHANGED config)
    <3>1. PICK x \in {<<"wait_up">>, <<"download">>, <<>>} : todo' = x \o Tail(todo)
      BY <1>6, <2>4 DEF FpCal
    <3>2. bits' = {"CHG"} /\ changed' = TRUE /\ UNCHANGED <<pc, wait, lost>>
      BY <1>6, <2>4 DEF FpCal
    <3>3. /\ todo \in Seq(Commands) /\ todo # <<>> /\ todo[1] = "fpcal" /\ 1 \in DOMAIN todo
          /\ Ends(todo) /\ pc = "run" /\ (script = Aging => Plain(todo))
      BY <2>1, <2>2, CommandFacts, Facts DEF TodoOK, Busy
    <3>4. 1 < Len(todo) /\ Quiet(todo) /\ script # Aging
      BY <3>3 DEF Ends, Plain, Avoids
    <3>5. Tail(todo) \in Seq(Commands) /\ Tail(todo) # <<>> /\ Quiet(Tail(todo)) /\ Ends(Tail(todo))
      <4> DEFINE t == Tail(todo)
      <4>1. Len(t) = Len(todo) - 1 /\ Len(todo) \in Nat /\ t \in Seq(Commands)
        BY <3>3
      <4> HIDE DEF t
      <4>2. t # <<>>
        BY <3>4, <4>1
      <4> QED BY <3>3, <3>4, <4>2, TailFacts DEF t
    <3>6. todo' \in Seq(Commands) /\ todo' # <<>> /\ Quiet(todo') /\ Ends(todo')
      <4>1. CASE x = <<>>
        BY <3>1, <3>5, <4>1
      <4>2. CASE x # <<>>
        <5>1. PICK c \in {"wait_up", "download"} : x = <<c>>
          BY <4>2
        <5>2. c \in Commands \ (Needing \cup {"fpcal"})
          BY Needs DEF Commands, Ups
        <5> QED BY <3>1, <3>5, <5>1, <5>2, ConsFacts
      <4> QED BY <4>1, <4>2
    <3>7. Fed(todo') /\ UpsLast(todo')
      BY <3>6, FedFacts
    <3>8. TypeOK'
      BY <2>1, <3>2, <3>3, <3>6, Facts DEF TypeOK, WaitPcs
    <3>9. DataOK'
      BY <2>1, <3>2, <3>6, Facts DEF DataOK
    <3>10. CountsOK' /\ SavedOK' /\ ChipOK'
      BY <3>2, <3>3, <3>7 DEF CountsOK, SavedOK, ChipOK, OpenPcs
    <3>11. TodoOK'
      BY <2>1, <3>4, <3>6, <3>7 DEF TodoOK
    <3>12. ConfigNotForgotten'
      BY <3>2 DEF ConfigNotForgotten
    <3> QED BY <3>8, <3>9, <3>10, <3>11, <3>12 DEF IInv
  <2> QED BY <2>3, <2>4
<1>7. CASE Rest
  <2>1. Sound(NoScript)
    <3>1. <<>> \in Seq(Commands) /\ Quiet(<<>>) /\ Ends(<<>>)
      BY DEF Quiet, Avoids, Ends
    <3> QED BY <3>1, FedFacts, SoundScript DEF NoScript
  <2>2. SavedOK'
    BY <1>7 DEF Rest, SavedOK, OpenPcs
  <2>3. /\ tries \in 0 .. Attempts /\ opens \in 0 .. MaxOpens /\ inited \in BOOLEAN
        /\ conf \in {"none", "empty", "full"}
    BY Facts DEF TypeOK
  <2> QED BY <1>7, <2>1, <2>2, <2>3, OpenStep DEF Rest, config, OpenPcs
<1> QED BY <1>1, <1>2, <1>3, <1>4, <1>5, <1>6, <1>7 DEF Worker

\* What a wait finds.
LEMMA InWait ==
  ASSUME IInv, pc \in WaitPcs
  PROVE  /\ pc \in Busy /\ Head(todo) \in Downs \cup Ups /\ todo # <<>>
         /\ wait.for = For(Head(todo)) /\ wait.for \in {"down", "up", "nav"}
         /\ wait.ret \in Results /\ wait.retry \in 0 .. Retries /\ Retries \in Nat
         /\ wait \in [for : {"none", "down", "up", "nav"}, unc : BOOLEAN, retry : 0 .. Retries, ret : Results]
         /\ chip \in {"off", "reset", "ready", "failed"}
BY Facts, SensorOK DEF TypeOK, DataOK, Busy, For

LEMMA WaitsIInv == IInv /\ (Waits \/ Interrupt) => IInv'
<1> SUFFICES ASSUME IInv, Waits \/ Interrupt PROVE IInv'
  OBVIOUS
<1> USE DEF opening
<1>1. pc \in WaitPcs
  BY DEF Waits, Interrupt, WaitBegin, Detect, Check, Interrupted, Reinit, CheckEsd,
     AfterCancel, WaitEnd,
         WaitPcs
<1>2. /\ pc \in Busy /\ Head(todo) \in Downs \cup Ups /\ todo # <<>>
      /\ wait.for = For(Head(todo)) /\ wait.for \in {"down", "up", "nav"}
      /\ wait.ret \in Results /\ wait.retry \in 0 .. Retries /\ Retries \in Nat
      /\ wait \in [for : {"none", "down", "up", "nav"}, unc : BOOLEAN, retry : 0 .. Retries, ret : Results]
      /\ chip \in {"off", "reset", "ready", "failed"}
  BY <1>1, InWait
<1>3. CountsOK /\ ChipOK
  BY Facts
<1>4. \* A step inside the wait that leaves the configuration alone.
      ASSUME pc' \in WaitPcs, UNCHANGED <<opening, features, script, todo, cancel, config>>,
             NEW n \in 0 .. Retries, NEW r \in Results, wait' = [wait EXCEPT !.retry = n, !.ret = r],
             chip' \in {"off", "reset", "ready", "failed"},
             pc' \in {"begin", "detect"} => n > 0, ChipOK'
      PROVE  IInv'
  <2>1. wait' \in [for : {"none", "down", "up", "nav"}, unc : BOOLEAN, retry : 0 .. Retries, ret : Results]
    BY <1>2, <1>4
  <2>2. wait'.for = For(Head(todo)) /\ wait'.retry = n
    BY <1>2, <1>4
  <2>3. CountsOK'
    BY <1>4, <2>2 DEF CountsOK, OpenPcs, WaitPcs
  <2>4. UNCHANGED config
    BY <1>4
  <2> QED BY <1>2, <1>4, <2>1, <2>2, <2>3, <2>4, ConfigSame, WaitStep
<1>5. \* One that leaves the retries alone, too.
      ASSUME pc' \in WaitPcs, UNCHANGED <<opening, features, script, todo, cancel, config>>,
             NEW r \in Results, wait' = [wait EXCEPT !.ret = r],
             chip' \in {"off", "reset", "ready", "failed"},
             pc' \in {"begin", "detect"} => wait.retry > 0, ChipOK'
      PROVE  IInv'
  <2>1. wait' = [wait EXCEPT !.retry = wait.retry, !.ret = r]
    BY <1>2, <1>5
  <2> QED BY <1>2, <1>4, <1>5, <2>1
<1>6. wait = [wait EXCEPT !.ret = wait.ret]
  BY <1>2
<1>7. CASE WaitBegin
  <2>1. ChipOK' /\ pc' \in WaitPcs /\ chip' \in {"off", "reset", "ready", "failed"} /\ wait' = wait
    BY <1>7 DEF WaitBegin, Download, Loaded, ChipOK, WaitPcs
  <2>2. wait.retry > 0
    BY <1>3, <1>7 DEF WaitBegin, CountsOK
  <2> QED BY <1>2, <1>5, <1>6, <1>7, <2>1, <2>2 DEF WaitBegin
<1>8. CASE Detect
  <2>1. /\ chip \in Loaded /\ wait.retry > 0 /\ pc = "detect"
        /\ UNCHANGED <<opening, features, script, cancel, config>> /\ UNCHANGED <<opening, script>>
        /\ UNCHANGED config /\ UNCHANGED features
    BY <1>3, <1>8 DEF Detect, ChipOK, CountsOK
  <2>2. Decrement \in 0 .. Retries
    BY <1>2, <2>1 DEF Decrement
  <2>3. CASE pc' = "check" /\ wait' = [wait EXCEPT !.retry = Decrement] /\ UNCHANGED <<chip, todo>>
    <3>1. wait' = [wait EXCEPT !.retry = Decrement, !.ret = wait.ret]
      BY <1>2, <2>3
    <3>2. ChipOK' /\ pc' \in WaitPcs
      BY <2>1, <2>3 DEF ChipOK, WaitPcs
    <3> QED BY <1>2, <1>4, <2>1, <2>2, <2>3, <3>1, <3>2
  <2>4. CASE /\ pc' = "end" /\ wait' = [wait EXCEPT !.retry = Decrement, !.ret = "err"]
             /\ HwReset /\ UNCHANGED todo
    <3>1. wait'.ret = "err"
      BY <1>2, <2>4
    <3>2. ChipOK' /\ pc' \in WaitPcs
      BY <2>4, <3>1 DEF ChipOK, WaitPcs
    <3> QED BY <1>2, <1>4, <2>1, <2>2, <2>4, <3>2 DEF HwReset, Results
  <2>5. CASE Step("err") /\ UNCHANGED chip
    BY <1>1, <1>2, <2>1, <2>5, WaitFails, ConfigSame, StepIInv DEF Results
  <2> QED BY <1>8, <2>3, <2>4, <2>5 DEF Detect
<1>9. CASE Check
  <2>1. PICK r \in Results : wait' = [wait EXCEPT !.ret = r] /\ pc' \in {"end", "after", "block"}
                             /\ (pc' = "end" => r = "canceled")
    BY <1>9 DEF Check, Goto, Results
  <2>2. wait'.ret = r
    BY <1>2, <2>1
  <2>3. UNCHANGED <<opening, features, chip, script, todo, cancel, config>>
    BY <1>9 DEF Check
  <2>4. ChipOK' /\ pc' \in WaitPcs
    BY <1>3, <1>9, <2>1, <2>2, <2>3 DEF Check, ChipOK, WaitPcs
  <2> QED BY <1>2, <1>5, <2>1, <2>3, <2>4
<1>10. CASE Interrupt \/ Interrupted
  <2>1. PICK r \in Results : wait' = [wait EXCEPT !.ret = r] /\ pc' = "after"
    BY <1>10 DEF Interrupt, Interrupted, Goto, Results
  <2>2. UNCHANGED <<opening, features, chip, script, todo, cancel, config>> /\ pc = "block"
    BY <1>10 DEF Interrupt, Interrupted
  <2>3. ChipOK' /\ pc' \in WaitPcs
    BY <1>3, <2>1, <2>2 DEF ChipOK, WaitPcs
  <2> QED BY <1>2, <1>5, <2>1, <2>2, <2>3
<1>11. CASE Reinit
  <2>1. /\ pc = "after" /\ pc' = "end" /\ wait' = [wait EXCEPT !.ret = "ok"]
        /\ UNCHANGED <<opening, features, script, todo, cancel, config>>
        /\ chip' \in Loaded \/ (wait.for \notin {"down", "nav"} /\ chip' = chip)
    BY <1>11 DEF Reinit, Goto, Download
  <2>2. wait'.for = wait.for
    BY <1>2, <2>1
  <2>3. ChipOK' /\ pc' \in WaitPcs /\ chip' \in {"off", "reset", "ready", "failed"}
    BY <1>2, <1>3, <2>1, <2>2 DEF ChipOK, WaitPcs, Loaded
  <2> QED BY <1>5, <2>1, <2>3 DEF Results
<1>12. CASE CheckEsd
  <2>1. /\ pc = "after" /\ "irqpwdn" \notin features
        /\ UNCHANGED <<opening, features, script, todo, cancel, config>>
    BY <1>12, Facts DEF CheckEsd, DataOK
  <2>2. chip \in Loaded
    BY <1>3, <2>1 DEF ChipOK
  <2>3. PICK r \in Results :
          /\ wait' = [wait EXCEPT !.ret = r]
          /\ \/ pc' = "end" /\ UNCHANGED chip
             \/ pc' = "begin" /\ wait.retry > 0 /\ chip' = "reset"
    BY <1>12 DEF CheckEsd, Goto, HwReset, Results
  <2>4. ChipOK' /\ pc' \in WaitPcs
    BY <2>2, <2>3 DEF ChipOK, WaitPcs
  <2> QED BY <1>2, <1>5, <2>1, <2>3, <2>4
<1>13. CASE AfterCancel
  <2>1. /\ pc' = "end" /\ wait' = [wait EXCEPT !.ret = "canceled"]
        /\ UNCHANGED <<opening, features, chip, script, todo, cancel, config>>
    BY <1>13 DEF AfterCancel, Goto
  <2>2. wait'.ret = "canceled"
    BY <1>2, <2>1
  <2>3. ChipOK' /\ pc' \in WaitPcs
    BY <2>1, <2>2 DEF ChipOK, WaitPcs
  <2> QED BY <1>2, <1>5, <2>1, <2>3 DEF Results
<1>14. CASE WaitEnd
  <2>1. /\ pc = "end" /\ Step(wait.ret) /\ UNCHANGED <<opening, script>>
        /\ UNCHANGED <<opening, features, chip, script, cancel>>
        /\ UNCHANGED config \/ Save(Seen(wait.for), changed)
    BY <1>14 DEF WaitEnd
  <2>2. /\ ConfigNotForgotten'
        /\ bits' \subseteq {"CHG", "UP", "DOWN"} /\ changed' \in BOOLEAN /\ lost' \in BOOLEAN
    BY <2>1, ConfigSame, SeenSaves
  <2>3. wait.ret = "ok" => Asleep \/ chip \in Loaded \/ Fed(Tail(todo))
    <3>1. SUFFICES ASSUME "irqpwdn" \in features, wait.for = "up", script # Nav("LITE")
                   PROVE  Fed(Tail(todo))
      BY <1>3, <2>1 DEF ChipOK, Asleep
    <3>2. Head(todo) \in Ups
      BY <1>2, <3>1 DEF For
    <3>3. UpsLast(todo) /\ todo \in Seq(Commands)
      BY <1>2, <3>1, Facts DEF TodoOK
    <3> QED BY <1>2, <3>2, <3>3, TailFacts, FedFacts
  <2> QED BY <1>1, <1>2, <2>1, <2>2, <2>3, WaitFails, StepIInv
<1> QED
  BY <1>7, <1>8, <1>9, <1>10, <1>11, <1>12, <1>13, <1>14 DEF Waits

LEMMA PollIInv == IInv /\ Poll => IInv'
<1> SUFFICES ASSUME IInv, Poll PROVE IInv'
  OBVIOUS
<1> USE DEF opening
<1>1. pc \in {"pollbegin", "poll"} /\ pc \in WaitPcs
  BY DEF Poll, PollBegin, PollCanceled, PollFails, PollSeen, PollOther, Polls, WaitPcs
<1>2. /\ pc \in Busy /\ Head(todo) \in Downs \cup Ups /\ wait.for = For(Head(todo))
      /\ wait \in [for : {"none", "down", "up", "nav"}, unc : BOOLEAN, retry : 0 .. Retries, ret : Results]
      /\ chip \in {"off", "reset", "ready", "failed"}
  BY <1>1, InWait
<1>3. pc = "poll" => chip \in Loaded
  BY Facts DEF ChipOK
<1>4. \* A poll that goes on.
      ASSUME pc' = "poll", chip' \in Loaded, UNCHANGED <<opening, script, todo, wait, cancel>>,
             features' \in {features, features \ {"loop"}},
             bits' \subseteq {"CHG", "UP", "DOWN"}, changed' \in BOOLEAN, lost' \in BOOLEAN,
             ConfigNotForgotten'
      PROVE  IInv'
  <2>1. CountsOK' /\ ChipOK'
    BY <1>4 DEF CountsOK, ChipOK, OpenPcs
  <2> QED BY <1>2, <1>4, <2>1, WaitStep DEF WaitPcs, Loaded
<1>5. CASE PollBegin
  <2>1. UNCHANGED config /\ UNCHANGED features
    BY <1>5 DEF PollBegin
  <2> QED BY <1>4, <1>5, <2>1, ConfigSame DEF PollBegin, Download
<1>6. CASE PollCanceled
  <2>1. /\ Step("err") /\ UNCHANGED <<opening, features, chip, script, cancel>> /\ UNCHANGED config
        /\ UNCHANGED <<opening, script>>
    BY <1>6 DEF PollCanceled
  <2> QED BY <1>1, <1>2, <2>1, WaitFails, ConfigSame, StepIInv DEF Results
<1>7. CASE PollFails
  <2>1. /\ UNCHANGED <<opening, features, script, cancel>> /\ UNCHANGED config /\ UNCHANGED <<opening, script>>
        /\ pc = "poll" /\ chip' \in Loaded
        /\ UNCHANGED <<pc, todo, wait>> \/ Step("err")
    BY <1>3, <1>7 DEF PollFails, Polls, Download
  <2> QED BY <1>1, <1>2, <1>4, <2>1, WaitFails, ConfigSame, StepIInv DEF Results
<1>8. CASE PollSeen \/ PollOther
  <2>1. PICK f : Status(f)
    BY <1>8 DEF PollSeen, PollOther
  <2>2. /\ pc = "poll" /\ chip' \in Loaded /\ chip' = chip /\ features' \in {features, features \ {"loop"}}
        /\ UNCHANGED <<opening, script>> /\ UNCHANGED cancel
        /\ UNCHANGED <<pc, todo, wait>> \/ Step("ok")
        /\ Save(Seen(f), changed) \/ Save({"CHG"}, TRUE)
    BY <1>3, <2>1 DEF Status, Polls
  <2>3. /\ ConfigNotForgotten'
        /\ bits' \subseteq {"CHG", "UP", "DOWN"} /\ changed' \in BOOLEAN /\ lost' \in BOOLEAN
    BY <2>2, SeenSaves, Saves
  <2> QED BY <1>2, <1>4, <2>2, <2>3, StepIInv DEF Results
<1> QED BY <1>5, <1>6, <1>7, <1>8 DEF Poll

LEMMA CancelIInv == IInv /\ Cancel => IInv'
<1> SUFFICES ASSUME IInv, Cancel PROVE IInv'
  OBVIOUS
<1>1. /\ UNCHANGED <<opening, pc, features, chip, script, todo, wait, config>> /\ cancel' = TRUE
      /\ UNCHANGED config
  BY DEF Cancel
<1>2. TypeOK' /\ DataOK' /\ CountsOK' /\ SavedOK'
  BY <1>1, Facts DEF TypeOK, DataOK, CountsOK, SavedOK, opening, config
<1>3. TodoOK' /\ ChipOK'
  BY <1>1, Facts DEF TodoOK, ChipOK, Asleep, opening
<1>4. ConfigNotForgotten'
  BY <1>1, ConfigSame
<1> QED BY <1>2, <1>3, <1>4 DEF IInv

LEMMA InitIInv == Init => IInv
<1> SUFFICES ASSUME Init PROVE IInv
  OBVIOUS
<1> USE DEF Init, NoWait
<1>1. TypeOK
  <2>1. pc \notin WaitPcs /\ pc = "closed"
    BY DEF WaitPcs
  <2>2. features \subseteq Features /\ bits \subseteq {"CHG", "UP", "DOWN"}
    BY DEF Features
  <2>3. wait.retry \in 0 .. Retries /\ tries \in 0 .. Attempts /\ opens \in 0 .. MaxOpens
    BY SensorOK DEF Attempts
  <2> QED BY <2>1, <2>2, <2>3 DEF TypeOK
<1>2. DataOK
  <2>1. <<>> \in Seq(Commands) /\ Quiet(<<>>) /\ Ends(<<>>)
    BY DEF Quiet, Avoids, Ends
  <2>2. Sound(NoScript)
    BY <2>1, FedFacts, SoundScript DEF NoScript
  <2> QED BY <2>1, <2>2, SensorOK DEF DataOK, Results
<1>3. CountsOK /\ TodoOK /\ ChipOK /\ SavedOK /\ ConfigNotForgotten
  BY DEF CountsOK, TodoOK, ChipOK, SavedOK, ConfigNotForgotten, OpenPcs, Busy, WaitPcs
<1> QED BY <1>1, <1>2, <1>3 DEF IInv

LEMMA NextIInv == IInv /\ [Next]_vars => IInv'
<1>1. IInv /\ UNCHANGED vars => IInv'
  BY DEF vars, opening, config, IInv, TypeOK, DataOK, CountsOK, TodoOK, ChipOK, SavedOK,
         ConfigNotForgotten, Asleep
<1> QED
  BY <1>1, OpeningIInv, WorkerIInv, TakeUpIInv, CancelIInv, WaitsIInv, PollIInv DEF Next
-----------------------------------------------------------------------------
\* IInv is an invariant: the program of the chip and the marks of the
\* configuration are where the operations count on them.
LEMMA Invariance == Spec => []IInv
<1>1. Init => IInv
  BY InitIInv
<1>2. IInv /\ [Next]_vars => IInv'
  BY NextIInv
<1> QED BY <1>1, <1>2, PTL DEF Spec

\* Every variable keeps its type, for every build and every set of features:
\* neither the attempts of sl_fp_init nor the retries of a wait are counted
\* below zero (silead_impl.c:297-369).
THEOREM TypeCorrect == Spec => []TypeOK
<1>1. IInv => TypeOK
  BY DEF IInv
<1> QED BY <1>1, Invariance, PTL

\* No capturing command reaches a chip that has lost its program, whichever
\* operations follow each other and whatever the TA asks for (light navigation
\* where the chip sleeps during waits excepted).
THEOREM ChipStaysReady == Spec => []ChipReady
<1>1. IInv => ChipReady
  <2> SUFFICES ASSUME IInv,
                      \/ pc = "poll"
                      \/ pc = "run" /\ Head(todo) \in Capturing /\ ~(script = Nav("LITE") /\ "irqpwdn" \in features)
               PROVE  chip \in Loaded
    BY DEF ChipReady
  <2>1. CASE pc = "poll"
    BY <2>1, Facts DEF ChipOK
  <2>2. CASE pc = "run" /\ Head(todo) \in Capturing /\ ~ Asleep
    <3>1. todo[1] \in Needing /\ 1 \in DOMAIN todo
      BY <2>2, Facts DEF Needing, Busy
    <3>2. ~ Fed(todo)
      BY <3>1 DEF Fed
    <3> QED BY <2>2, <3>2, Facts DEF ChipOK
  <2> QED BY <2>1, <2>2 DEF Asleep
<1> QED BY <1>1, Invariance, PTL

\* A changed configuration is never forgotten without an error: m_config_update
\* is cleared only by a save that ends the change or fails (_sl_fp_save_config).
THEOREM ChangesRemembered == Spec => []ConfigNotForgotten
<1>1. IInv => ConfigNotForgotten
  BY DEF IInv
<1> QED BY <1>1, Invariance, PTL
=============================================================================
