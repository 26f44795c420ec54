------------------------- MODULE Calibration_proofs -------------------------
(***************************************************************************)
(* Proofs about Calibration: the types, that an adaptation on disk fits    *)
(* the bases on disk, that a base once saved is never lost; and, of the    *)
(* configuration, that what the TA takes over is what the document says,   *)
(* that no block is lost on the way, and that it is one for this device.   *)
(***************************************************************************)
EXTENDS Calibration, SequenceTheorems, WellFoundedInduction, TLAPS

LOCAL INSTANCE FiniteSetsExt

Forgot == \A k \in Adapted: ta[k] = NoData

\* The initial steps take the bases first.
TodoOK ==
  /\ todo.init => \A i, j \in 1..Len(todo.steps):
       i < j /\ todo.steps[i] \in Adapted => todo.steps[j] \in Adapted
  /\ pc \in {"closed", "rest"} => todo.steps = <<>>

\* The buffer is what the step is about.
DataOK ==
  /\ pc = "ta" /\ flag = "valid" /\ todo.steps # <<>> => data = disk[Step]
  /\ pc = "ta" /\ flag # "none" => todo.init
  /\ pc = "save" /\ todo.steps # <<>> => data = ta[Step] /\ data # NoData

\* The TA has adapted with the bases it holds or with those on disk, and with
\* none while its bases are being replaced.
TaOK ==
  /\ \A k \in Adapted: ta[k] # NoData /\ ~spoilt => ta[k].of \in {TaBases, Stored}
  /\ pc = "closed" \/ pc \in {"remove4", "remove5"} => Forgot
  /\ todo.steps # <<>> /\ Step \in Bases /\ (todo.init \/ pc = "save") => Forgot

\* Half of the removals are done.
DiskOK == AdaptationFits /\ (pc = "remove5" => disk[4] = NoData \/ spoilt)

\* The inductive invariant.
IInv == TypeOK /\ TodoOK /\ DataOK /\ TaOK /\ DiskOK
-----------------------------------------------------------------------------

\* What is left after the first step: no base comes after an adapted one.
LEMMA TailFacts ==
  ASSUME TypeOK, todo.steps # <<>>
  PROVE  /\ Step \in Steps /\ Step = todo.steps[1] /\ Len(todo.steps) \in Nat \ {0}
         /\ Tail(todo.steps) \in Seq(Steps) /\ Len(Tail(todo.steps)) = Len(todo.steps) - 1
         /\ \A i \in 1..Len(todo.steps) - 1: Tail(todo.steps)[i] = todo.steps[i + 1]
<1> DEFINE q == todo.steps
<1>1. q \in Seq(Steps) /\ q # <<>>
  BY DEF TypeOK
<1>2. ASSUME NEW S, NEW s \in Seq(S), s # <<>>
      PROVE  /\ Head(s) \in S /\ Head(s) = s[1] /\ Len(s) \in Nat \ {0}
             /\ Tail(s) \in Seq(S) /\ Len(Tail(s)) = Len(s) - 1
             /\ \A i \in 1..Len(s) - 1: Tail(s)[i] = s[i + 1]
  BY <1>2
<1> HIDE DEF q
<1>3. /\ Head(q) \in Steps /\ Head(q) = q[1] /\ Len(q) \in Nat \ {0}
      /\ Tail(q) \in Seq(Steps) /\ Len(Tail(q)) = Len(q) - 1
      /\ \A i \in 1..Len(q) - 1: Tail(q)[i] = q[i + 1]
  BY <1>1, <1>2
<1> QED BY <1>3 DEF q, Step

\* The end of a step leaves the rest of the steps, or none of them.
LEMMA DoneFacts ==
  ASSUME TypeOK, TodoOK, todo.steps # <<>>, NEW next, Done(next)
  PROVE  /\ pc' \in {"begin", "rest"} /\ todo' \in [steps : Seq(Steps), init : BOOLEAN]
         /\ TodoOK' /\ todo'.init = todo.init
         /\ todo'.steps # <<>> /\ Step' \in Bases /\ todo.init => Step \in Bases
<1>1. todo \in [steps : Seq(Steps), init : BOOLEAN] /\ todo.steps \in Seq(Steps) /\ <<>> \in Seq(Steps)
  BY DEF TypeOK
<1>2. pc' \in {"begin", "rest"}
  BY DEF Done
<1>3. /\ todo' \in [steps : Seq(Steps), init : BOOLEAN] /\ todo'.init = todo.init
      /\ todo'.steps = IF next THEN Tail(todo.steps) ELSE <<>>
  BY <1>1, TailFacts DEF Done
<1>4. CASE todo'.steps = <<>>
  <2>1. Len(<<>>) = 0 /\ 1..0 = {}
    OBVIOUS
  <2>2. TodoOK'
    BY <1>4, <2>1 DEF TodoOK
  <2> QED BY <1>2, <1>3, <1>4, <2>2
<1>5. CASE todo'.steps # <<>>
  <2>1. next /\ todo'.steps = Tail(todo.steps)
    BY <1>3, <1>5
  <2> DEFINE n == Len(todo.steps)
  <2>2. /\ n \in Nat \ {0} /\ Len(todo'.steps) = n - 1
        /\ \A i \in 1..n - 1: todo'.steps[i] = todo.steps[i + 1]
    BY <2>1, TailFacts
  <2>3. n > 1
    <3>1. ASSUME NEW s \in Seq(Steps), Len(s) = 0 PROVE s = <<>>
      BY <3>1
    <3>2. todo'.steps \in Seq(Steps)
      BY <1>3
    <3>3. Len(todo'.steps) # 0
      BY <1>5, <3>1, <3>2
    <3>4. ASSUME NEW m \in Nat \ {0}, NEW r, r = m - 1, r # 0 PROVE m > 1
      BY <3>4
    <3> HIDE DEF n
    <3> QED BY <2>2, <3>3, <3>4
  <2>4. pc' = "begin"
    BY <2>1, <2>3 DEF Done
  <2>5. Step' = todo.steps[2]
    <3>1. ASSUME NEW s \in Seq(Steps), s # <<>> PROVE Head(s) = s[1]
      BY <3>1
    <3>2. Step' = todo'.steps[1]
      BY <1>3, <1>5, <3>1 DEF Step
    <3> QED BY <2>2, <2>3, <3>2
  <2>6. ASSUME todo.init, NEW i \in 1..Len(todo'.steps), NEW j \in 1..Len(todo'.steps),
               i < j, todo'.steps[i] \in Adapted
        PROVE  todo'.steps[j] \in Adapted
    <3>1. /\ i + 1 \in 1..n /\ j + 1 \in 1..n /\ i + 1 < j + 1
          /\ todo'.steps[i] = todo.steps[i + 1] /\ todo'.steps[j] = todo.steps[j + 1]
      BY <2>2, <2>6
    <3> HIDE DEF n
    <3> QED BY <2>6, <3>1 DEF TodoOK, n
  <2>7. TodoOK'
    BY <1>3, <2>4, <2>6 DEF TodoOK
  <2>8. ASSUME Step' \in Bases, todo.init PROVE Step \in Bases
    <3>1. 1 \in 1..n /\ 2 \in 1..n /\ 1 < 2
      BY <2>2, <2>3
    <3>2. todo.steps[1] \in Adapted => todo.steps[2] \in Adapted
      BY <2>8, <3>1 DEF TodoOK
    <3> QED BY <2>5, <2>8, <3>2, TailFacts DEF Steps, Bases, Adapted
  <2> QED BY <1>2, <1>3, <1>5, <2>7, <2>8
<1> QED BY <1>4, <1>5

\* The lists of steps that are begun, and what beginning one does.
Lists == {<<1, 2, 3, 4, 5>>, <<4, 5>>, <<1>>, <<2>>, <<3>>}

\* Beginning a list of steps.
LEMMA BeginFacts ==
  ASSUME NEW q \in Lists, NEW init \in BOOLEAN,
         init => q = <<1, 2, 3, 4, 5>>, Begin(q, init)
  PROVE  /\ pc' = "begin" /\ todo' \in [steps : Seq(Steps), init : BOOLEAN] /\ todo'.init = init
         /\ todo'.steps = q /\ TodoOK'
<1>1. q \in Seq(Steps)
  <2>1. <<1, 2, 3, 4, 5>> \in Seq(Steps)
    BY DEF Steps
  <2>2. <<4, 5>> \in Seq(Steps)
    BY DEF Steps
  <2>3. <<1>> \in Seq(Steps) /\ <<2>> \in Seq(Steps) /\ <<3>> \in Seq(Steps)
    BY DEF Steps
  <2> QED BY <2>1, <2>2, <2>3 DEF Lists
<1>2. todo' = [steps |-> q, init |-> init] /\ pc' = "begin"
  BY DEF Begin
<1>3. ASSUME init, NEW i \in 1..Len(q), NEW j \in 1..Len(q), i < j, q[i] \in Adapted
      PROVE  q[j] \in Adapted
  <2>1. \A k \in 1..5: <<1, 2, 3, 4, 5>>[k] = k
    OBVIOUS
  <2>2. Len(<<1, 2, 3, 4, 5>>) = 5
    OBVIOUS
  <2>3. i \in 1..5 /\ j \in 1..5 /\ q[i] = i /\ q[j] = j
    BY <1>3, <2>1, <2>2
  <2> QED BY <1>3, <2>3 DEF Adapted
<1>4. TodoOK'
  BY <1>2, <1>3 DEF TodoOK
<1> QED BY <1>1, <1>2, <1>4

\* Nothing is a base and an adaptation, and a base may be any data of its kind.
LEMMA KeptFacts ==
  /\ \A k \in Steps: NoData \in Kept(k)
  /\ \A k \in Bases: Kept(k) = Kept(1)
  /\ \A k \in Adapted: Kept(k) = Kept(4)
  /\ Steps = Bases \cup Adapted /\ Bases \cap Adapted = {} /\ 1 \in Bases /\ 4 \in Adapted /\ 5 \in Adapted
<1>1. Steps = Bases \cup Adapted /\ Bases \cap Adapted = {} /\ 1 \in Bases /\ 4 \in Adapted /\ 5 \in Adapted
  BY DEF Steps, Bases, Adapted
<1>2. \A k \in Bases: Kept(k) = Kept(1)
  BY <1>1 DEF Kept
<1>3. \A k \in Adapted: k \notin Bases
  BY <1>1
<1>4. \A k \in Adapted: Kept(k) = Kept(4)
  BY <1>1, <1>3 DEF Kept
<1>5. \A k \in Steps: NoData \in Kept(k)
  BY DEF Kept, NoData, Made
<1> QED BY <1>1, <1>2, <1>4, <1>5

\* What the TA measures is a base, and never nothing.
LEMMA NewBase ==
  ASSUME TypeOK, gen < MaxGen, NEW k \in Bases, NEW l \in Lens[k]
  PROVE  [of |-> <<gen + 1>>, len |-> l] \in Kept(1) /\ [of |-> <<gen + 1>>, len |-> l] # NoData
<1>1. l \in {"short", "long", "edge"}
  BY CalibrationOK DEF Bases, Steps
<1>2. gen + 1 \in 1..MaxGen
  BY CalibrationOK DEF TypeOK
<1>3. <<gen + 1>> \in Made
  BY <1>2 DEF Made
<1>4. [of |-> <<gen + 1>>, len |-> l].len # NoData.len
  BY <1>1 DEF NoData
<1>5. 1 \in Bases
  BY DEF Bases
<1> QED BY <1>1, <1>3, <1>4, <1>5 DEF Kept

\* So is an adaptation, made of the bases the TA holds.
LEMMA NewAdaptation ==
  ASSUME TypeOK, NEW k \in Adapted, NEW l \in Lens[k]
  PROVE  [of |-> TaBases, len |-> l] \in Kept(4) /\ [of |-> TaBases, len |-> l] # NoData
<1>1. l \in {"short", "long", "edge"}
  BY CalibrationOK DEF Adapted, Steps
<1>2. \A b \in Bases: ta[b].of \in Made
  BY DEF TypeOK, Kept, Steps, Bases
<1>3. TaBases \in [Bases -> Made]
  BY <1>2 DEF TaBases
<1>4. [of |-> TaBases, len |-> l].len # NoData.len
  BY <1>1 DEF NoData
<1>5. 4 \notin Bases
  BY DEF Bases
<1> QED BY <1>1, <1>3, <1>4, <1>5 DEF Kept

\* Every step keeps the types.
LEMMA TypeStep == IInv /\ [Next]_vars => TypeOK'
<1> SUFFICES ASSUME IInv, [Next]_vars PROVE TypeOK'
  OBVIOUS
<1>1. /\ TypeOK /\ TodoOK /\ DataOK /\ MaxGen \in Nat /\ MaxSessions \in Nat
      /\ \A k \in Steps: NoData \in Kept(k) /\ Kept(k) \subseteq Kept(1) \cup Kept(4)
      /\ \A k \in Steps: ta[k] \in Kept(k) /\ disk[k] \in Kept(k)
  BY CalibrationOK, KeptFacts DEF IInv, TypeOK
<1>2. CASE Open
  <2>1. todo' \in [steps : Seq(Steps), init : BOOLEAN] /\ pc' \in {"begin", "rest"}
    <3>1. CASE Begin(<<1, 2, 3, 4, 5>>, TRUE)
      BY <3>1, BeginFacts DEF Lists
    <3>2. CASE pc' = "rest" /\ UNCHANGED todo
      BY <1>1, <3>2 DEF TypeOK
    <3> QED BY <1>2, <3>1, <3>2 DEF Open
  <2>2. sessions' \in 0..MaxSessions
    BY <1>1, <1>2 DEF Open, TypeOK
  <2>3. UNCHANGED <<flag, data, gen, ta, disk, spoilt>>
    BY <1>2 DEF Open
  <2> QED BY <1>1, <2>1, <2>2, <2>3 DEF TypeOK
<1>3. CASE Measure
  <2>1. todo' \in [steps : Seq(Steps), init : BOOLEAN] /\ pc' = "begin"
    <3>1. \A b \in Bases: <<b>> \in Lists
      BY DEF Bases, Lists
    <3>2. FALSE \in BOOLEAN
      OBVIOUS
    <3> QED BY <1>3, <3>1, <3>2, BeginFacts DEF Measure
  <2>2. UNCHANGED <<sessions, flag, data, gen, ta, disk, spoilt>>
    BY <1>3 DEF Measure
  <2> QED BY <1>1, <2>1, <2>2 DEF TypeOK
<1>4. CASE Adapt
  <2>1. todo' \in [steps : Seq(Steps), init : BOOLEAN] /\ pc' = "begin"
    BY <1>4, BeginFacts DEF Adapt, Lists
  <2>2. UNCHANGED <<sessions, flag, data, gen, ta, disk, spoilt>>
    BY <1>4 DEF Adapt
  <2> QED BY <1>1, <2>1, <2>2 DEF TypeOK
<1>5. CASE Load
  <2>1. Step \in Steps /\ todo.steps # <<>>
    BY <1>1, <1>5, TailFacts DEF Load, IsAt
  <2>2. CASE Done(todo.init \/ Step # 4) /\ UNCHANGED <<flag, data>>
    <3>1. todo' \in [steps : Seq(Steps), init : BOOLEAN] /\ pc' \in {"begin", "rest"}
      BY <1>1, <2>1, <2>2, DoneFacts
    <3> QED BY <1>1, <1>5, <2>2, <3>1 DEF Load, TypeOK
  <2>3. CASE \E f \in {"none", "valid", "invalid"}: \E d \in {NoData, disk[Step]}: Given(f, d)
    <3>1. data' \in Kept(1) \cup Kept(4)
      BY <1>1, <2>1, <2>3 DEF Given
    <3> QED BY <1>1, <1>5, <2>3, <3>1 DEF Load, Given, TypeOK
  <2> QED BY <1>5, <2>2, <2>3 DEF Load, LoadFile
<1>6. CASE TaKeeps
  <2>1. Step \in Steps /\ todo.steps # <<>> /\ pc = "ta"
    BY <1>1, <1>6, TailFacts DEF TaKeeps, IsAt
  <2>2. PICK new: Answer(new, FALSE) /\ new \in Kept(Step)
    BY <1>1, <1>6, <2>1 DEF TaKeeps, DataOK
  <2>3. todo' \in [steps : Seq(Steps), init : BOOLEAN] /\ pc' \in {"begin", "rest"}
    BY <1>1, <2>1, <2>2, DoneFacts DEF Answer
  <2>4. DOMAIN ta' = Steps /\ \A k \in Steps: ta'[k] \in Kept(k)
    BY <1>1, <2>1, <2>2 DEF Answer, TypeOK
  <2>5. UNCHANGED <<sessions, flag, data, gen, disk, spoilt>>
    BY <1>6, <2>2 DEF TaKeeps, Answer
  <2> QED BY <1>1, <2>3, <2>4, <2>5 DEF TypeOK
<1>7. CASE TaMeasures
  <2>1. Step \in Bases /\ gen < MaxGen
    BY <1>7 DEF TaMeasures
  <2>2. data' \in Kept(1)
    BY <1>1, <1>7, <2>1, NewBase DEF TaMeasures
  <2>3. DOMAIN ta' = Steps /\ \A k \in Steps: ta'[k] \in Kept(k)
    BY <1>1, <1>7, <2>1, <2>2, KeptFacts DEF TaMeasures
  <2>4. gen' \in 0..MaxGen
    BY <1>1, <1>7, <2>1 DEF TaMeasures, TypeOK
  <2>5. pc' = "save" /\ UNCHANGED <<sessions, todo, flag, disk, spoilt>>
    BY <1>7 DEF TaMeasures
  <2> QED BY <1>1, <2>2, <2>3, <2>4, <2>5 DEF TypeOK
<1>8. CASE TaAdapts
  <2>1. Step \in Adapted
    BY <1>8 DEF TaAdapts
  <2>2. PICK new: Answer(new, TRUE) /\ new \in Kept(4)
    BY <1>1, <1>8, <2>1, NewAdaptation DEF TaAdapts
  <2>3. DOMAIN ta' = Steps /\ \A k \in Steps: ta'[k] \in Kept(k)
    BY <1>1, <2>1, <2>2, KeptFacts DEF Answer, TypeOK
  <2>4. pc' = "save" /\ data' \in Kept(4) /\ UNCHANGED <<sessions, todo, flag, gen, disk, spoilt>>
    BY <1>8, <2>2 DEF TaAdapts, Answer
  <2> QED BY <1>1, <2>3, <2>4 DEF TypeOK
<1>9. CASE TaRepeats
  <2>1. Step \in Steps /\ <<Step>> \in Seq(Steps)
    BY <1>1, <1>9, KeptFacts DEF TaRepeats
  <2>2. todo' \in [steps : Seq(Steps), init : BOOLEAN]
    BY <1>1, <1>9, <2>1 DEF TaRepeats, TypeOK
  <2>3. data' \in Kept(1) \cup Kept(4)
    BY <1>1, <1>9, <2>1 DEF TaRepeats
  <2>4. pc' = "save" /\ UNCHANGED <<sessions, flag, gen, ta, disk, spoilt>>
    BY <1>9 DEF TaRepeats
  <2> QED BY <1>1, <2>2, <2>3, <2>4 DEF TypeOK
<1>10. CASE Save
  <2>1. Step \in Steps /\ todo.steps # <<>> /\ data = ta[Step]
    BY <1>1, <1>10, TailFacts DEF Save, IsAt, DataOK
  <2>2. DOMAIN disk' = Steps /\ \A k \in Steps: disk'[k] \in Kept(k)
    BY <1>1, <1>10, <2>1 DEF Save, SaveFile, TypeOK
  <2>3. todo' \in [steps : Seq(Steps), init : BOOLEAN] /\ pc' \in {"begin", "rest", "remove4"}
    <3>1. CASE Done(TRUE)
      BY <1>1, <2>1, <3>1, DoneFacts
    <3>2. CASE pc' = "remove4" /\ UNCHANGED todo
      BY <1>1, <3>2 DEF TypeOK
    <3> QED BY <1>10, <3>1, <3>2 DEF Save, SaveEnd
  <2>4. spoilt' \in BOOLEAN
    BY <1>10 DEF Save
  <2>5. UNCHANGED <<sessions, flag, data, gen, ta>>
    BY <1>10 DEF Save
  <2> QED BY <1>1, <2>2, <2>3, <2>4, <2>5 DEF TypeOK
<1>11. CASE Remove4
  <2>1. 4 \in Steps
    BY KeptFacts
  <2>2. DOMAIN disk' = Steps /\ \A k \in Steps: disk'[k] \in Kept(k)
    BY <1>1, <1>11, <2>1 DEF Remove4, RemoveFile, TypeOK
  <2>3. spoilt' \in BOOLEAN
    BY <1>11 DEF Remove4, RemoveFile
  <2>4. pc' = "remove5" /\ UNCHANGED <<sessions, todo, flag, data, gen, ta>>
    BY <1>11 DEF Remove4
  <2> QED BY <1>1, <2>2, <2>3, <2>4 DEF TypeOK
<1>12. CASE Remove5
  <2>1. 5 \in Steps
    BY KeptFacts
  <2>2. DOMAIN disk' = Steps /\ \A k \in Steps: disk'[k] \in Kept(k)
    BY <1>1, <1>12, <2>1 DEF Remove5, RemoveFile, TypeOK
  <2>3. spoilt' \in BOOLEAN
    BY <1>12 DEF Remove5, RemoveFile
  <2>4. todo' \in [steps : Seq(Steps), init : BOOLEAN] /\ pc' \in {"begin", "rest"}
    BY <1>1, <1>12, DoneFacts DEF Remove5, IsAt
  <2>5. UNCHANGED <<sessions, flag, data, gen, ta>>
    BY <1>12 DEF Remove5
  <2> QED BY <1>1, <2>2, <2>3, <2>4, <2>5 DEF TypeOK
<1>13. CASE End
  <2>1. todo' \in [steps : Seq(Steps), init : BOOLEAN]
    BY <1>13 DEF End
  <2>2. DOMAIN ta' = Steps /\ (\A k \in Steps: ta'[k] \in Kept(k)) /\ data' \in Kept(1) \cup Kept(4)
    BY <1>1, <1>13 DEF End, Steps
  <2>3. spoilt' \in BOOLEAN
    BY <1>1, <1>13 DEF End, TypeOK
  <2>4. pc' = "closed" /\ flag' = "none" /\ UNCHANGED <<sessions, gen, disk>>
    BY <1>13 DEF End
  <2> QED BY <1>1, <2>1, <2>2, <2>3, <2>4 DEF TypeOK
<1>14. CASE UNCHANGED vars
  BY <1>1, <1>14 DEF vars, calibVars, Step, TaBases, Stored, TypeOK
<1> QED
  BY <1>2, <1>3, <1>4, <1>5, <1>6, <1>7, <1>8, <1>9, <1>10, <1>11, <1>12, <1>13, <1>14 DEF Next

\* The bases come first as steps are taken off and lists are begun.
LEMMA TodoStep == IInv /\ [Next]_vars => TodoOK'
<1> SUFFICES ASSUME IInv, [Next]_vars PROVE TodoOK'
  OBVIOUS
<1>1. TypeOK /\ TodoOK
  BY DEF IInv
<1>2. CASE Open
  <2>1. CASE Begin(<<1, 2, 3, 4, 5>>, TRUE)
    BY <2>1, BeginFacts DEF Lists
  <2>2. CASE pc' = "rest" /\ UNCHANGED todo
    BY <1>1, <1>2, <2>2 DEF TodoOK, Open
  <2> QED BY <1>2, <2>1, <2>2 DEF Open
<1>3. CASE Measure
  <2>1. \A b \in Bases: <<b>> \in Lists
    BY DEF Bases, Lists
  <2>2. FALSE \in BOOLEAN
    OBVIOUS
  <2> QED BY <1>3, <2>1, <2>2, BeginFacts DEF Measure
<1>4. CASE Adapt
  BY <1>1, <1>4, BeginFacts DEF Adapt, Lists, TodoOK
<1>5. CASE Load
  BY <1>1, <1>5, DoneFacts DEF Load, Given, LoadFile, IsAt, TodoOK
<1>6. CASE TaKeeps
  BY <1>1, <1>6, DoneFacts DEF TaKeeps, Answer, IsAt, TodoOK
<1>7. CASE TaMeasures
  BY <1>1, <1>7 DEF TaMeasures, TodoOK
<1>8. CASE TaAdapts
  BY <1>1, <1>8 DEF TaAdapts, Answer, IsAt, TodoOK
<1>9. CASE TaRepeats
  <2>1. todo'.steps = <<Step>> /\ pc' = "save" /\ Len(<<Step>>) = 1
    BY <1>1, <1>9 DEF TaRepeats, TypeOK
  <2>2. \A i, j \in 1..1: ~ i < j
    OBVIOUS
  <2> QED BY <2>1, <2>2 DEF TodoOK
<1>10. CASE Save
  BY <1>1, <1>10, DoneFacts DEF Save, SaveEnd, IsAt, TodoOK
<1>11. CASE Remove4
  BY <1>1, <1>11 DEF Remove4, TodoOK
<1>12. CASE Remove5
  BY <1>1, <1>12, DoneFacts DEF Remove5, IsAt, TodoOK
<1>13. CASE End
  <2>1. todo'.steps = <<>> /\ ~ todo'.init
    BY <1>13 DEF End
  <2> QED BY <2>1 DEF TodoOK
<1>14. CASE UNCHANGED vars
  BY <1>1, <1>14 DEF vars, calibVars, Step, TaBases, Stored, TodoOK
<1> QED
  BY <1>2, <1>3, <1>4, <1>5, <1>6, <1>7, <1>8, <1>9, <1>10, <1>11, <1>12, <1>13, <1>14 DEF Next

\* The buffer is loaded for the step that uses it, and saved for the step that filled it.
LEMMA DataStep == IInv /\ [Next]_vars => DataOK'
<1> SUFFICES ASSUME IInv, [Next]_vars PROVE DataOK'
  OBVIOUS
<1>1. TypeOK /\ TodoOK /\ DataOK
  BY DEF IInv
<1>2. CASE Open
  BY <1>1, <1>2 DEF Open, Begin, DataOK
<1>3. CASE Measure
  BY <1>1, <1>3 DEF Measure, Begin, DataOK
<1>4. CASE Adapt
  BY <1>1, <1>4 DEF Adapt, Begin, DataOK
<1>5. CASE Load
  <2>1. CASE Done(todo.init \/ Step # 4)
    BY <1>1, <1>5, <2>1, DoneFacts DEF Load, IsAt, DataOK
  <2>2. CASE \E f \in {"none", "valid", "invalid"}: \E d \in {NoData, disk[Step]}:
               Given(f, d) /\ (f = "valid" => d = disk[Step]) /\ (f # "none" => todo.init)
    BY <1>1, <1>5, <2>2 DEF Load, Given, DataOK, Step
  <2> QED BY <1>5, <2>1, <2>2 DEF Load, LoadFile
<1>6. CASE TaKeeps
  BY <1>1, <1>6, DoneFacts DEF TaKeeps, Answer, IsAt, DataOK
<1>7. CASE TaMeasures
  <2>1. PICK l \in Lens[Step]: data' = [of |-> <<gen + 1>>, len |-> l]
    BY <1>7 DEF TaMeasures
  <2>2. data' # NoData
    BY <1>1, <1>7, <2>1, NewBase DEF TaMeasures
  <2>3. Step \in Steps /\ ta'[Step] = data'
    BY <1>7, KeptFacts DEF TaMeasures
  <2> QED BY <1>7, <2>2, <2>3 DEF TaMeasures, DataOK, Step
<1>8. CASE TaAdapts
  <2>1. PICK l \in Lens[Step]: Answer([of |-> TaBases, len |-> l], TRUE)
    BY <1>8 DEF TaAdapts
  <2>2. data' # NoData /\ pc' = "save" /\ UNCHANGED todo
    BY <1>1, <1>8, <2>1, NewAdaptation DEF TaAdapts, Answer
  <2>3. Step \in Steps /\ DOMAIN ta = Steps
    BY <1>1, <1>8, KeptFacts DEF TaAdapts, TypeOK
  <2>4. ta'[Step] = data'
    BY <2>1, <2>3 DEF Answer
  <2> QED BY <2>2, <2>4 DEF DataOK, Step
<1>9. CASE TaRepeats
  <2>1. todo'.steps = <<Step>> /\ Head(<<Step>>) = Step /\ pc' = "save"
    BY <1>1, <1>9 DEF TaRepeats, TypeOK
  <2>2. data' = ta'[Step] /\ data' # NoData
    BY <1>9 DEF TaRepeats
  <2>3. Step' = Step
    BY <2>1 DEF Step
  <2> QED BY <2>1, <2>2, <2>3 DEF DataOK
<1>10. CASE Save
  BY <1>1, <1>10, DoneFacts DEF Save, SaveEnd, IsAt, DataOK
<1>11. CASE Remove4
  BY <1>1, <1>11 DEF Remove4, DataOK
<1>12. CASE Remove5
  BY <1>1, <1>12, DoneFacts DEF Remove5, IsAt, DataOK
<1>13. CASE End
  BY <1>1, <1>13 DEF End, DataOK
<1>14. CASE UNCHANGED vars
  BY <1>1, <1>14 DEF vars, calibVars, Step, TaBases, Stored, DataOK
<1> QED
  BY <1>2, <1>3, <1>4, <1>5, <1>6, <1>7, <1>8, <1>9, <1>10, <1>11, <1>12, <1>13, <1>14 DEF Next

\* An adaptation in the TA stays one with bases it holds or with those on disk.
LEMMA TaStep == IInv /\ [Next]_vars => TaOK'
<1> SUFFICES ASSUME IInv, [Next]_vars PROVE TaOK'
  OBVIOUS
<1>1. TypeOK /\ TodoOK /\ DataOK /\ DiskOK
  BY DEF IInv
<1>2. /\ TaOK
      /\ pc = "closed" => Forgot
  BY DEF IInv, TaOK
<1>3. CASE Open
  <2>1. Forgot /\ UNCHANGED <<ta, disk, spoilt>> /\ pc' \in {"begin", "rest"}
    BY <1>1, <1>2, <1>3 DEF Open, Begin
  <2> QED BY <2>1 DEF TaOK, Forgot
<1>4. CASE Measure
  <2>1. UNCHANGED <<ta, disk, spoilt>> /\ pc' = "begin" /\ ~ todo'.init
    BY <1>4 DEF Measure, Begin
  <2> QED BY <1>1, <1>2, <2>1 DEF TaOK, Forgot, TaBases, Stored
<1>5. CASE Adapt
  <2>1. UNCHANGED <<ta, disk, spoilt>> /\ pc' = "begin" /\ ~ todo'.init
    BY <1>5 DEF Adapt, Begin
  <2> QED BY <1>1, <1>2, <2>1 DEF TaOK, Forgot, TaBases, Stored
<1>6. CASE Load
  <2>1. UNCHANGED <<ta, disk, spoilt>> /\ todo.steps # <<>>
    BY <1>6 DEF Load, IsAt
  <2>2. CASE Done(todo.init \/ Step # 4)
    <3>1. /\ pc' \in {"begin", "rest"} /\ todo'.init = todo.init
          /\ todo'.steps # <<>> /\ Step' \in Bases /\ todo.init => Step \in Bases
      BY <1>1, <1>2, <2>1, <2>2, DoneFacts
    <3> QED BY <1>1, <1>2, <2>1, <3>1 DEF TaOK, Forgot, TaBases, Stored
  <2>3. CASE pc' = "ta" /\ UNCHANGED todo
    BY <1>1, <1>2, <2>1, <2>3 DEF TaOK, Forgot, TaBases, Stored, Step
  <2> QED BY <1>6, <2>2, <2>3 DEF Load, LoadFile, Given
<1>7. CASE TaKeeps
  <2>1. Step \in Steps /\ todo.steps # <<>> /\ pc = "ta" /\ DOMAIN ta = Steps
    BY <1>1, <1>2, <1>7, TailFacts DEF TaKeeps, IsAt, TypeOK
  <2>2. PICK new: /\ Answer(new, FALSE)
                  /\ \/ new = IF flag = "none" THEN ta[Step] ELSE NoData
                     \/ flag = "valid" /\ new = data
    BY <1>7 DEF TaKeeps
  <2>3. /\ pc' \in {"begin", "rest"} /\ todo'.init = todo.init
        /\ todo'.steps # <<>> /\ Step' \in Bases /\ todo.init => Step \in Bases
    BY <1>1, <1>2, <2>1, <2>2, DoneFacts DEF Answer
  <2>4. UNCHANGED <<disk, spoilt>> /\ Stored' = Stored /\ ta' = [ta EXCEPT ![Step] = new]
    BY <1>7, <2>2 DEF TaKeeps, Stored, Answer
  <2>5. CASE Step \in Bases
    <3>1. \A k \in Adapted: ta'[k] = ta[k]
      BY <2>1, <2>4, <2>5, KeptFacts
    <3>2. CASE todo.init
      <4>1. Forgot
        BY <1>1, <1>2, <2>1, <2>5, <3>2 DEF TaOK
      <4>2. Forgot'
        BY <3>1, <4>1 DEF Forgot
      <4> QED BY <4>2, <2>3 DEF TaOK, Forgot
    <3>3. CASE ~ todo.init
      <4>1. new = ta[Step]
        BY <1>1, <1>2, <2>1, <2>2, <3>3 DEF DataOK
      <4>2. \A k \in Steps: ta'[k] = ta[k]
        BY <2>1, <2>4, <4>1
      <4>3. TaBases' = TaBases
        BY <4>2, KeptFacts DEF TaBases
      <4> QED BY <1>1, <1>2, <2>3, <2>4, <3>1, <3>3, <4>3 DEF TaOK, Forgot
    <3> QED BY <3>2, <3>3
  <2>6. CASE Step \in Adapted
    <3>1. \A b \in Bases: ta'[b] = ta[b]
      BY <2>1, <2>4, <2>6, KeptFacts
    <3>2. TaBases' = TaBases
      BY <3>1 DEF TaBases
    <3>3. ~ spoilt => new = ta[Step] \/ new = NoData \/ new.of = Stored
      BY <1>1, <1>2, <2>1, <2>2, <2>6 DEF DataOK, DiskOK, AdaptationFits
    <3>4. \A k \in Adapted: ta'[k] # NoData /\ ~ spoilt => ta'[k].of \in {TaBases, Stored}
      BY <1>1, <1>2, <2>1, <2>4, <3>3, KeptFacts DEF TaOK
    <3>5. todo'.steps # <<>> /\ Step' \in Bases /\ todo'.init => FALSE
      BY <2>3, <2>6, KeptFacts
    <3> QED BY <2>3, <2>4, <3>2, <3>4, <3>5 DEF TaOK
  <2> QED BY <2>1, <2>5, <2>6, KeptFacts
<1>8. CASE TaMeasures
  <2>1. \A k \in Adapted: ta'[k] = NoData
    BY <1>8, KeptFacts DEF TaMeasures
  <2> QED BY <2>1 DEF TaOK, Forgot
<1>9. CASE TaAdapts
  <2>1. PICK l \in Lens[Step]: Answer([of |-> TaBases, len |-> l], TRUE)
    BY <1>9 DEF TaAdapts
  <2> DEFINE new == [of |-> TaBases, len |-> l]
  <2>2. Step \in Adapted /\ Step \in Steps /\ DOMAIN ta = Steps
    BY <1>1, <1>2, <1>9, KeptFacts DEF TaAdapts, TypeOK
  <2>3. /\ ta' = [ta EXCEPT ![Step] = new] /\ pc' = "save" /\ UNCHANGED <<todo, disk, spoilt>>
        /\ new.of = TaBases
    BY <1>9, <2>1 DEF TaAdapts, Answer
  <2> HIDE DEF new
  <2>4. TaBases' = TaBases
    BY <2>2, <2>3, KeptFacts DEF TaBases
  <2>5. \A k \in Adapted: ta'[k] # NoData /\ ~ spoilt => ta'[k].of \in {TaBases, Stored}
    BY <1>1, <1>2, <2>2, <2>3, KeptFacts DEF TaOK
  <2>6. Step' \notin Bases
    BY <2>2, <2>3, KeptFacts DEF Step
  <2>7. Stored' = Stored
    BY <2>3 DEF Stored
  <2> QED BY <2>3, <2>4, <2>5, <2>6, <2>7 DEF TaOK
<1>10. CASE TaRepeats
  <2>1. todo'.steps = <<Step>> /\ Head(<<Step>>) = Step /\ pc' = "save" /\ Step \in Adapted
    BY <1>1, <1>2, <1>10 DEF TaRepeats, TypeOK
  <2>2. Step' \notin Bases
    BY <2>1, KeptFacts DEF Step
  <2>3. UNCHANGED <<ta, disk, spoilt>>
    BY <1>10 DEF TaRepeats
  <2> QED BY <1>1, <1>2, <2>1, <2>2, <2>3 DEF TaOK, Forgot, TaBases, Stored
<1>11. CASE Save
  <2>1. /\ Step \in Steps /\ todo.steps # <<>> /\ pc = "save" /\ UNCHANGED ta
        /\ (spoilt => spoilt') /\ DOMAIN disk = Steps
    BY <1>1, <1>2, <1>11, TailFacts DEF Save, IsAt, TypeOK
  <2>2. TaBases' = TaBases
    BY <2>1 DEF TaBases
  <2>3. CASE Step \in Bases
    <3>1. Forgot
      BY <1>1, <1>2, <2>1, <2>3 DEF TaOK
    <3>2. Forgot'
      BY <2>1, <3>1 DEF Forgot
    <3> QED BY <3>2 DEF TaOK, Forgot
  <2>4. CASE Step \in Adapted
    <3>1. \A b \in Bases: disk'[b] = disk[b]
      BY <1>11, <2>1, <2>4, KeptFacts DEF Save, SaveFile
    <3>2. Stored' = Stored
      BY <3>1 DEF Stored
    <3>3. /\ pc' \in {"begin", "rest"} /\ todo'.init = todo.init
          /\ todo'.steps # <<>> /\ Step' \in Bases /\ todo.init => Step \in Bases
      BY <1>1, <1>2, <1>11, <2>1, <2>4, DoneFacts, KeptFacts DEF Save, SaveEnd
    <3> QED BY <1>1, <1>2, <2>1, <2>2, <2>4, <3>2, <3>3, KeptFacts DEF TaOK
  <2> QED BY <2>1, <2>3, <2>4, KeptFacts
<1>12. CASE Remove4
  <2>1. Forgot /\ UNCHANGED ta
    BY <1>1, <1>2, <1>12 DEF TaOK, Remove4, IsAt
  <2>2. Forgot'
    BY <2>1 DEF Forgot
  <2> QED BY <2>2 DEF TaOK, Forgot
<1>13. CASE Remove5
  <2>1. Forgot /\ UNCHANGED ta
    BY <1>1, <1>2, <1>13 DEF TaOK, Remove5, IsAt
  <2>2. Forgot'
    BY <2>1 DEF Forgot
  <2> QED BY <2>2 DEF TaOK, Forgot
<1>14. CASE End
  <2>1. Forgot'
    BY <1>14, KeptFacts DEF End, Forgot
  <2> QED BY <2>1 DEF TaOK, Forgot
<1>15. CASE UNCHANGED vars
  BY <1>1, <1>2, <1>15 DEF vars, calibVars, Step, TaBases, Stored, TaOK, Forgot
<1> QED
  BY <1>3, <1>4, <1>5, <1>6, <1>7, <1>8, <1>9, <1>10, <1>11, <1>12, <1>13, <1>14, <1>15 DEF Next

\* An adaptation on disk fits the bases there, or is about to be removed.
LEMMA DiskStep == IInv /\ [Next]_vars => DiskOK'
<1> SUFFICES ASSUME IInv, [Next]_vars PROVE DiskOK'
  OBVIOUS
<1> DEFINE Early == {"closed", "rest", "begin", "ta"}
<1>1. TypeOK /\ TodoOK /\ DataOK /\ TaOK /\ DiskOK
  BY DEF IInv
<1>2. ASSUME pc \in Early, pc' \in {"rest", "begin", "ta", "save"}, UNCHANGED <<disk, spoilt>>
      PROVE  DiskOK'
  BY <1>1, <1>2 DEF DiskOK, AdaptationFits, Stored
<1>3. CASE Open
  <2>1. pc \in Early /\ pc' \in {"rest", "begin", "ta", "save"} /\ UNCHANGED <<disk, spoilt>>
    BY <1>3 DEF Open, Begin
  <2> QED BY <1>1, <1>2, <2>1
<1>4. CASE Measure
  <2>1. pc \in Early /\ pc' \in {"rest", "begin", "ta", "save"} /\ UNCHANGED <<disk, spoilt>>
    BY <1>4 DEF Measure, Begin
  <2> QED BY <1>1, <1>2, <2>1
<1>5. CASE Adapt
  <2>1. pc \in Early /\ pc' \in {"rest", "begin", "ta", "save"} /\ UNCHANGED <<disk, spoilt>>
    BY <1>5 DEF Adapt, Begin
  <2> QED BY <1>1, <1>2, <2>1
<1>6. CASE Load
  <2>1. pc \in Early /\ pc' \in {"rest", "begin", "ta", "save"} /\ UNCHANGED <<disk, spoilt>>
    BY <1>6 DEF Load, IsAt, Done, Given, LoadFile
  <2> QED BY <1>1, <1>2, <2>1
<1>7. CASE TaKeeps
  <2>1. pc \in Early /\ pc' \in {"rest", "begin", "ta", "save"} /\ UNCHANGED <<disk, spoilt>>
    BY <1>7 DEF TaKeeps, IsAt, Answer, Done
  <2> QED BY <1>1, <1>2, <2>1
<1>8. CASE TaMeasures
  <2>1. pc \in Early /\ pc' \in {"rest", "begin", "ta", "save"} /\ UNCHANGED <<disk, spoilt>>
    BY <1>8 DEF TaMeasures, IsAt
  <2> QED BY <1>1, <1>2, <2>1
<1>9. CASE TaAdapts
  <2>1. pc \in Early /\ pc' \in {"rest", "begin", "ta", "save"} /\ UNCHANGED <<disk, spoilt>>
    BY <1>9 DEF TaAdapts, IsAt, Answer
  <2> QED BY <1>1, <1>2, <2>1
<1>10. CASE TaRepeats
  <2>1. pc \in Early /\ pc' \in {"rest", "begin", "ta", "save"} /\ UNCHANGED <<disk, spoilt>>
    BY <1>10 DEF TaRepeats, IsAt
  <2> QED BY <1>1, <1>2, <2>1
<1>11. CASE Save
  <2>1. /\ Step \in Steps /\ todo.steps # <<>> /\ pc = "save" /\ UNCHANGED ta /\ DOMAIN disk = Steps
        /\ data = ta[Step] /\ data # NoData
    BY <1>1, <1>2, <1>11, TailFacts DEF Save, IsAt, TypeOK, DataOK
  <2>2. CASE Step \in Bases
    BY <1>11, <2>2 DEF Save, SaveEnd, DiskOK, AdaptationFits
  <2>3. CASE Step \in Adapted
    <3>1. \A b \in Bases: disk'[b] = disk[b]
      BY <1>11, <2>1, <2>3, KeptFacts DEF Save, SaveFile
    <3>2. Stored' = Stored
      BY <3>1 DEF Stored
    <3>3. pc' \in {"begin", "rest"}
      BY <1>11, <2>3, KeptFacts DEF Save, SaveEnd, Done
    <3>4. spoilt' = (spoilt \/ (disk'[Step].of # Stored /\ TaBases # Stored))
      BY <1>11, <2>3 DEF Save
    <3>5. \A k \in Adapted: disk[k] # NoData /\ ~ spoilt => disk[k].of = Stored
      BY <1>1, <1>2, <2>1 DEF DiskOK, AdaptationFits
    <3>6. ~ spoilt => ta[Step].of \in {TaBases, Stored}
      BY <1>1, <1>2, <2>1, <2>3 DEF TaOK
    <3>7. ASSUME NEW k \in Adapted, disk'[k] # NoData, ~ spoilt' PROVE disk'[k].of = Stored
      <4>1. ~ spoilt /\ k \in Steps
        BY <3>4, <3>7, KeptFacts
      <4>2. CASE disk' = [disk EXCEPT ![Step] = data] /\ k = Step
        <5>1. disk'[Step] = ta[Step]
          BY <2>1, <4>2
        <5> QED BY <3>4, <3>6, <3>7, <4>1, <4>2, <5>1
      <4>3. CASE disk' = [disk EXCEPT ![Step] = data] /\ k # Step
        BY <2>1, <3>5, <3>7, <4>1, <4>3
      <4>4. CASE disk' = disk
        BY <3>5, <3>7, <4>1, <4>4
      <4> QED BY <1>11, <4>2, <4>3, <4>4 DEF Save, SaveFile
    <3> QED BY <3>2, <3>3, <3>7 DEF DiskOK, AdaptationFits
  <2> QED BY <2>1, <2>2, <2>3, KeptFacts
<1>12. CASE Remove4
  <2>1. pc' = "remove5" /\ DOMAIN disk = Steps /\ 4 \in Steps
    BY <1>1, <1>2, <1>12, KeptFacts DEF Remove4, TypeOK
  <2>2. disk'[4] = NoData \/ spoilt'
    BY <1>12, <2>1 DEF Remove4, RemoveFile
  <2> QED BY <2>1, <2>2 DEF DiskOK, AdaptationFits
<1>13. CASE Remove5
  <2>1. pc = "remove5" /\ pc' \in {"begin", "rest"} /\ DOMAIN disk = Steps
    BY <1>1, <1>2, <1>13 DEF Remove5, Done, TypeOK, IsAt
  <2>2. disk[4] = NoData \/ spoilt
    BY <1>1, <1>2, <2>1 DEF DiskOK
  <2>3. ~ spoilt' => disk'[4] = NoData /\ disk'[5] = NoData
    <3>1. 4 \in Steps /\ 5 \in Steps /\ 4 # 5
      BY KeptFacts
    <3>2. CASE disk' = [disk EXCEPT ![5] = NoData] /\ spoilt' = (spoilt /\ (5 = 4 \/ disk[4] # NoData))
      BY <2>1, <2>2, <3>1, <3>2
    <3>3. CASE UNCHANGED disk /\ spoilt' = (spoilt \/ disk[5] # NoData)
      BY <2>2, <3>3
    <3> QED BY <1>13, <3>2, <3>3 DEF Remove5, RemoveFile
  <2> QED BY <2>1, <2>3 DEF DiskOK, AdaptationFits, Adapted
<1>14. CASE End
  <2>1. UNCHANGED disk /\ pc' = "closed" /\ spoilt' = (spoilt \/ pc \in {"remove4", "remove5"})
    BY <1>14 DEF End
  <2>2. CASE pc \in {"remove4", "remove5"}
    BY <2>1, <2>2 DEF DiskOK, AdaptationFits
  <2>3. CASE pc \notin {"remove4", "remove5"}
    BY <1>1, <1>2, <2>1, <2>3 DEF DiskOK, AdaptationFits, Stored
  <2> QED BY <2>2, <2>3
<1>15. CASE UNCHANGED vars
  BY <1>1, <1>2, <1>15 DEF vars, calibVars, Step, TaBases, Stored, DiskOK, AdaptationFits
<1> QED
  BY <1>3, <1>4, <1>5, <1>6, <1>7, <1>8, <1>9, <1>10, <1>11, <1>12, <1>13, <1>14, <1>15 DEF Next

\* The TA holds nothing and nothing is on disk at first.
LEMMA InitIInv == Init => IInv
<1> SUFFICES ASSUME Init PROVE IInv
  OBVIOUS
<1>1. \A k \in Steps: ta[k] = NoData /\ disk[k] = NoData
  BY DEF Init
<1>2. TypeOK
  <2>1. todo \in [steps : Seq(Steps), init : BOOLEAN]
    BY DEF Init
  <2>2. sessions \in 0..MaxSessions /\ gen \in 0..MaxGen
    BY CalibrationOK DEF Init
  <2>3. data \in Kept(1) \cup Kept(4) /\ \A k \in Steps: ta[k] \in Kept(k) /\ disk[k] \in Kept(k)
    BY <1>1, KeptFacts DEF Init
  <2>4. DOMAIN ta = Steps /\ DOMAIN disk = Steps
    BY DEF Init
  <2> QED BY <2>1, <2>2, <2>3, <2>4 DEF Init, TypeOK
<1>3. TodoOK /\ DataOK
  BY DEF Init, TodoOK, DataOK
<1>4. TaOK /\ DiskOK
  BY <1>1, KeptFacts DEF Init, TaOK, DiskOK, Forgot, AdaptationFits
<1> QED BY <1>2, <1>3, <1>4 DEF IInv

\* What the TA holds, what is saved and what is on disk stand together.
LEMMA Invariance == Spec => []IInv
<1>1. Init => IInv
  BY InitIInv
<1>2. IInv /\ [Next]_vars => IInv'
  BY TypeStep, TodoStep, DataStep, TaStep, DiskStep DEF IInv
<1> QED BY <1>1, <1>2, PTL DEF Spec
-----------------------------------------------------------------------------
\* The calibration keeps its types, for any lengths of the files.
THEOREM TypeCorrect == Spec => []TypeOK
<1>1. IInv => TypeOK
  BY DEF IInv
<1> QED BY <1>1, Invariance, PTL

\* No session starts with an adaptation on disk that belongs to other bases,
\* unless a removal failed or was cut short, or the TA adapted with a base
\* that was not saved.
THEOREM AdaptationsFit == Spec => []AdaptationFits
<1>1. IInv => AdaptationFits
  BY DEF IInv, DiskOK
<1> QED BY <1>1, Invariance, PTL

\* A base once saved may be replaced but is never lost: what is saved is never
\* nothing, a failed save leaves the old file, and only adaptations are removed.
THEOREM BasesKept == Spec => BaseKept
<1>1. IInv /\ [Next]_vars => [\A b \in Bases: disk[b] # NoData => disk'[b] # NoData]_vars
  <2> SUFFICES ASSUME IInv, Next, NEW b \in Bases, disk[b] # NoData PROVE disk'[b] # NoData
    OBVIOUS
  <2>1. b \in Steps /\ b \notin Adapted /\ DOMAIN disk = Steps
    BY KeptFacts DEF IInv, TypeOK
  <2>2. CASE Save
    <3>1. data # NoData
      BY <2>2 DEF Save, IsAt, IInv, DataOK
    <3> QED BY <2>1, <2>2, <3>1 DEF Save, SaveFile
  <2>3. CASE Remove4 \/ Remove5
    <3>1. b # 4 /\ b # 5
      BY <2>1, KeptFacts
    <3> QED BY <2>1, <2>3, <3>1 DEF Remove4, Remove5, RemoveFile
  <2>4. CASE UNCHANGED disk
    BY <2>4
  <2> QED BY <2>2, <2>3, <2>4
       DEF Next, Open, Measure, Adapt, Load, TaKeeps, TaMeasures, TaAdapts, TaRepeats, End
<1> QED BY <1>1, Invariance, PTL DEF Spec, BaseKept
-----------------------------------------------------------------------------
(***************************************************************************)
(* What the loops over lists compute.                                      *)
(*                                                                         *)
(* Each is a function of how many rounds are done, defined by the round    *)
(* before: a chain of that many values shows that there is such a          *)
(* function, and induction over a set of numbers what it computes.         *)
(***************************************************************************)
Less == {p \in Nat \X Nat : p[1] < p[2]}

\* Induction up to n, over the set of the numbers that have a property.
LEMMA UpTo ==
  ASSUME NEW n \in Nat, NEW S, 0 \in S, \A i \in 1..n: i - 1 \in S => i \in S
  PROVE  \A i \in 0..n: i \in S
<1> SUFFICES ASSUME NEW k \in 0..n, k \notin S PROVE FALSE
  OBVIOUS
<1> DEFINE B == {i \in 0..n : i \notin S}
<1>1. B # {} /\ B \subseteq Nat
  OBVIOUS
<1>2. IsWellFoundedOn(Less, Nat)
  BY NatLessThanWellFounded DEF OpToRel, Less
<1>3. PICK x \in B: \A y \in B: <<y, x>> \notin Less
  BY <1>1, <1>2, WFMin
<1>4. x \in 1..n
  OBVIOUS
<1>5. x - 1 \in 0..n /\ <<x - 1, x>> \in Less
  BY <1>4 DEF Less
<1>6. x - 1 \notin B
  BY <1>3, <1>5
<1> QED BY <1>4, <1>5, <1>6

\* The values of n rounds that start with x.
IsChain(g, x, n, round, X) ==
  g \in [0..n -> X] /\ g[0] = x /\ \A i \in 1..n: g[i] = round[<<g[i - 1], i>>]

\* There is one for every function that says what a round does.
LEMMA Chain ==
  ASSUME NEW X, NEW x \in X, NEW n \in Nat, NEW round \in [X \X (1..n) -> X]
  PROVE  \E g: IsChain(g, x, n, round, X)
<1> DEFINE P(m) == \E g \in [0..m -> X]: g[0] = x /\ \A i \in 1..m: g[i] = round[<<g[i - 1], i>>]
           S == {m \in 0..n : P(m)}
<1>1. 0 \in S
  <2>1. [i \in 0..0 |-> x] \in [0..0 -> X] /\ [i \in 0..0 |-> x][0] = x /\ 1..0 = {}
    OBVIOUS
  <2>2. P(0)
    BY <2>1
  <2> QED BY <2>2
<1>2. ASSUME NEW m \in 1..n, m - 1 \in S PROVE m \in S
  <2>1. PICK g \in [0..m - 1 -> X]: g[0] = x /\ \A i \in 1..m - 1: g[i] = round[<<g[i - 1], i>>]
    BY <1>2
  <2> DEFINE v == round[<<g[m - 1], m>>]
             h == [i \in 0..m |-> IF i = m THEN v ELSE g[i]]
  <2>2. v \in X
    <3>1. m - 1 \in 0..m - 1 /\ m \in 1..n
      OBVIOUS
    <3>2. g[m - 1] \in X
      BY <3>1
    <3> QED BY <3>1, <3>2
  <2> HIDE DEF v
  <2>3. h \in [0..m -> X]
    BY <2>2
  <2>4. h[0] = x /\ h[m] = v /\ \A i \in 0..m - 1: h[i] = g[i]
    BY <2>1
  <2>5. ASSUME NEW i \in 1..m PROVE h[i] = round[<<h[i - 1], i>>]
    <3> HIDE DEF h
    <3>1. CASE i = m
      <4>1. h[i - 1] = g[m - 1]
        BY <2>4, <3>1
      <4> QED BY <2>4, <3>1, <4>1 DEF v
    <3>2. CASE i # m
      <4>1. i \in 1..m - 1 /\ i \in 0..m - 1 /\ i - 1 \in 0..m - 1
        BY <3>2
      <4> QED BY <2>1, <2>4, <4>1
    <3> QED BY <3>1, <3>2
  <2> HIDE DEF h
  <2>6. P(m)
    BY <2>3, <2>4, <2>5
  <2> QED BY <2>6
<1>3. \A m \in 0..n: m \in S
  <2> HIDE DEF S
  <2> QED BY <1>1, <1>2, UpTo
<1>4. n \in S
  <2>1. n \in 0..n
    OBVIOUS
  <2> HIDE DEF S
  <2> QED BY <1>3, <2>1
<1> QED BY <1>4 DEF IsChain

\* Whatever starts with x and goes on by these rounds has their values.
Follows(f, x, n, round, X) ==
  f[0] = x /\ \A i \in 1..n: f[i - 1] \in X => f[i] = round[<<f[i - 1], i>>]

\* Two functions agree on the first n rounds.
Agree(f, g, n) == \A i \in 0..n: f[i] = g[i]

\* Two that follow the same rounds from the same start agree.
LEMMA SameChain ==
  ASSUME NEW X, NEW x, NEW n \in Nat, NEW round, NEW g, IsChain(g, x, n, round, X), NEW f, Follows(f, x, n, round, X)
  PROVE  Agree(f, g, n)
<1> DEFINE S == {i \in 0..n : f[i] = g[i]}
<1>1. 0 \in S
  BY DEF IsChain, Follows
<1>2. ASSUME NEW i \in 1..n, i - 1 \in S PROVE i \in S
  <2>1. i \in 0..n /\ i - 1 \in 0..n /\ f[i - 1] = g[i - 1]
    BY <1>2
  <2>2. g[i - 1] \in X /\ g[i] = round[<<g[i - 1], i>>]
    BY <2>1 DEF IsChain
  <2> QED BY <2>1, <2>2 DEF Follows
<1>3. \A i \in 0..n: i \in S
  <2> HIDE DEF S
  <2> QED BY <1>1, <1>2, UpTo
<1> QED BY <1>3 DEF Agree

\* The entries of a register list are complete.
LEMMA EntriesType ==
  ASSUME NEW node, node.regs \in Seq(Registers \cup {"bad"})
  PROVE  Entries(node) \in Seq(Registers)
<1> DEFINE s == node.regs
           n == Len(s)
           X == Seq(Registers)
           Next1(q, i) == IF s[i] = "bad" THEN q ELSE Append(q, s[i])
           round == [p \in X \X (1..n) |-> Next1(p[1], p[2])]
           f == CHOOSE h : h = [i \in 0..n |-> IF i = 0 THEN <<>> ELSE Next1(h[i - 1], i)]
<1>1. n \in Nat /\ <<>> \in X
  OBVIOUS
<1>2. Entries(node) = f[n]
  BY DEF Entries
<1>3. \A i \in 1..n: s[i] \in Registers \cup {"bad"}
  OBVIOUS
<1> HIDE DEF s, n
<1>4. \A q \in X: \A i \in 1..n: Next1(q, i) \in X
  BY <1>3
<1> HIDE DEF X, Next1
<1>5. round \in [X \X (1..n) -> X] /\ \A q \in X: \A i \in 1..n: round[<<q, i>>] = Next1(q, i)
  BY <1>4
<1> HIDE DEF round
<1>6. PICK g: IsChain(g, <<>>, n, round, X)
  BY <1>1, <1>5, Chain
<1>7. g \in [0..n -> X] /\ g[0] = <<>> /\ \A i \in 1..n: g[i] = round[<<g[i - 1], i>>]
  BY <1>6 DEF IsChain
<1>8. \A i \in 1..n: i # 0 /\ i - 1 \in 0..n /\ g[i - 1] \in X /\ g[i] = Next1(g[i - 1], i)
  <2> TAKE i \in 1..n
  <2>1. i # 0 /\ i - 1 \in 0..n
    BY <1>1
  <2>2. g[i - 1] \in X
    BY <1>7, <2>1
  <2> QED BY <1>5, <1>7, <2>1, <2>2
<1>9. g = [i \in 0..n |-> IF i = 0 THEN <<>> ELSE Next1(g[i - 1], i)]
  <2>1. \A i \in 0..n: g[i] = IF i = 0 THEN <<>> ELSE Next1(g[i - 1], i)
    <3>1. \A i \in 0..n: i = 0 \/ i \in 1..n
      BY <1>1
    <3> QED BY <1>7, <1>8, <3>1
  <2>2. g = [i \in 0..n |-> g[i]]
    BY <1>7
  <2> QED BY <2>1, <2>2
<1>10. f = [i \in 0..n |-> IF i = 0 THEN <<>> ELSE Next1(f[i - 1], i)]
  BY <1>9
<1> HIDE DEF f
<1>11. \A i \in 0..n: f[i] = g[i]
  <2>1. f[0] = <<>>
    BY <1>1, <1>10
  <2>2. \A i \in 1..n: f[i - 1] \in X => f[i] = round[<<f[i - 1], i>>]
    <3>1. \A i \in 1..n: i \in 0..n /\ i # 0
      BY <1>1
    <3> QED BY <1>5, <1>10, <3>1
  <2>3. Follows(f, <<>>, n, round, X)
    BY <2>1, <2>2 DEF Follows
  <2>4. Agree(f, g, n)
    BY <1>1, <1>6, <2>3, SameChain
  <2> QED BY <2>4 DEF Agree
<1>12. g[n] \in X
  BY <1>1, <1>7
<1> QED BY <1>1, <1>2, <1>11, <1>12 DEF X
-----------------------------------------------------------------------------
(***************************************************************************)
(* Lists are put into a configuration one after the other: the last one    *)
(* that is not passed over stays in its table, and the heap holds what the *)
(* tables refer to.                                                        *)
(***************************************************************************)
\* The tables by their names, and the blocks there can be.
Names  == Range(Tables) \cup Range(Params)
Blocks == [by : {"nobody", "hal", "ta"}, table : Names \cup {"none"}, node : Nat]

\* Configurations whose lists are from D.
Configs(V, W, D) == [val : V, bits : W, table : [Names -> [data : D, block : Blocks]], heap : SUBSET Blocks]

\* A list that is put is of a known table, in a block of its own.
IsList(p, D) ==
  p.data # <<>> => p.table \in Names /\ p.data \in D /\ p.block \in Blocks /\ p.block # NoBlock /\ p.block.table = p.table

\* A list that is not passed over.
IsPut(p, fails) == p.data # <<>> /\ p.block \notin fails

\* One round of PutAll, and its rounds.
After(c, p, fails) == IF IsPut(p, fails) THEN Put(c, p) ELSE c

\* The rounds of PutAll are those of g.
ArePut(g, cf, lists, fails, X) ==
  /\ g \in [0..Len(lists) -> X]
  /\ PutAll(cf, lists, fails) = g[Len(lists)] /\ g[0] = cf
  /\ \A i \in 1..Len(lists): g[i] = After(g[i - 1], lists[i], fails)

\* The heap holds the blocks of the tables and nothing else.
HeapOK(c) ==
  /\ c.heap = {c.table[t].block : t \in Names} \ {NoBlock}
  /\ \A t \in Names: c.table[t].block = NoBlock \/ c.table[t].block.table = t

\* Of the first m lists, the last one that is put for t.
IsLast(i, t, m, lists, fails) ==
  /\ i \in 1..m /\ lists[i].table = t /\ IsPut(lists[i], fails)
  /\ \A j \in 1..m: lists[j].table = t /\ IsPut(lists[j], fails) => j <= i

\* There is none.
NonePut(t, m, lists, fails) == \A j \in 1..m: lists[j].table = t => ~IsPut(lists[j], fails)

\* What is in the tables of c, after the first m lists were put into b.
Holds(c, b, m, lists, fails) ==
  \A t \in Names:
    \/ NonePut(t, m, lists, fails) /\ c.table[t] = b.table[t]
    \/ \E i: IsLast(i, t, m, lists, fails) /\ c.table[t] = [data |-> lists[i].data, block |-> lists[i].block]

\* A configuration with one table and its heap changed.
LEMMA Changed ==
  ASSUME NEW V, NEW W, NEW T, NEW H, NEW c \in [val : V, bits : W, table : T, heap : H], NEW u \in T, NEW k \in H
  PROVE  LET d == [c EXCEPT !.table = u, !.heap = k] IN
         /\ d \in [val : V, bits : W, table : T, heap : H]
         /\ d.val = c.val /\ d.bits = c.bits /\ d.table = u /\ d.heap = k
  OBVIOUS

\* One list.
LEMMA PutFacts ==
  ASSUME NEW V, NEW W, NEW D, NEW c \in Configs(V, W, D), NEW p, IsList(p, D), p.data # <<>>
  PROVE  /\ Put(c, p) \in Configs(V, W, D)
         /\ Put(c, p).table[p.table] = [data |-> p.data, block |-> p.block]
         /\ \A t \in Names \ {p.table}: Put(c, p).table[t] = c.table[t]
         /\ HeapOK(c) => HeapOK(Put(c, p))
<1> DEFINE new == [data |-> p.data, block |-> p.block]
           d == Put(c, p)
<1>1. p.table \in Names /\ p.data \in D /\ p.block \in Blocks /\ p.block # NoBlock /\ p.block.table = p.table
  BY DEF IsList
<1>2. c.table \in [Names -> [data : D, block : Blocks]] /\ c.heap \in SUBSET Blocks
  BY DEF Configs
<1> DEFINE u == [c.table EXCEPT ![p.table] = new]
           k == (c.heap \ {c.table[p.table].block}) \cup {p.block}
<1>3. new \in [data : D, block : Blocks]
  BY <1>1
<1>4. u \in [Names -> [data : D, block : Blocks]] /\ k \in SUBSET Blocks
  BY <1>1, <1>2, <1>3
<1>5. d = [c EXCEPT !.table = u, !.heap = k]
  BY DEF Put
<1> HIDE DEF d, u, k
<1>6. d \in Configs(V, W, D) /\ d.table = u /\ d.heap = k
  BY <1>4, <1>5, Changed DEF Configs
<1>7. d.heap = (c.heap \ {c.table[p.table].block}) \cup {p.block}
  BY <1>6 DEF k
<1>8. d.table = [c.table EXCEPT ![p.table] = new]
  BY <1>6 DEF u
<1>9. d.table[p.table] = new /\ \A t \in Names \ {p.table}: d.table[t] = c.table[t]
  BY <1>1, <1>2, <1>8
<1>10. ASSUME HeapOK(c) PROVE HeapOK(d)
  <2>1. d.table[p.table].block = p.block
    BY <1>9
  <2>2. \A t \in Names: d.table[t].block = NoBlock \/ d.table[t].block.table = t
    BY <1>1, <1>9, <1>10, <2>1 DEF HeapOK
  <2>3. ASSUME NEW e \in d.heap PROVE e \in {d.table[t].block : t \in Names} \ {NoBlock}
    <3>1. CASE e = p.block
      BY <1>1, <2>1, <3>1
    <3>2. CASE e # p.block
      <4>1. e \in c.heap /\ e # c.table[p.table].block
        BY <1>7, <2>3, <3>2
      <4>2. PICK t \in Names: e = c.table[t].block /\ e # NoBlock
        BY <1>10, <4>1 DEF HeapOK
      <4>3. t # p.table
        BY <4>1, <4>2
      <4>4. e = d.table[t].block
        BY <1>9, <4>2, <4>3
      <4> QED BY <4>2, <4>4
    <3> QED BY <3>1, <3>2
  <2>4. ASSUME NEW t \in Names, d.table[t].block # NoBlock PROVE d.table[t].block \in d.heap
    <3>1. CASE t = p.table
      BY <1>7, <2>1, <3>1
    <3>2. CASE t # p.table
      <4>1. d.table[t].block = c.table[t].block
        BY <1>9, <3>2
      <4>2. c.table[t].block \in c.heap /\ c.table[t].block.table = t
        BY <1>10, <2>4, <4>1 DEF HeapOK
      <4>3. c.table[p.table].block = NoBlock \/ c.table[p.table].block.table = p.table
        BY <1>1, <1>10 DEF HeapOK
      <4>4. c.table[t].block # c.table[p.table].block
        BY <2>4, <3>2, <4>1, <4>2, <4>3
      <4> QED BY <1>7, <4>1, <4>2, <4>4
    <3> QED BY <3>1, <3>2
  <2>5. d.heap = {d.table[t].block : t \in Names} \ {NoBlock}
    BY <2>3, <2>4
  <2> QED BY <2>2, <2>5 DEF HeapOK
<1> QED BY <1>6, <1>9, <1>10 DEF d

\* The rounds of PutAll.
LEMMA PutAllChain ==
  ASSUME NEW X, NEW cf \in X, NEW lists, Len(lists) \in Nat, NEW fails,
         \A c \in X: \A i \in 1..Len(lists): After(c, lists[i], fails) \in X
  PROVE  \E g: ArePut(g, cf, lists, fails, X)
<1> DEFINE n == Len(lists)
           Next1(c, i) == IF lists[i].data = <<>> \/ lists[i].block \in fails THEN c ELSE Put(c, lists[i])
           round == [p \in X \X (1..n) |-> Next1(p[1], p[2])]
           f == CHOOSE h : h = [i \in 0..n |-> IF i = 0 THEN cf ELSE Next1(h[i - 1], i)]
<1>1. n \in Nat
  OBVIOUS
<1>2. PutAll(cf, lists, fails) = f[n]
  BY DEF PutAll
<1>3. \A c: \A i \in 1..n: Next1(c, i) = After(c, lists[i], fails)
  BY DEF IsPut, After
<1>4. \A c \in X: \A i \in 1..n: Next1(c, i) \in X
  BY <1>3
<1> HIDE DEF n, Next1
<1>5. round \in [X \X (1..n) -> X] /\ \A q \in X: \A i \in 1..n: round[<<q, i>>] = Next1(q, i)
  BY <1>4
<1> HIDE DEF round
<1>6. PICK g: IsChain(g, cf, n, round, X)
  BY <1>1, <1>5, Chain
<1>7. g \in [0..n -> X] /\ g[0] = cf /\ \A i \in 1..n: g[i] = round[<<g[i - 1], i>>]
  BY <1>6 DEF IsChain
<1>8. \A i \in 1..n: i # 0 /\ i - 1 \in 0..n /\ g[i - 1] \in X /\ g[i] = Next1(g[i - 1], i)
  <2> TAKE i \in 1..n
  <2>1. i # 0 /\ i - 1 \in 0..n
    BY <1>1
  <2>2. g[i - 1] \in X
    BY <1>7, <2>1
  <2> QED BY <1>5, <1>7, <2>1, <2>2
<1>9. g = [i \in 0..n |-> IF i = 0 THEN cf ELSE Next1(g[i - 1], i)]
  <2>1. \A i \in 0..n: g[i] = IF i = 0 THEN cf ELSE Next1(g[i - 1], i)
    <3>1. \A i \in 0..n: i = 0 \/ i \in 1..n
      BY <1>1
    <3> QED BY <1>7, <1>8, <3>1
  <2>2. g = [i \in 0..n |-> g[i]]
    BY <1>7
  <2> QED BY <2>1, <2>2
<1>10. f = [i \in 0..n |-> IF i = 0 THEN cf ELSE Next1(f[i - 1], i)]
  BY <1>9
<1> HIDE DEF f
<1>11. \A i \in 0..n: f[i] = g[i]
  <2>1. f[0] = cf
    BY <1>1, <1>10
  <2>2. \A i \in 1..n: f[i - 1] \in X => f[i] = round[<<f[i - 1], i>>]
    <3>1. \A i \in 1..n: i \in 0..n /\ i # 0
      BY <1>1
    <3> QED BY <1>5, <1>10, <3>1
  <2>3. Follows(f, cf, n, round, X)
    BY <2>1, <2>2 DEF Follows
  <2>4. Agree(f, g, n)
    BY <1>1, <1>6, <2>3, SameChain
  <2> QED BY <2>4 DEF Agree
<1>12. f[n] = g[n]
  BY <1>1, <1>11
<1>13. \A i \in 1..n: g[i] = After(g[i - 1], lists[i], fails)
  BY <1>3, <1>8
<1> QED BY <1>2, <1>7, <1>12, <1>13 DEF n, ArePut

\* One list more.
LEMMA HoldsStep ==
  ASSUME NEW V, NEW W, NEW D, NEW c \in Configs(V, W, D), NEW b, NEW lists, NEW fails,
         NEW n \in Nat, NEW i \in 1..n, Holds(c, b, i - 1, lists, fails), IsList(lists[i], D)
  PROVE  /\ After(c, lists[i], fails) \in Configs(V, W, D)
         /\ Holds(After(c, lists[i], fails), b, i, lists, fails)
         /\ HeapOK(c) => HeapOK(After(c, lists[i], fails))
<1> DEFINE p == lists[i]
           d == After(c, p, fails)
<1>1. i \in 1..i /\ \A j \in 1..i: j = i \/ j \in 1..i - 1
  OBVIOUS
<1>2. \A j \in 1..i - 1: j \in 1..i /\ j <= i
  OBVIOUS
<1>3. /\ d \in Configs(V, W, D) /\ (HeapOK(c) => HeapOK(d))
      /\ IsPut(p, fails) => /\ p.table \in Names /\ d.table[p.table] = [data |-> p.data, block |-> p.block]
                            /\ \A t \in Names \ {p.table}: d.table[t] = c.table[t]
      /\ ~IsPut(p, fails) => d = c
  <2>1. CASE IsPut(p, fails)
    <3>1. d = Put(c, p) /\ p.data # <<>> /\ p.table \in Names
      BY <2>1 DEF IsPut, IsList, After
    <3> HIDE DEF d, p
    <3>2. IsList(p, D)
      BY DEF p
    <3> QED BY <2>1, <3>1, <3>2, PutFacts
  <2>2. CASE ~IsPut(p, fails)
    BY <2>2 DEF After
  <2> QED BY <2>1, <2>2
<1> HIDE DEF d
<1>4. ASSUME NEW t \in Names
      PROVE  \/ NonePut(t, i, lists, fails) /\ d.table[t] = b.table[t]
             \/ \E k: IsLast(k, t, i, lists, fails) /\ d.table[t] = [data |-> lists[k].data, block |-> lists[k].block]
  <2>1. CASE t = p.table /\ IsPut(p, fails)
    <3>1. \A j \in 1..i: j <= i
      OBVIOUS
    <3>2. IsLast(i, t, i, lists, fails)
      BY <1>1, <2>1, <3>1 DEF IsLast
    <3> QED BY <1>3, <2>1, <3>2
  <2>2. CASE ~(t = p.table /\ IsPut(p, fails))
    <3>1. d.table[t] = c.table[t]
      BY <1>3, <2>2
    <3>2. CASE NonePut(t, i - 1, lists, fails) /\ c.table[t] = b.table[t]
      <4>1. NonePut(t, i, lists, fails)
        BY <1>1, <2>2, <3>2 DEF NonePut
      <4> QED BY <3>1, <3>2, <4>1
    <3>3. CASE \E k: IsLast(k, t, i - 1, lists, fails) /\ c.table[t] = [data |-> lists[k].data, block |-> lists[k].block]
      <4>1. PICK k: IsLast(k, t, i - 1, lists, fails) /\ c.table[t] = [data |-> lists[k].data, block |-> lists[k].block]
        BY <3>3
      <4>2. IsLast(k, t, i, lists, fails)
        BY <1>1, <1>2, <2>2, <4>1 DEF IsLast
      <4> QED BY <3>1, <4>1, <4>2
    <3> QED BY <3>2, <3>3 DEF Holds
  <2> QED BY <2>1, <2>2
<1>5. Holds(d, b, i, lists, fails)
  BY <1>4 DEF Holds
<1> QED BY <1>3, <1>5 DEF d, p

\* All of them.
LEMMA PutAllFacts ==
  ASSUME NEW V, NEW W, NEW D, NEW cf \in Configs(V, W, D), NEW lists, Len(lists) \in Nat, NEW fails,
         \A i \in 1..Len(lists): IsList(lists[i], D)
  PROVE  /\ PutAll(cf, lists, fails) \in Configs(V, W, D)
         /\ Holds(PutAll(cf, lists, fails), cf, Len(lists), lists, fails)
         /\ HeapOK(cf) => HeapOK(PutAll(cf, lists, fails))
<1> DEFINE n == Len(lists)
           X == Configs(V, W, D)
<1>1. \A c \in X: \A i \in 1..n: After(c, lists[i], fails) \in X
  BY PutFacts DEF IsPut, After
<1>2. PICK g \in [0..n -> X]:
        /\ PutAll(cf, lists, fails) = g[n] /\ g[0] = cf
        /\ \A i \in 1..n: g[i] = After(g[i - 1], lists[i], fails)
  <2> HIDE DEF X
  <2>1. cf \in X
    BY DEF X
  <2>2. \E g: ArePut(g, cf, lists, fails, X)
    BY <1>1, <2>1, PutAllChain
  <2> QED BY <2>2 DEF ArePut
<1> HIDE DEF n
<1> DEFINE S == {i \in 0..n : Holds(g[i], cf, i, lists, fails) /\ (HeapOK(cf) => HeapOK(g[i]))}
<1>3. n \in Nat /\ \A i \in 1..n: IsList(lists[i], D)
  BY DEF n
<1>4. 0 \in S
  <2>1. 1..0 = {}
    OBVIOUS
  <2>2. Holds(cf, cf, 0, lists, fails)
    BY <2>1 DEF Holds, NonePut
  <2> QED BY <1>2, <1>3, <2>2
<1>5. ASSUME NEW i \in 1..n, i - 1 \in S PROVE i \in S
  <2>1. i \in 0..n /\ i - 1 \in 0..n
    BY <1>3
  <2>2. Holds(g[i - 1], cf, i - 1, lists, fails) /\ (HeapOK(cf) => HeapOK(g[i - 1])) /\ IsList(lists[i], D)
    BY <1>3, <1>5
  <2>3. g[i - 1] \in Configs(V, W, D)
    BY <1>2, <2>1
  <2>4. g[i] = After(g[i - 1], lists[i], fails)
    BY <1>2
  <2> DEFINE c == g[i - 1]
  <2> HIDE DEF c
  <2>5. Holds(g[i], cf, i, lists, fails) /\ (HeapOK(c) => HeapOK(g[i]))
    <3>1. c \in Configs(V, W, D) /\ Holds(c, cf, i - 1, lists, fails)
      BY <2>2, <2>3 DEF c
    <3>2. g[i] = After(c, lists[i], fails)
      BY <2>4 DEF c
    <3>3. IsList(lists[i], D)
      BY <2>2
    <3>4. Holds(After(c, lists[i], fails), cf, i, lists, fails) /\ (HeapOK(c) => HeapOK(After(c, lists[i], fails)))
      BY <1>3, <3>1, <3>3, HoldsStep
    <3> QED BY <3>2, <3>4
  <2> QED BY <2>1, <2>2, <2>5 DEF c
<1>6. \A i \in 0..n: i \in S
  <2> HIDE DEF S
  <2> QED BY <1>3, <1>4, <1>5, UpTo
<1>7. n \in S /\ g[n] \in X
  BY <1>2, <1>3, <1>6
<1> QED BY <1>2, <1>7 DEF n
-----------------------------------------------------------------------------
(***************************************************************************)
(* The tables in the buffer: where the lengths say that a table stands, is *)
(* what was sent of it.                                                    *)
(***************************************************************************)
LEMMA FrontOfConcat ==
  ASSUME NEW S, NEW q \in Seq(S), NEW s \in Seq(S), NEW a \in Nat \ {0}, NEW b \in Nat, b <= Len(q)
  PROVE  SubSeq(q \o s, a, b) = SubSeq(q, a, b)
<1>1. /\ Len(q) \in Nat /\ Len(s) \in Nat /\ q \o s \in Seq(S) /\ Len(q \o s) = Len(q) + Len(s)
      /\ \A i \in 1..Len(q) + Len(s): (q \o s)[i] = IF i <= Len(q) THEN q[i] ELSE s[i - Len(q)]
      /\ \A i \in 1..Len(q): q[i] \in S
  BY ConcatProperties
<1> DEFINE c == q \o s
<1> HIDE DEF c
<1>2. \A i \in a..b: c[i] = q[i] /\ q[i] \in S /\ c[i] \in S
  BY <1>1 DEF c
<1>3. a \in Int /\ b \in Int
  OBVIOUS
<1>4. /\ SubSeq(c, a, b) \in Seq(S) /\ Len(SubSeq(c, a, b)) = IF a <= b THEN b - a + 1 ELSE 0
      /\ \A i \in 1..b - a + 1: SubSeq(c, a, b)[i] = c[a + i - 1]
  BY <1>2, <1>3, SubSeqProperties
<1>5. /\ SubSeq(q, a, b) \in Seq(S) /\ Len(SubSeq(q, a, b)) = IF a <= b THEN b - a + 1 ELSE 0
      /\ \A i \in 1..b - a + 1: SubSeq(q, a, b)[i] = q[a + i - 1]
  BY <1>2, <1>3, SubSeqProperties
<1>6. Len(SubSeq(c, a, b)) = Len(SubSeq(q, a, b))
  BY <1>4, <1>5
<1>7. \A i \in 1..Len(SubSeq(c, a, b)): SubSeq(c, a, b)[i] = SubSeq(q, a, b)[i]
  <2> TAKE i \in 1..Len(SubSeq(c, a, b))
  <2>1. i \in 1..b - a + 1 /\ a + i - 1 \in a..b
    BY <1>3, <1>4
  <2> QED BY <1>2, <1>4, <1>5, <2>1
<1>8. SubSeq(c, a, b) = SubSeq(q, a, b)
  BY <1>4, <1>5, <1>6, <1>7, SeqEqual
<1> QED BY <1>8 DEF c

\* What stands behind a sequence, found by the length of that.
LEMMA BackOfConcat ==
  ASSUME NEW S, NEW q \in Seq(S), NEW s \in Seq(S)
  PROVE  SubSeq(q \o s, Len(q) + 1, Len(q) + Len(s)) = s
<1> DEFINE c == q \o s
           a == Len(q) + 1
           b == Len(q) + Len(s)
<1>1. /\ Len(q) \in Nat /\ Len(s) \in Nat
      /\ \A i \in 1..Len(q) + Len(s): c[i] = IF i <= Len(q) THEN q[i] ELSE s[i - Len(q)]
      /\ \A i \in 1..Len(s): s[i] \in S
  BY ConcatProperties
<1> HIDE DEF c
<1>2. \A i \in a..b: c[i] = s[i - Len(q)] /\ c[i] \in S
  <2> TAKE i \in a..b
  <2>1. i \in 1..Len(q) + Len(s) /\ ~ i <= Len(q) /\ i - Len(q) \in 1..Len(s)
    BY <1>1
  <2> QED BY <1>1, <2>1
<1>3. a \in Int /\ b \in Int /\ b - a + 1 = Len(s)
  BY <1>1
<1>4. /\ SubSeq(c, a, b) \in Seq(S) /\ Len(SubSeq(c, a, b)) = IF a <= b THEN b - a + 1 ELSE 0
      /\ \A i \in 1..b - a + 1: SubSeq(c, a, b)[i] = c[a + i - 1]
  <2> HIDE DEF a, b
  <2> QED BY <1>2, <1>3, SubSeqProperties
<1>5. Len(SubSeq(c, a, b)) = Len(s)
  BY <1>1, <1>4
<1>6. \A i \in 1..Len(s): SubSeq(c, a, b)[i] = s[i]
  <2> TAKE i \in 1..Len(s)
  <2>1. a + i - 1 \in a..b /\ (a + i - 1) - Len(q) = i
    BY <1>1
  <2>2. SubSeq(c, a, b)[i] = c[a + i - 1]
    BY <1>3, <1>4
  <2> HIDE DEF a, b
  <2> QED BY <1>2, <2>1, <2>2
<1>7. SubSeq(c, a, b) = s
  <2> HIDE DEF a, b
  <2> QED BY <1>4, <1>5, <1>6, SeqEqual
<1> QED BY <1>7 DEF a, b, c

\* The content after each table, and where each ends.
AreContents(g, cf, S) ==
  /\ g \in [0..Len(Order) -> Seq(S)] /\ Content(cf) = g[Len(Order)] /\ g[0] = <<>>
  /\ \A i \in 1..Len(Order): g[i] = g[i - 1] \o Sent(cf, Order[i])

\* The ends are the sums of the lengths.
AreOffsets(upd) ==
  /\ Offset(upd) \in [0..Len(Order) -> Nat] /\ Offset(upd)[0] = 0
  /\ \A i \in 1..Len(Order): Offset(upd)[i] = Offset(upd)[i - 1] + upd.len[Order[i]]

\* The content is what the last of these rounds gives.
LEMMA ContentChain ==
  ASSUME NEW cf, NEW S, Len(Order) \in Nat, \A i \in 1..Len(Order): Sent(cf, Order[i]) \in Seq(S)
  PROVE  \E g: AreContents(g, cf, S)
<1> DEFINE n == Len(Order)
           X == Seq(S)
           Next1(q, i) == q \o Sent(cf, Order[i])
           round == [p \in X \X (1..n) |-> Next1(p[1], p[2])]
           f == CHOOSE h : h = [i \in 0..n |-> IF i = 0 THEN <<>> ELSE Next1(h[i - 1], i)]
<1>1. n \in Nat /\ <<>> \in X
  OBVIOUS
<1>2. Content(cf) = f[n]
  BY DEF Content
<1>4. \A q \in X: \A i \in 1..n: Next1(q, i) \in X
  BY ConcatProperties
<1>3. \A q: \A i \in 1..n: Next1(q, i) = q \o Sent(cf, Order[i])
  OBVIOUS
<1> HIDE DEF n, Next1, X
<1>5. round \in [X \X (1..n) -> X] /\ \A q \in X: \A i \in 1..n: round[<<q, i>>] = Next1(q, i)
  BY <1>4
<1> HIDE DEF round
<1>6. PICK g: IsChain(g, <<>>, n, round, X)
  BY <1>1, <1>5, Chain
<1>7. g \in [0..n -> X] /\ g[0] = <<>> /\ \A i \in 1..n: g[i] = round[<<g[i - 1], i>>]
  BY <1>6 DEF IsChain
<1>8. \A i \in 1..n: i # 0 /\ i - 1 \in 0..n /\ g[i - 1] \in X /\ g[i] = Next1(g[i - 1], i)
  <2> TAKE i \in 1..n
  <2>1. i # 0 /\ i - 1 \in 0..n
    BY <1>1
  <2>2. g[i - 1] \in X
    BY <1>7, <2>1
  <2> QED BY <1>5, <1>7, <2>1, <2>2
<1>9. g = [i \in 0..n |-> IF i = 0 THEN <<>> ELSE Next1(g[i - 1], i)]
  <2>1. \A i \in 0..n: g[i] = IF i = 0 THEN <<>> ELSE Next1(g[i - 1], i)
    <3>1. \A i \in 0..n: i = 0 \/ i \in 1..n
      BY <1>1
    <3> QED BY <1>7, <1>8, <3>1
  <2>2. g = [i \in 0..n |-> g[i]]
    BY <1>7
  <2> QED BY <2>1, <2>2
<1>10. f = [i \in 0..n |-> IF i = 0 THEN <<>> ELSE Next1(f[i - 1], i)]
  BY <1>9
<1> HIDE DEF f
<1>11. \A i \in 0..n: f[i] = g[i]
  <2>1. f[0] = <<>>
    BY <1>1, <1>10
  <2>2. \A i \in 1..n: f[i - 1] \in X => f[i] = round[<<f[i - 1], i>>]
    <3>1. \A i \in 1..n: i \in 0..n /\ i # 0
      BY <1>1
    <3> QED BY <1>5, <1>10, <3>1
  <2>3. Follows(f, <<>>, n, round, X)
    BY <2>1, <2>2 DEF Follows
  <2>4. Agree(f, g, n)
    BY <1>1, <1>6, <2>3, SameChain
  <2> QED BY <2>4 DEF Agree
<1>12. f[n] = g[n]
  BY <1>1, <1>11
<1>13. \A i \in 1..n: g[i] = g[i - 1] \o Sent(cf, Order[i])
  BY <1>3, <1>8
<1> QED BY <1>2, <1>7, <1>12, <1>13 DEF n, X, AreContents

\* So is the length, a sum of natural numbers.
LEMMA OffsetChain ==
  ASSUME NEW upd, Len(Order) \in Nat, \A i \in 1..Len(Order): upd.len[Order[i]] \in Nat
  PROVE  AreOffsets(upd)
<1> DEFINE n == Len(Order)
           Next1(q, i) == q + upd.len[Order[i]]
           round == [p \in Nat \X (1..n) |-> Next1(p[1], p[2])]
           f == CHOOSE h : h = [i \in 0..n |-> IF i = 0 THEN 0 ELSE Next1(h[i - 1], i)]
<1>1. n \in Nat
  OBVIOUS
<1>2. Offset(upd) = f
  BY DEF Offset
<1>4. \A q \in Nat: \A i \in 1..n: Next1(q, i) \in Nat
  OBVIOUS
<1>3. \A q: \A i \in 1..n: Next1(q, i) = q + upd.len[Order[i]]
  OBVIOUS
<1> HIDE DEF n, Next1
<1>5. round \in [Nat \X (1..n) -> Nat] /\ \A q \in Nat: \A i \in 1..n: round[<<q, i>>] = Next1(q, i)
  BY <1>4
<1> HIDE DEF round
<1>6. PICK g: IsChain(g, 0, n, round, Nat)
  BY <1>1, <1>5, Chain
<1>7. g \in [0..n -> Nat] /\ g[0] = 0 /\ \A i \in 1..n: g[i] = round[<<g[i - 1], i>>]
  BY <1>6 DEF IsChain
<1>8. \A i \in 1..n: i # 0 /\ i - 1 \in 0..n /\ g[i - 1] \in Nat /\ g[i] = Next1(g[i - 1], i)
  <2> TAKE i \in 1..n
  <2>1. i # 0 /\ i - 1 \in 0..n
    BY <1>1
  <2>2. g[i - 1] \in Nat
    BY <1>7, <2>1
  <2> QED BY <1>5, <1>7, <2>1, <2>2
<1>9. g = [i \in 0..n |-> IF i = 0 THEN 0 ELSE Next1(g[i - 1], i)]
  <2>1. \A i \in 0..n: g[i] = IF i = 0 THEN 0 ELSE Next1(g[i - 1], i)
    <3>1. \A i \in 0..n: i = 0 \/ i \in 1..n
      BY <1>1
    <3> QED BY <1>7, <1>8, <3>1
  <2>2. g = [i \in 0..n |-> g[i]]
    BY <1>7
  <2> QED BY <2>1, <2>2
<1>10. f = [i \in 0..n |-> IF i = 0 THEN 0 ELSE Next1(f[i - 1], i)]
  BY <1>9
<1> HIDE DEF f
<1>11. \A i \in 0..n: f[i] = g[i]
  <2>1. f[0] = 0
    BY <1>1, <1>10
  <2>2. \A i \in 1..n: f[i - 1] \in Nat => f[i] = round[<<f[i - 1], i>>]
    <3>1. \A i \in 1..n: i \in 0..n /\ i # 0
      BY <1>1
    <3> QED BY <1>5, <1>10, <3>1
  <2>3. Follows(f, 0, n, round, Nat)
    BY <2>1, <2>2 DEF Follows
  <2>4. Agree(f, g, n)
    BY <1>1, <1>6, <2>3, SameChain
  <2> QED BY <2>4 DEF Agree
<1>12. f \in [0..n -> Nat] /\ f[0] = 0
  <2>1. \A i \in 0..n: f[i] \in Nat
    BY <1>7, <1>11
  <2> QED BY <1>1, <1>10, <2>1
<1>13. \A i \in 1..n: f[i] = f[i - 1] + upd.len[Order[i]]
  <2> TAKE i \in 1..n
  <2>1. i \in 0..n /\ i # 0
    BY <1>1
  <2> QED BY <1>3, <1>10, <2>1
<1> QED BY <1>2, <1>12, <1>13 DEF n, AreOffsets

\* Each table has one place in the order.
LEMMA OrderFacts ==
  /\ Len(Order) \in Nat /\ DOMAIN Order = 1..Len(Order)
  /\ \A i, j \in 1..Len(Order): Order[i] = Order[j] => i = j
  /\ Range(Order) = Names
  /\ \A t \in Names: \E i \in 1..Len(Order): Order[i] = t
  /\ \A i \in 1..Len(Order): Order[i] \in Names
<1>1. /\ Tables \in Seq(STRING) /\ Params \in Seq(STRING)
      /\ \A i, j \in DOMAIN Tables: Tables[i] = Tables[j] => i = j
      /\ \A i, j \in DOMAIN Params: Params[i] = Params[j] => i = j
      /\ Range(Tables) \cap Range(Params) = {}
  BY ConfigOK
<1> DEFINE m == Len(Tables)
           n == Len(Params)
<1>2. /\ m \in Nat /\ n \in Nat /\ DOMAIN Tables = 1..m /\ DOMAIN Params = 1..n
      /\ Order \in Seq(STRING) /\ Len(Order) = m + n
      /\ \A i \in 1..m + n: Order[i] = IF i <= m THEN Tables[i] ELSE Params[i - m]
  BY <1>1, ConcatProperties DEF Order
<1> HIDE DEF m, n
<1>3. Len(Order) \in Nat /\ DOMAIN Order = 1..Len(Order)
  BY <1>2
<1>4. \A i \in 1..m: i \in 1..m + n /\ Order[i] = Tables[i] /\ Order[i] \in Range(Tables)
  <2> TAKE i \in 1..m
  <2>1. i \in 1..m + n /\ Order[i] = Tables[i]
    BY <1>2
  <2> QED BY <1>2, <2>1 DEF Range
<1>5. \A i \in 1..n: i + m \in 1..m + n /\ Order[i + m] = Params[i] /\ Order[i + m] \in Range(Params)
  <2> TAKE i \in 1..n
  <2>1. i + m \in 1..m + n /\ ~ i + m <= m /\ (i + m) - m = i
    BY <1>2
  <2>2. Order[i + m] = Params[i]
    BY <1>2, <2>1
  <2> QED BY <1>2, <2>1, <2>2 DEF Range
<1>6. \A i \in 1..m + n: i \in 1..m \/ \E k \in 1..n: i = k + m
  <2> SUFFICES ASSUME NEW i \in 1..m + n, i \notin 1..m PROVE \E k \in 1..n: i = k + m
    OBVIOUS
  <2>1. i - m \in 1..n /\ i = (i - m) + m
    BY <1>2
  <2> QED BY <2>1
<1>7. ASSUME NEW i \in 1..m + n, NEW j \in 1..m + n, Order[i] = Order[j] PROVE i = j
  <2>1. CASE i \in 1..m /\ j \in 1..m
    BY <1>1, <1>2, <1>4, <1>7, <2>1
  <2>2. CASE i \in 1..m /\ \E k \in 1..n: j = k + m
    BY <1>1, <1>4, <1>5, <1>7, <2>2
  <2>3. CASE j \in 1..m /\ \E k \in 1..n: i = k + m
    BY <1>1, <1>4, <1>5, <1>7, <2>3
  <2>4. CASE (\E k \in 1..n: i = k + m) /\ (\E l \in 1..n: j = l + m)
    <3>1. PICK k \in 1..n: i = k + m
      BY <2>4
    <3>2. PICK l \in 1..n: j = l + m
      BY <2>4
    <3>3. Params[k] = Params[l]
      BY <1>5, <1>7, <3>1, <3>2
    <3> QED BY <1>1, <1>2, <3>1, <3>2, <3>3
  <2> QED BY <1>6, <2>1, <2>2, <2>3, <2>4
<1>8. ASSUME NEW i \in 1..m + n PROVE Order[i] \in Names
  BY <1>4, <1>5, <1>6 DEF Names
<1>9. ASSUME NEW t \in Names PROVE \E i \in 1..m + n: Order[i] = t
  <2>1. CASE t \in Range(Tables)
    <3>1. PICK i \in 1..m: t = Tables[i]
      BY <1>2, <2>1 DEF Range
    <3> QED BY <1>4, <3>1
  <2>2. CASE t \in Range(Params)
    <3>1. PICK i \in 1..n: t = Params[i]
      BY <1>2, <2>2 DEF Range
    <3> QED BY <1>5, <3>1
  <2> QED BY <2>1, <2>2 DEF Names
<1>10. Range(Order) = Names
  BY <1>2, <1>3, <1>8, <1>9 DEF Range
<1> QED BY <1>2, <1>3, <1>7, <1>8, <1>9, <1>10

\* What is sent is found again.
LEMMA SentBack ==
  ASSUME NEW cf, NEW S, \A i \in 1..Len(Order): Sent(cf, Order[i]) \in Seq(S)
  PROVE  /\ Length(Encode(cf)) = Len(Encode(cf).content)
         /\ Len(SentLists(Encode(cf))) = Len(Order)
         /\ \A i \in 1..Len(Order):
              /\ SentLists(Encode(cf))[i].table = Order[i] /\ SentLists(Encode(cf))[i].data = Sent(cf, Order[i])
              /\ SentLists(Encode(cf))[i].block = Block("ta", Order[i], 0)
<1> DEFINE n == Len(Order)
           upd == Encode(cf)
           h == Offset(upd)
<1>1. n \in Nat /\ \A i \in 1..n: Order[i] \in Range(Order) /\ Sent(cf, Order[i]) \in Seq(S)
  BY OrderFacts
<1>2. upd.content = Content(cf) /\ \A i \in 1..n: upd.len[Order[i]] = Len(Sent(cf, Order[i]))
  BY <1>1 DEF Encode
<1> HIDE DEF n, upd
<1>3. \A i \in 1..n: Len(Sent(cf, Order[i])) \in Nat
  BY <1>1
<1>4. h \in [0..n -> Nat] /\ h[0] = 0 /\ \A i \in 1..n: h[i] = h[i - 1] + Len(Sent(cf, Order[i]))
  <2>1. AreOffsets(upd)
    BY <1>1, <1>2, <1>3, OffsetChain DEF n
  <2> QED BY <1>2, <2>1 DEF AreOffsets, n
<1>5. PICK g: AreContents(g, cf, S)
  BY <1>1, ContentChain DEF n
<1>6. /\ g \in [0..n -> Seq(S)] /\ Content(cf) = g[n] /\ g[0] = <<>>
      /\ \A i \in 1..n: g[i] = g[i - 1] \o Sent(cf, Order[i])
  BY <1>5 DEF AreContents, n
<1> HIDE DEF h
<1> DEFINE OK(k) ==
             /\ Len(g[k]) = h[k]
             /\ \A i \in 1..k: h[i] <= h[k] /\ SubSeq(g[k], h[i - 1] + 1, h[i]) = Sent(cf, Order[i])
           T == {k \in 0..n : OK(k)}
<1>7. 0 \in T
  <2>1. Len(<<>>) = 0 /\ 1..0 = {}
    OBVIOUS
  <2> QED BY <1>1, <1>4, <1>6, <2>1
<1>8. ASSUME NEW k \in 1..n, k - 1 \in T PROVE k \in T
  <2> DEFINE s == Sent(cf, Order[k])
             q == g[k - 1]
  <2>1. k \in 0..n /\ k - 1 \in 0..n /\ OK(k - 1)
    BY <1>1, <1>8
  <2>2. q \in Seq(S) /\ s \in Seq(S) /\ g[k] = q \o s /\ Len(q) \in Nat /\ Len(s) \in Nat /\ Len(g[k]) = Len(q) + Len(s)
    <3>1. q \in Seq(S) /\ s \in Seq(S) /\ g[k] = q \o s
      BY <1>1, <1>6, <2>1
    <3> HIDE DEF q, s
    <3> QED BY <3>1, ConcatProperties
  <2>3. h[k - 1] = Len(q) /\ h[k] = h[k - 1] + Len(s)
    BY <1>4, <2>1
  <2>4. \A i \in 1..k - 1: h[i] <= Len(q) /\ SubSeq(q, h[i - 1] + 1, h[i]) = Sent(cf, Order[i])
    BY <2>1, <2>3
  <2> HIDE DEF q, s, OK
  <2>5. ASSUME NEW i \in 1..k PROVE h[i] <= h[k] /\ SubSeq(g[k], h[i - 1] + 1, h[i]) = Sent(cf, Order[i])
    <3>1. i \in 1..n /\ i \in 0..n /\ i - 1 \in 0..n
      BY <1>1
    <3>2. h[i] \in Nat /\ h[i - 1] \in Nat
      BY <1>4, <3>1
    <3>3. CASE i = k
      <4>1. SubSeq(q \o s, Len(q) + 1, Len(q) + Len(s)) = s
        BY <2>2, BackOfConcat
      <4>2. h[i] = Len(q) + Len(s) /\ h[i - 1] = Len(q) /\ g[k] = q \o s /\ Sent(cf, Order[i]) = s
        BY <2>2, <2>3, <3>3 DEF s
      <4>3. h[i] <= h[k]
        BY <3>2, <3>3
      <4> QED BY <3>3, <4>1, <4>2, <4>3
    <3>4. CASE i # k
      <4>1. i \in 1..k - 1
        BY <3>4
      <4>2. h[i] <= Len(q) /\ SubSeq(q, h[i - 1] + 1, h[i]) = Sent(cf, Order[i])
        BY <2>4, <4>1
      <4>3. h[i - 1] + 1 \in Nat \ {0} /\ h[i] <= h[k]
        <5>1. ASSUME NEW a \in Nat, NEW b \in Nat, NEW m \in Nat, NEW l \in Nat, a <= m
              PROVE  b + 1 \in Nat \ {0} /\ a <= m + l
          BY <5>1
        <5>2. h[k] = Len(q) + Len(s)
          BY <2>3
        <5> QED BY <2>2, <3>2, <4>2, <5>1, <5>2
      <4>4. SubSeq(q \o s, h[i - 1] + 1, h[i]) = SubSeq(q, h[i - 1] + 1, h[i])
        <5> DEFINE a == h[i - 1] + 1
                   b == h[i]
        <5>1. a \in Nat \ {0} /\ b \in Nat /\ b <= Len(q)
          BY <3>2, <4>2, <4>3
        <5> HIDE DEF a, b
        <5>2. SubSeq(q \o s, a, b) = SubSeq(q, a, b)
          BY <2>2, <5>1, FrontOfConcat
        <5> QED BY <5>2 DEF a, b
      <4> QED BY <2>2, <4>2, <4>3, <4>4
    <3> QED BY <3>3, <3>4
  <2>6. Len(g[k]) = h[k]
    BY <2>2, <2>3
  <2>7. OK(k)
    BY <2>5, <2>6 DEF OK
  <2> QED BY <2>1, <2>7
<1>9. OK(n)
  <2>1. \A k \in 0..n: k \in T
    <3> HIDE DEF T
    <3> QED BY <1>1, <1>7, <1>8, UpTo
  <2>2. n \in T
    BY <1>1, <2>1
  <2> QED BY <2>2
<1>10. Length(upd) = Len(upd.content)
  BY <1>2, <1>6, <1>9 DEF Length, n, h
<1>11. SentLists(upd) = [i \in 1..n |-> [table |-> Order[i], data |-> SubSeq(upd.content, h[i - 1] + 1, h[i]),
                                         block |-> Block("ta", Order[i], 0)]]
  BY DEF SentLists, n, h
<1>12. Len(SentLists(upd)) = n
  <2> QED BY <1>1, <1>11
<1>13. \A i \in 1..n:
         /\ SentLists(upd)[i].table = Order[i] /\ SentLists(upd)[i].data = Sent(cf, Order[i])
         /\ SentLists(upd)[i].block = Block("ta", Order[i], 0)
  <2> TAKE i \in 1..n
  <2>1. SubSeq(upd.content, h[i - 1] + 1, h[i]) = Sent(cf, Order[i])
    BY <1>2, <1>6, <1>9
  <2>2. SentLists(upd)[i] = [table |-> Order[i], data |-> SubSeq(upd.content, h[i - 1] + 1, h[i]),
                             block |-> Block("ta", Order[i], 0)]
    BY <1>11
  <2> QED BY <2>1, <2>2
<1> QED BY <1>10, <1>12, <1>13 DEF n, upd
-----------------------------------------------------------------------------
(***************************************************************************)
(* What a document is read into.                                           *)
(***************************************************************************)
Items == Registers \cup Int

\* A document: register lists and parameters of the types they are read to.
IsDoc(doc) ==
  /\ doc.nodes \in Seq([table : STRING, regs : Seq(Registers \cup {"bad"})])
  /\ \A p \in DOMAIN doc.params: doc.params[p].n \in Nat /\ doc.params[p].values \in Seq(Int)

\* What is read of a parameter list.
LEMMA ReadParamType ==
  ASSUME NEW doc, IsDoc(doc), NEW p PROVE ReadParam(doc, p) \in Seq(Items)
<1>1. CASE p \notin DOMAIN doc.params
  BY <1>1 DEF ReadParam
<1>2. CASE p \in DOMAIN doc.params
  <2> DEFINE s == doc.params[p].values
             a == doc.params[p].n
             m == Min({a, Len(s)})
  <2>1. a \in Nat /\ s \in Seq(Int) /\ Len(s) \in Nat
    BY <1>2 DEF IsDoc
  <2> HIDE DEF a, s
  <2>2. m \in {a, Len(s)} /\ m <= Len(s)
    <3>1. \E k \in {a, Len(s)}: \A l \in {a, Len(s)}: l >= k
      BY <2>1
    <3>2. m \in {a, Len(s)} /\ \A l \in {a, Len(s)}: l >= m
      BY <3>1 DEF Min
    <3> HIDE DEF m
    <3> QED BY <2>1, <3>2
  <2> HIDE DEF m
  <2>3. m \in Nat /\ m \in Int /\ 1 \in Int /\ \A i \in 1..m: s[i] \in Items
    BY <2>1, <2>2 DEF Items
  <2>4. SubSeq(s, 1, m) \in Seq(Items)
    BY <2>3, SubSeqProperties
  <2> QED BY <1>2, <2>4 DEF ReadParam, a, s, m
<1> QED BY <1>1, <1>2

\* Tables and parameters are apart, and "navi" is a parameter.
LEMMA NameFacts ==
  /\ Range(Tables) \cap Range(Params) = {} /\ "navi" \in Range(Params) /\ Names = Range(Tables) \cup Range(Params)
  /\ DOMAIN Params = 1..Len(Params) /\ Len(Params) \in Nat
  /\ \A i, j \in 1..Len(Params): Params[i] = Params[j] => i = j
  /\ \A i \in 1..Len(Params): Params[i] \in Range(Params)
  /\ \A p \in Range(Params): \E i \in 1..Len(Params): Params[i] = p
<1>1. /\ Params \in Seq(STRING) /\ \A i, j \in DOMAIN Params: Params[i] = Params[j] => i = j
      /\ Range(Tables) \cap Range(Params) = {} /\ "navi" \in Range(Params)
  BY ConfigOK
<1>2. DOMAIN Params = 1..Len(Params) /\ Len(Params) \in Nat
  BY <1>1
<1> QED BY <1>1, <1>2 DEF Names, Range

\* Blocks of known tables, and that they differ.
LEMMA BlockFacts ==
  ASSUME NEW by \in {"hal", "ta"}, NEW t \in Names, NEW i \in Nat
  PROVE  /\ Block(by, t, i) \in Blocks /\ Block(by, t, i) # NoBlock
         /\ Block(by, t, i).table = t /\ Block(by, t, i).by = by
<1>1. Block(by, t, i).by = by /\ Block(by, t, i).table = t /\ NoBlock.by = "nobody"
  BY DEF Block, NoBlock
<1>2. Block(by, t, i) # NoBlock
  BY <1>1
<1> QED BY <1>1, <1>2 DEF Block, Blocks

\* The parameter lists, each in a block of its own.
LEMMA ParamListsFacts ==
  ASSUME NEW doc, IsDoc(doc)
  PROVE  /\ Len(ParamLists(doc)) = Len(Params) /\ Len(ParamLists(doc)) \in Nat
         /\ \A i \in 1..Len(Params):
              /\ ParamLists(doc)[i].table = Params[i] /\ ParamLists(doc)[i].data = ReadParam(doc, Params[i])
              /\ ParamLists(doc)[i].block = Block("hal", Params[i], 0)
         /\ \A i \in 1..Len(ParamLists(doc)): IsList(ParamLists(doc)[i], Seq(Items))
<1>1. Len(ParamLists(doc)) = Len(Params)
  BY NameFacts DEF ParamLists
<1>2. \A i \in 1..Len(Params):
        /\ ParamLists(doc)[i].table = Params[i] /\ ParamLists(doc)[i].data = ReadParam(doc, Params[i])
        /\ ParamLists(doc)[i].block = Block("hal", Params[i], 0)
  BY DEF ParamLists
<1>3. ASSUME NEW i \in 1..Len(Params) PROVE IsList(ParamLists(doc)[i], Seq(Items))
  <2>1. Params[i] \in Names
    BY NameFacts
  <2>2. ReadParam(doc, Params[i]) \in Seq(Items)
    BY ReadParamType
  <2>3. /\ Block("hal", Params[i], 0) \in Blocks /\ Block("hal", Params[i], 0) # NoBlock
        /\ Block("hal", Params[i], 0).table = Params[i]
    BY <2>1, BlockFacts
  <2> QED BY <1>2, <2>1, <2>2, <2>3 DEF IsList
<1> QED BY <1>1, <1>2, <1>3, NameFacts

\* The register lists of a document by their number.
LEMMA NodesFacts ==
  ASSUME NEW doc, IsDoc(doc)
  PROVE  /\ Len(doc.nodes) \in Nat
         /\ \A i \in 1..Len(doc.nodes): doc.nodes[i].table \in STRING /\ doc.nodes[i].regs \in Seq(Registers \cup {"bad"})
<1> DEFINE N == [table : STRING, regs : Seq(Registers \cup {"bad"})]
           s == doc.nodes
<1>1. s \in Seq(N)
  BY DEF IsDoc
<1> HIDE DEF N, s
<1>2. Len(s) \in Nat /\ \A i \in 1..Len(s): s[i] \in N
  BY <1>1
<1>3. \A x \in N: x.table \in STRING /\ x.regs \in Seq(Registers \cup {"bad"})
  BY DEF N
<1> QED BY <1>2, <1>3 DEF s

\* The register lists, each in a block of its own.
LEMMA RegisterListsFacts ==
  ASSUME NEW doc, IsDoc(doc)
  PROVE  /\ Len(RegisterLists(doc)) = Len(doc.nodes) /\ Len(RegisterLists(doc)) \in Nat
         /\ \A i \in 1..Len(doc.nodes):
              /\ RegisterLists(doc)[i].table = doc.nodes[i].table
              /\ RegisterLists(doc)[i].data = IF doc.nodes[i].table \in Range(Tables) THEN Entries(doc.nodes[i]) ELSE <<>>
              /\ RegisterLists(doc)[i].block = Block("hal", doc.nodes[i].table, i)
         /\ \A i \in 1..Len(RegisterLists(doc)): IsList(RegisterLists(doc)[i], Seq(Items))
<1>1. Len(doc.nodes) \in Nat /\ \A i \in 1..Len(doc.nodes): doc.nodes[i].regs \in Seq(Registers \cup {"bad"})
  BY NodesFacts
<1>2. Len(RegisterLists(doc)) = Len(doc.nodes)
  BY <1>1 DEF RegisterLists
<1>3. \A i \in 1..Len(doc.nodes):
        /\ RegisterLists(doc)[i].table = doc.nodes[i].table
        /\ RegisterLists(doc)[i].data = IF doc.nodes[i].table \in Range(Tables) THEN Entries(doc.nodes[i]) ELSE <<>>
        /\ RegisterLists(doc)[i].block = Block("hal", doc.nodes[i].table, i)
  BY DEF RegisterLists
<1>4. ASSUME NEW i \in 1..Len(doc.nodes) PROVE IsList(RegisterLists(doc)[i], Seq(Items))
  <2>1. CASE doc.nodes[i].table \notin Range(Tables)
    BY <1>3, <2>1 DEF IsList
  <2>2. CASE doc.nodes[i].table \in Range(Tables)
    <3> DEFINE t == doc.nodes[i].table
    <3>1. t \in Names /\ i \in Nat
      BY <1>1, <2>2, NameFacts
    <3>2. Entries(doc.nodes[i]) \in Seq(Items)
      <4>1. Entries(doc.nodes[i]) \in Seq(Registers)
        BY <1>1, EntriesType
      <4>2. \A s \in Seq(Registers): s \in Seq(Items)
        BY DEF Items
      <4> QED BY <4>1, <4>2
    <3>3. Block("hal", t, i) \in Blocks /\ Block("hal", t, i) # NoBlock /\ Block("hal", t, i).table = t
      BY <3>1, BlockFacts
    <3> QED BY <1>3, <2>2, <3>1, <3>2, <3>3 DEF IsList
  <2> QED BY <2>1, <2>2
<1> QED BY <1>1, <1>2, <1>3, <1>4

\* A configuration, of its own values.
IsConf(c) == c \in [val : {c.val}, bits : {c.bits}, table : {c.table}, heap : {c.heap}]

\* The fields of these sections are those of the document.
FieldsIn(doc, c, parts) == {f \in Fields : f.section \in parts /\ HasValue(doc, c, f)}

\* They are set, and all others are zero and without their bits.
FieldsAre(c, doc, parts) ==
  /\ c.val  = [f \in Fields |-> IF f \in FieldsIn(doc, c, parts) THEN Value(doc, c, f) ELSE 0]
  /\ c.bits = {<<f.group, f.bit>> : f \in FieldsIn(doc, c, parts)}

\* A configuration with its fields changed.
LEMMA ChangedFields ==
  ASSUME NEW V, NEW W, NEW T, NEW H, NEW c \in [val : V, bits : W, table : T, heap : H], NEW u \in V, NEW k \in W
  PROVE  LET d == [c EXCEPT !.val = u, !.bits = k] IN
         /\ d \in [val : V, bits : W, table : T, heap : H]
         /\ d.val = u /\ d.bits = k /\ d.table = c.table /\ d.heap = c.heap
  OBVIOUS

\* Of the lists, only "navi" matters to the fields.
LEMMA SameFields ==
  ASSUME NEW doc, NEW c, NEW d, NEW parts, FieldsAre(c, doc, parts),
         d.val = c.val, d.bits = c.bits, d.table["navi"] = c.table["navi"]
  PROVE  FieldsAre(d, doc, parts)
<1>1. \A f: HasValue(doc, d, f) <=> HasValue(doc, c, f)
  BY DEF HasValue
<1>2. \A f: Value(doc, d, f) = Value(doc, c, f)
  BY DEF Value
<1>3. FieldsIn(doc, d, parts) = FieldsIn(doc, c, parts)
  BY <1>1 DEF FieldsIn
<1> QED BY <1>2, <1>3 DEF FieldsAre

\* One section more is read.
LEMMA SetFieldsFacts ==
  ASSUME NEW doc, NEW c, IsConf(c), NEW parts, FieldsAre(c, doc, parts), NEW s
  PROVE  LET d == SetFields(doc, c, s) IN
         /\ IsConf(d) /\ d.table = c.table /\ d.heap = c.heap
         /\ FieldsAre(d, doc, parts \cup {s})
<1> DEFINE set == {f \in Fields : f.section = s /\ HasValue(doc, c, f)}
           u == [f \in Fields |-> IF f \in set THEN Value(doc, c, f) ELSE c.val[f]]
           k == c.bits \cup {<<f.group, f.bit>> : f \in set}
           d == SetFields(doc, c, s)
<1>1. d = [c EXCEPT !.val = u, !.bits = k]
  BY DEF SetFields
<1>2. c \in [val : {c.val, u}, bits : {c.bits, k}, table : {c.table}, heap : {c.heap}]
  BY DEF IsConf
<1>3. u \in {c.val, u} /\ k \in {c.bits, k}
  OBVIOUS
<1> HIDE DEF u, k, d
<1>4. /\ d \in [val : {c.val, u}, bits : {c.bits, k}, table : {c.table}, heap : {c.heap}]
      /\ d.val = u /\ d.bits = k /\ d.table = c.table /\ d.heap = c.heap
  BY <1>1, <1>2, <1>3, ChangedFields
<1>5. IsConf(d)
  BY <1>4 DEF IsConf
<1>6. \A f: HasValue(doc, d, f) <=> HasValue(doc, c, f)
  BY <1>4 DEF HasValue
<1>7. \A f: Value(doc, d, f) = Value(doc, c, f)
  BY <1>4 DEF Value
<1>8. FieldsIn(doc, d, parts \cup {s}) = FieldsIn(doc, c, parts) \cup set
  BY <1>6 DEF FieldsIn
<1>9. d.val = [f \in Fields |-> IF f \in FieldsIn(doc, d, parts \cup {s}) THEN Value(doc, d, f) ELSE 0]
  <2>1. \A f \in Fields: u[f] = IF f \in FieldsIn(doc, c, parts) \cup set THEN Value(doc, c, f) ELSE 0
    <3>1. \A f \in Fields: u[f] = IF f \in set THEN Value(doc, c, f) ELSE c.val[f]
      BY DEF u
    <3>2. \A f \in Fields: c.val[f] = IF f \in FieldsIn(doc, c, parts) THEN Value(doc, c, f) ELSE 0
      BY DEF FieldsAre
    <3> HIDE DEF set
    <3> QED BY <3>1, <3>2
  <2>2. u = [f \in Fields |-> u[f]]
    BY DEF u
  <2>3. \A f \in Fields: u[f] = IF f \in FieldsIn(doc, d, parts \cup {s}) THEN Value(doc, d, f) ELSE 0
    BY <1>7, <1>8, <2>1
  <2> QED BY <1>4, <2>2, <2>3
<1>10. d.bits = {<<f.group, f.bit>> : f \in FieldsIn(doc, d, parts \cup {s})}
  <2>1. c.bits = {<<f.group, f.bit>> : f \in FieldsIn(doc, c, parts)}
    BY DEF FieldsAre
  <2>2. k = {<<f.group, f.bit>> : f \in FieldsIn(doc, c, parts) \cup set}
    <3> HIDE DEF set
    <3> QED BY <2>1 DEF k
  <2> QED BY <1>4, <1>8, <2>2
<1> QED BY <1>4, <1>5, <1>9, <1>10 DEF FieldsAre, d

\* The parameters and the register lists of a document.
ParamsAre(c, doc, fails) ==
  \A p \in Range(Params):
    /\ c.table[p].data = NamedParam(doc, fails, p)
    /\ c.table[p].block = IF NamedParam(doc, fails, p) = <<>> THEN NoBlock ELSE Block("hal", p, 0)

\* The tables hold the last register list of theirs that could be allocated.
RegistersAre(c, doc, fails) ==
  \A t \in Range(Tables):
    \/ NamedNodes(doc, fails, t) = {} /\ c.table[t] = [data |-> <<>>, block |-> NoBlock]
    \/ \E i \in NamedNodes(doc, fails, t):
         /\ \A j \in NamedNodes(doc, fails, t): j <= i
         /\ c.table[t] = [data |-> Entries(doc.nodes[i]), block |-> Block("hal", t, i)]

\* The parameters are read.
LEMMA ParamsRead ==
  ASSUME NEW doc, IsDoc(doc), NEW fails, NEW V, NEW W, NEW b \in Configs(V, W, Seq(Items)),
         \A t \in Names: b.table[t] = [data |-> <<>>, block |-> NoBlock]
  PROVE  LET c == PutAll(b, ParamLists(doc), fails) IN
         /\ c \in Configs(V, W, Seq(Items)) /\ (HeapOK(b) => HeapOK(c))
         /\ ParamsAre(c, doc, fails)
         /\ \A t \in Range(Tables): c.table[t] = [data |-> <<>>, block |-> NoBlock]
<1> DEFINE lists == ParamLists(doc)
           n == Len(lists)
           c == PutAll(b, lists, fails)
<1>1. /\ n = Len(Params) /\ n \in Nat
      /\ \A i \in 1..n: /\ lists[i].table = Params[i] /\ lists[i].data = ReadParam(doc, Params[i])
                        /\ lists[i].block = Block("hal", Params[i], 0)
      /\ \A i \in 1..n: IsList(lists[i], Seq(Items))
  BY ParamListsFacts
<1> HIDE DEF lists
<1>2. c \in Configs(V, W, Seq(Items)) /\ Holds(c, b, n, lists, fails) /\ (HeapOK(b) => HeapOK(c))
  BY <1>1, PutAllFacts
<1> HIDE DEF c, n
<1>3. ASSUME NEW t \in Range(Tables) PROVE c.table[t] = [data |-> <<>>, block |-> NoBlock]
  <2>1. t \in Names /\ \A i \in 1..n: lists[i].table # t
    BY <1>1, NameFacts
  <2>2. ~ \E i: IsLast(i, t, n, lists, fails)
    BY <2>1 DEF IsLast
  <2> QED BY <1>2, <2>1, <2>2 DEF Holds
<1>4. ASSUME NEW p \in Range(Params)
      PROVE  /\ c.table[p].data = NamedParam(doc, fails, p)
             /\ c.table[p].block = IF NamedParam(doc, fails, p) = <<>> THEN NoBlock ELSE Block("hal", p, 0)
  <2>1. p \in Names
    BY NameFacts
  <2>2. PICK k \in 1..n: Params[k] = p /\ \A j \in 1..n: Params[j] = p => j = k
    BY <1>1, NameFacts
  <2>3. IsPut(lists[k], fails) <=> NamedParam(doc, fails, p) # <<>>
    BY <1>1, <2>2 DEF IsPut, NamedParam
  <2>4. CASE IsPut(lists[k], fails)
    <3>1. ~NonePut(p, n, lists, fails)
      BY <1>1, <2>2, <2>4 DEF NonePut
    <3>2. \A i: IsLast(i, p, n, lists, fails) => i = k
      BY <1>1, <2>2 DEF IsLast
    <3>3. c.table[p] = [data |-> lists[k].data, block |-> lists[k].block]
      BY <1>2, <2>1, <3>1, <3>2 DEF Holds
    <3>4. NamedParam(doc, fails, p) = ReadParam(doc, p)
      BY <2>3, <2>4 DEF NamedParam
    <3> QED BY <1>1, <2>2, <2>3, <2>4, <3>3, <3>4
  <2>5. CASE ~IsPut(lists[k], fails)
    <3>1. \A i: ~IsLast(i, p, n, lists, fails)
      BY <1>1, <2>2, <2>5 DEF IsLast
    <3>2. c.table[p] = [data |-> <<>>, block |-> NoBlock]
      BY <1>2, <2>1, <3>1 DEF Holds
    <3> QED BY <2>3, <2>5, <3>2
  <2> QED BY <2>4, <2>5
<1> QED BY <1>2, <1>3, <1>4 DEF ParamsAre, c, lists

\* The register lists are read.
LEMMA RegistersRead ==
  ASSUME NEW doc, IsDoc(doc), NEW fails, NEW V, NEW W, NEW b \in Configs(V, W, Seq(Items)),
         \A t \in Range(Tables): b.table[t] = [data |-> <<>>, block |-> NoBlock]
  PROVE  LET c == PutAll(b, RegisterLists(doc), fails) IN
         /\ c \in Configs(V, W, Seq(Items)) /\ (HeapOK(b) => HeapOK(c))
         /\ RegistersAre(c, doc, fails)
         /\ \A p \in Range(Params): c.table[p] = b.table[p]
<1> DEFINE lists == RegisterLists(doc)
           n == Len(lists)
           c == PutAll(b, lists, fails)
<1>1. /\ n = Len(doc.nodes) /\ n \in Nat
      /\ \A i \in 1..n: /\ lists[i].table = doc.nodes[i].table
                        /\ lists[i].data = IF doc.nodes[i].table \in Range(Tables) THEN Entries(doc.nodes[i]) ELSE <<>>
                        /\ lists[i].block = Block("hal", doc.nodes[i].table, i)
      /\ \A i \in 1..n: IsList(lists[i], Seq(Items))
  BY RegisterListsFacts
<1> HIDE DEF lists
<1>2. c \in Configs(V, W, Seq(Items)) /\ Holds(c, b, n, lists, fails) /\ (HeapOK(b) => HeapOK(c))
  BY <1>1, PutAllFacts
<1> HIDE DEF c, n
<1>3. ASSUME NEW p \in Range(Params) PROVE c.table[p] = b.table[p]
  <2>1. p \in Names /\ p \notin Range(Tables)
    BY NameFacts
  <2>2. \A i \in 1..n: lists[i].table = p => lists[i].data = <<>>
    BY <1>1, <2>1
  <2>3. \A i: ~IsLast(i, p, n, lists, fails)
    BY <2>2 DEF IsLast, IsPut
  <2> QED BY <1>2, <2>1, <2>3 DEF Holds
<1>4. ASSUME NEW t \in Range(Tables)
      PROVE  \/ NamedNodes(doc, fails, t) = {} /\ c.table[t] = [data |-> <<>>, block |-> NoBlock]
             \/ \E i \in NamedNodes(doc, fails, t):
                  /\ \A j \in NamedNodes(doc, fails, t): j <= i
                  /\ c.table[t] = [data |-> Entries(doc.nodes[i]), block |-> Block("hal", t, i)]
  <2>1. t \in Names
    BY NameFacts
  <2>2. \A i \in 1..n: lists[i].table = t /\ IsPut(lists[i], fails) <=> i \in NamedNodes(doc, fails, t)
    BY <1>1 DEF IsPut, NamedNodes
  <2>3. \A i \in NamedNodes(doc, fails, t): i \in 1..n
    BY <1>1 DEF NamedNodes
  <2>4. CASE NonePut(t, n, lists, fails) /\ c.table[t] = b.table[t]
    <3>1. NamedNodes(doc, fails, t) = {}
      BY <2>2, <2>3, <2>4 DEF NonePut
    <3> QED BY <2>4, <3>1
  <2>5. CASE \E i: IsLast(i, t, n, lists, fails) /\ c.table[t] = [data |-> lists[i].data, block |-> lists[i].block]
    <3>1. PICK i: IsLast(i, t, n, lists, fails) /\ c.table[t] = [data |-> lists[i].data, block |-> lists[i].block]
      BY <2>5
    <3>2. i \in 1..n /\ i \in NamedNodes(doc, fails, t) /\ \A j \in NamedNodes(doc, fails, t): j <= i
      BY <2>2, <2>3, <3>1 DEF IsLast
    <3>3. lists[i].data = Entries(doc.nodes[i]) /\ lists[i].block = Block("hal", t, i)
      BY <1>1, <3>2 DEF NamedNodes
    <3> QED BY <3>1, <3>2, <3>3
  <2> QED BY <1>2, <2>1, <2>4, <2>5 DEF Holds
<1> QED BY <1>2, <1>3, <1>4 DEF RegistersAre, c, lists

\* A configuration that holds nothing yet.
LEMMA BlankFacts ==
  ASSUME NEW E, NEW default \in [data : E, block : {NoBlock}]
  PROVE  /\ Blank(default) \in Configs({Blank(default).val}, {{}}, E) /\ HeapOK(Blank(default))
         /\ \A t \in Names: Blank(default).table[t] = default
         /\ \A doc: FieldsAre(Blank(default), doc, {})
         /\ Blank(default).val = [f \in Fields |-> 0]
<1> DEFINE c == Blank(default)
<1>1. /\ c.val = [f \in Fields |-> 0] /\ c.bits = {} /\ c.heap = {}
      /\ c.table = [t \in Names |-> default]
  BY DEF Blank, Names
<1>2. NoBlock \in Blocks
  BY DEF NoBlock, Block, Blocks
<1>3. c.table \in [Names -> [data : E, block : Blocks]]
  BY <1>1, <1>2
<1>4. c \in Configs({c.val}, {{}}, E)
  <2>1. c = [val |-> c.val, bits |-> c.bits, table |-> c.table, heap |-> c.heap]
    BY DEF Blank
  <2> HIDE DEF c
  <2> QED BY <1>1, <1>3, <2>1 DEF Configs
<1> HIDE DEF c
<1>5. \A t \in Names: c.table[t] = default
  BY <1>1
<1>6. HeapOK(c)
  BY <1>1, <1>5 DEF HeapOK
<1>7. \A doc: FieldsAre(c, doc, {})
  BY <1>1 DEF FieldsAre, FieldsIn
<1> QED BY <1>1, <1>4, <1>5, <1>6, <1>7 DEF c

\* The parts of a configuration of this type.
LEMMA ConfFacts ==
  ASSUME NEW V, NEW W, NEW D, NEW c \in Configs(V, W, D)
  PROVE  /\ IsConf(c) /\ c.val \in V /\ c.bits \in W
         /\ c.table \in [Names -> [data : D, block : Blocks]] /\ c.heap \in SUBSET Blocks
  BY DEF IsConf, Configs

\* A configuration is of the type of its own parts.
LEMMA ConfIsIn ==
  ASSUME NEW D, NEW c, IsConf(c), c.table \in [Names -> [data : D, block : Blocks]], c.heap \in SUBSET Blocks
  PROVE  c \in Configs({c.val}, {c.bits}, D)
  BY DEF IsConf, Configs

\* What a document is read into: its fields, parameters and register lists,
\* in blocks that are all on the heap.
LEMMA ReadFacts ==
  ASSUME NEW doc, IsDoc(doc), NEW fails
  PROVE  LET c == Read(doc, fails) IN
         /\ ParamsAre(c, doc, fails) /\ RegistersAre(c, doc, fails) /\ FieldsAre(c, doc, Parts)
         /\ HeapOK(c) /\ DOMAIN c.table = Names
         /\ \A t \in Names: c.table[t].data \in Seq(Items)
<1> DEFINE D == Seq(Items)
           nothing == [data |-> <<>>, block |-> NoBlock]
           c0 == Blank(nothing)
           c1 == PutAll(c0, ParamLists(doc), fails)
           c2 == SetFields(doc, c1, "SysParam")
           c3 == PutAll(c2, RegisterLists(doc), fails)
           c4 == SetFields(doc, c3, "op_registers")
           c5 == SetFields(doc, c4, "pb")
           c6 == SetFields(doc, c5, "test")
           M == [Names -> [data : D, block : Blocks]]
<1>1. Read(doc, fails) = c6
  BY DEF Read, ReadParamFile, SysParam, OpRegisters, PbConfig, TestConfig
<1>2. nothing \in [data : D, block : {NoBlock}]
  OBVIOUS
<1>3. "navi" \in Range(Params) /\ "navi" \in Names
  BY NameFacts
<1>4. /\ c0 \in Configs({c0.val}, {{}}, D) /\ HeapOK(c0) /\ FieldsAre(c0, doc, {})
      /\ \A t \in Names: c0.table[t] = nothing
  <2> HIDE DEF nothing
  <2> QED BY <1>2, BlankFacts
<1> HIDE DEF c0
<1>5. /\ c1 \in Configs({c0.val}, {{}}, D) /\ HeapOK(c1) /\ ParamsAre(c1, doc, fails)
      /\ \A t \in Range(Tables): c1.table[t] = nothing
  BY <1>4, ParamsRead
<1> HIDE DEF c1
<1>6. IsConf(c1) /\ c1.table \in M /\ c1.heap \in SUBSET Blocks /\ c1.val = c0.val /\ c1.bits = c0.bits
  <2>1. IsConf(c1) /\ c1.val \in {c0.val} /\ c1.bits \in {{}} /\ c1.table \in M /\ c1.heap \in SUBSET Blocks
    BY <1>5, ConfFacts
  <2>2. c0.bits \in {{}}
    BY <1>4, ConfFacts
  <2> QED BY <2>1, <2>2
<1>7. FieldsAre(c1, doc, {})
  <2>1. c1.val = [f \in Fields |-> 0] /\ c1.bits = {}
    BY <1>4, <1>6 DEF FieldsAre, FieldsIn
  <2> QED BY <2>1 DEF FieldsAre, FieldsIn
<1>8. /\ IsConf(c2) /\ c2.table = c1.table /\ c2.heap = c1.heap
      /\ FieldsAre(c2, doc, {} \cup {"SysParam"})
  BY <1>6, <1>7, SetFieldsFacts
<1> HIDE DEF c2
<1>9. c2 \in Configs({c2.val}, {c2.bits}, D)
  BY <1>6, <1>8, ConfIsIn
<1>10. HeapOK(c2) /\ ParamsAre(c2, doc, fails) /\ \A t \in Range(Tables): c2.table[t] = nothing
  BY <1>5, <1>8 DEF HeapOK, ParamsAre
<1>11. /\ c3 \in Configs({c2.val}, {c2.bits}, D) /\ HeapOK(c3) /\ RegistersAre(c3, doc, fails)
       /\ \A p \in Range(Params): c3.table[p] = c2.table[p]
  BY <1>9, <1>10, RegistersRead
<1> HIDE DEF c3
<1>12. IsConf(c3) /\ c3.table \in M /\ c3.val \in {c2.val} /\ c3.bits \in {c2.bits}
  BY <1>11, ConfFacts
<1>13. ParamsAre(c3, doc, fails)
  BY <1>10, <1>11 DEF ParamsAre
<1>14. FieldsAre(c3, doc, {} \cup {"SysParam"})
  BY <1>3, <1>8, <1>11, <1>12, SameFields
<1>15. /\ IsConf(c4) /\ c4.table = c3.table /\ c4.heap = c3.heap
       /\ FieldsAre(c4, doc, ({} \cup {"SysParam"}) \cup {"op_registers"})
  BY <1>12, <1>14, SetFieldsFacts
<1> HIDE DEF c4
<1>16. /\ IsConf(c5) /\ c5.table = c4.table /\ c5.heap = c4.heap
       /\ FieldsAre(c5, doc, (({} \cup {"SysParam"}) \cup {"op_registers"}) \cup {"pb"})
  BY <1>15, SetFieldsFacts
<1> HIDE DEF c5
<1>17. /\ c6.table = c5.table /\ c6.heap = c5.heap
       /\ FieldsAre(c6, doc, ((({} \cup {"SysParam"}) \cup {"op_registers"}) \cup {"pb"}) \cup {"test"})
  BY <1>16, SetFieldsFacts
<1> HIDE DEF c6
<1>18. ((({} \cup {"SysParam"}) \cup {"op_registers"}) \cup {"pb"}) \cup {"test"} = Parts
  BY DEF Parts
<1>19. c6.table = c3.table /\ c6.heap = c3.heap /\ FieldsAre(c6, doc, Parts)
  BY <1>15, <1>16, <1>17, <1>18
<1>20. ParamsAre(c6, doc, fails) /\ RegistersAre(c6, doc, fails) /\ HeapOK(c6)
  BY <1>11, <1>13, <1>19 DEF ParamsAre, RegistersAre, HeapOK
<1>21. DOMAIN c6.table = Names /\ \A t \in Names: c6.table[t].data \in D
  BY <1>12, <1>19
<1> QED BY <1>1, <1>19, <1>20, <1>21

\* What is sent of each table.
LEMMA SentFacts ==
  ASSUME NEW doc, IsDoc(doc), NEW fails
  PROVE  LET c == Read(doc, fails) IN
         /\ \A i \in 1..Len(Order): Sent(c, Order[i]) \in Seq(Items)
         /\ \A p \in Range(Params): Sent(c, p) = NamedParam(doc, fails, p)
         /\ \A t \in Range(Tables):
              \/ NamedNodes(doc, fails, t) = {} /\ Sent(c, t) = <<>>
              \/ \E i \in NamedNodes(doc, fails, t):
                   (\A j \in NamedNodes(doc, fails, t): j <= i) /\ Sent(c, t) = Entries(doc.nodes[i])
<1> DEFINE c == Read(doc, fails)
<1>1. /\ ParamsAre(c, doc, fails) /\ RegistersAre(c, doc, fails)
      /\ \A t \in Names: c.table[t].data \in Seq(Items)
  BY ReadFacts
<1> HIDE DEF c
<1>2. ASSUME NEW i \in 1..Len(Order) PROVE Sent(c, Order[i]) \in Seq(Items)
  <2>1. Order[i] \in Names
    BY OrderFacts
  <2>2. <<>> \in Seq(Items)
    OBVIOUS
  <2> QED BY <1>1, <2>1, <2>2 DEF Sent
<1>3. ASSUME NEW p \in Range(Params) PROVE Sent(c, p) = NamedParam(doc, fails, p)
  <2>1. p \in Names /\ 0 \in Nat /\ "hal" \in {"hal", "ta"}
    BY NameFacts
  <2>2. Block("hal", p, 0) # NoBlock
    BY <2>1, BlockFacts
  <2> QED BY <1>1, <2>2 DEF Sent, ParamsAre
<1>4. ASSUME NEW t \in Range(Tables)
      PROVE  \/ NamedNodes(doc, fails, t) = {} /\ Sent(c, t) = <<>>
             \/ \E i \in NamedNodes(doc, fails, t):
                  (\A j \in NamedNodes(doc, fails, t): j <= i) /\ Sent(c, t) = Entries(doc.nodes[i])
  <2>1. CASE NamedNodes(doc, fails, t) = {} /\ c.table[t] = [data |-> <<>>, block |-> NoBlock]
    BY <2>1 DEF Sent
  <2>2. CASE \E i \in NamedNodes(doc, fails, t):
               /\ \A j \in NamedNodes(doc, fails, t): j <= i
               /\ c.table[t] = [data |-> Entries(doc.nodes[i]), block |-> Block("hal", t, i)]
    <3>1. PICK i \in NamedNodes(doc, fails, t):
               /\ \A j \in NamedNodes(doc, fails, t): j <= i
               /\ c.table[t] = [data |-> Entries(doc.nodes[i]), block |-> Block("hal", t, i)]
      BY <2>2
    <3>2. t \in Names /\ i \in Nat /\ "hal" \in {"hal", "ta"}
      BY NameFacts DEF NamedNodes
    <3>3. Block("hal", t, i) # NoBlock
      BY <3>2, BlockFacts
    <3>4. c.table[t].block = Block("hal", t, i) /\ c.table[t].data = Entries(doc.nodes[i])
      BY <3>1
    <3>5. Sent(c, t) = Entries(doc.nodes[i])
      BY <3>3, <3>4 DEF Sent
    <3> QED BY <3>1, <3>5
  <2> QED BY <1>1, <2>1, <2>2 DEF RegistersAre
<1> QED BY <1>2, <1>3, <1>4 DEF c
-----------------------------------------------------------------------------
(***************************************************************************)
(* What the TA takes.                                                      *)
(***************************************************************************)
\* A field has the bit that it is marked by for itself.
LEMMA TakenFacts ==
  ASSUME NEW doc, NEW c, FieldsAre(c, doc, Parts), NEW f \in Fields
  PROVE  Taken(Encode(c), f) <=> HasValue(doc, c, f)
<1>1. Encode(c).bits = {<<g.group, g.bit>> : g \in FieldsIn(doc, c, Parts)}
  BY DEF Encode, FieldsAre
<1>2. f \in FieldsIn(doc, c, Parts) <=> HasValue(doc, c, f)
  BY ConfigOK DEF FieldsIn
<1>3. ASSUME NEW g \in FieldsIn(doc, c, Parts), <<f.group, f.bit>> = <<g.group, g.bit>> PROVE f = g
  <2>1. g \in Fields /\ f.group = g.group /\ f.bit = g.bit
    BY <1>3 DEF FieldsIn
  <2> QED BY <2>1, ConfigOK
<1>4. Taken(Encode(c), f) <=> \E g \in FieldsIn(doc, c, Parts): <<f.group, f.bit>> = <<g.group, g.bit>>
  BY <1>1 DEF Taken
<1> QED BY <1>2, <1>3, <1>4

\* A configuration with its values changed.
LEMMA ChangedValues ==
  ASSUME NEW V, NEW W, NEW T, NEW H, NEW c \in [val : V, bits : W, table : T, heap : H], NEW u \in V
  PROVE  LET d == [c EXCEPT !.val = u] IN
         d \in [val : V, bits : W, table : T, heap : H] /\ d.val = u /\ d.table = c.table /\ d.heap = c.heap
  OBVIOUS

\* The TA's fields are those the document has, and its tables what was sent of
\* them, where there was memory.
LEMMA DecodeFacts ==
  ASSUME NEW doc, IsDoc(doc), NEW fails, NEW gone
  PROVE  LET c == Read(doc, fails)
             d == Decode(Encode(c), Blank(Default), gone)
         IN  /\ \A f \in Fields: d.val[f] = IF HasValue(doc, c, f) THEN Value(doc, c, f) ELSE 0
             /\ \A t \in Names: d.table[t].data =
                  IF Sent(c, t) = <<>> \/ Block("ta", t, 0) \in gone THEN Default.data ELSE Sent(c, t)
             /\ HeapOK(d) /\ DOMAIN d.table = Names
<1> DEFINE c == Read(doc, fails)
           upd == Encode(c)
           D == Seq(Items) \cup {Default.data}
           b0 == Blank(Default)
           b == TakeFields(upd, b0)
           lists == SentLists(upd)
           n == Len(Order)
           d == PutAll(b, lists, gone)
<1>1. FieldsAre(c, doc, Parts) /\ \A i \in 1..n: Sent(c, Order[i]) \in Seq(Items)
  BY ReadFacts, SentFacts
<1>2. upd.id = device.id /\ upd.val = c.val
  BY DEF Encode
<1>3. \A f \in Fields: Taken(upd, f) <=> HasValue(doc, c, f)
  BY <1>1, TakenFacts
<1>4. /\ Length(upd) = Len(upd.content) /\ Len(lists) = n
      /\ \A i \in 1..n: /\ lists[i].table = Order[i] /\ lists[i].data = Sent(c, Order[i])
                        /\ lists[i].block = Block("ta", Order[i], 0)
  <2> HIDE DEF c
  <2> QED BY <1>1, SentBack
<1>5. /\ n \in Nat /\ \A i, j \in 1..n: Order[i] = Order[j] => i = j
      /\ \A t \in Names: \E i \in 1..n: Order[i] = t
      /\ \A i \in 1..n: Order[i] \in Names
  BY OrderFacts
<1>6. Decode(upd, b0, gone) = d
  BY <1>2, <1>4 DEF Decode
<1> HIDE DEF c, upd
<1>7. /\ Default \in [data : D, block : {NoBlock}]
      /\ b0 \in Configs({b0.val}, {{}}, D) /\ HeapOK(b0)
      /\ (\A t \in Names: b0.table[t] = Default) /\ b0.val = [f \in Fields |-> 0]
  <2>1. Default \in [data : D, block : {NoBlock}]
    BY DEF Default
  <2> HIDE DEF D
  <2> QED BY <2>1, BlankFacts
<1> DEFINE u == [f \in Fields |-> IF Taken(upd, f) THEN upd.val[f] ELSE b0.val[f]]
<1>8. /\ b \in Configs({b0.val, u}, {{}}, D) /\ b.val = u /\ HeapOK(b)
      /\ \A t \in Names: b.table[t] = Default
  <2>1. b = [b0 EXCEPT !.val = u]
    BY DEF TakeFields
  <2>2. b0 \in Configs({b0.val, u}, {{}}, D)
    <3> HIDE DEF b0, D, u
    <3> QED BY <1>7 DEF Configs
  <2> HIDE DEF b, b0, u, D
  <2>3. u \in {b0.val, u}
    OBVIOUS
  <2>4. b \in Configs({b0.val, u}, {{}}, D) /\ b.val = u /\ b.table = b0.table /\ b.heap = b0.heap
    BY <2>1, <2>2, <2>3, ChangedValues DEF Configs
  <2> QED BY <1>7, <2>4 DEF HeapOK
<1>9. \A f \in Fields: u[f] = IF HasValue(doc, c, f) THEN Value(doc, c, f) ELSE 0
  <2> TAKE f \in Fields
  <2>1. u[f] = IF HasValue(doc, c, f) THEN c.val[f] ELSE 0
    BY <1>2, <1>3, <1>7
  <2>2. HasValue(doc, c, f) => c.val[f] = Value(doc, c, f)
    <3>1. f.section \in Parts
      BY ConfigOK
    <3> QED BY <1>1, <3>1 DEF FieldsAre, FieldsIn
  <2> QED BY <2>1, <2>2
<1> HIDE DEF b, u, b0
<1>10. \A i \in 1..Len(lists): IsList(lists[i], D)
  <2> TAKE i \in 1..Len(lists)
  <2>1. i \in 1..n /\ Order[i] \in Names /\ "ta" \in {"hal", "ta"} /\ 0 \in Nat
    BY <1>4, <1>5
  <2>2. /\ Block("ta", Order[i], 0) \in Blocks /\ Block("ta", Order[i], 0) # NoBlock
        /\ Block("ta", Order[i], 0).table = Order[i]
    BY <2>1, BlockFacts
  <2>3. lists[i].table = Order[i] /\ lists[i].data \in D /\ lists[i].block = Block("ta", Order[i], 0)
    BY <1>1, <1>4, <2>1
  <2> HIDE DEF lists, D
  <2> QED BY <2>1, <2>2, <2>3 DEF IsList
<1> HIDE DEF lists
<1>11. d \in Configs({b0.val, u}, {{}}, D) /\ Holds(d, b, n, lists, gone) /\ (HeapOK(b) => HeapOK(d)) /\ d.val = b.val
  <2> HIDE DEF D, n, d
  <2>1. Len(lists) \in Nat
    BY <1>4, <1>5
  <2>2. b \in Configs({b.val}, {{}}, D)
    BY <1>8 DEF Configs
  <2>3. d \in Configs({b.val}, {{}}, D) /\ Holds(d, b, n, lists, gone) /\ (HeapOK(b) => HeapOK(d))
    BY <1>4, <1>10, <2>1, <2>2, PutAllFacts DEF d
  <2>4. d.val \in {b.val}
    BY <2>3, ConfFacts
  <2>5. d \in Configs({b0.val, u}, {{}}, D)
    BY <1>8, <2>3 DEF Configs
  <2> QED BY <2>3, <2>4, <2>5
<1> HIDE DEF d
<1>12. \A f \in Fields: d.val[f] = IF HasValue(doc, c, f) THEN Value(doc, c, f) ELSE 0
  BY <1>8, <1>9, <1>11
<1>13. ASSUME NEW t \in Names
       PROVE  d.table[t].data = IF Sent(c, t) = <<>> \/ Block("ta", t, 0) \in gone THEN Default.data ELSE Sent(c, t)
  <2>1. PICK k \in 1..n: Order[k] = t /\ \A j \in 1..n: Order[j] = t => j = k
    BY <1>5
  <2>2. IsPut(lists[k], gone) <=> ~(Sent(c, t) = <<>> \/ Block("ta", t, 0) \in gone)
    BY <1>4, <2>1 DEF IsPut
  <2>3. CASE IsPut(lists[k], gone)
    <3>1. ~NonePut(t, n, lists, gone)
      BY <1>4, <2>1, <2>3 DEF NonePut
    <3>2. \A i: IsLast(i, t, n, lists, gone) => i = k
      BY <1>4, <2>1 DEF IsLast
    <3>3. d.table[t] = [data |-> lists[k].data, block |-> lists[k].block]
      BY <1>11, <3>1, <3>2 DEF Holds
    <3> QED BY <1>4, <2>1, <2>2, <2>3, <3>3
  <2>4. CASE ~IsPut(lists[k], gone)
    <3>1. \A i: ~IsLast(i, t, n, lists, gone)
      BY <1>4, <2>1, <2>4 DEF IsLast
    <3>2. d.table[t] = Default
      BY <1>8, <1>11, <3>1 DEF Holds
    <3> QED BY <2>2, <2>4, <3>2
  <2> QED BY <2>3, <2>4
<1>14. HeapOK(d) /\ DOMAIN d.table = Names
  <2>1. d.table \in [Names -> [data : D, block : Blocks]]
    <3> HIDE DEF D
    <3> QED BY <1>11, ConfFacts
  <2> QED BY <1>8, <1>11, <2>1
<1> QED BY <1>6, <1>12, <1>13, <1>14 DEF c, upd, b0

\* A failed allocation of one side is none of the other.
LEMMA FailuresFacts ==
  ASSUME NEW doc, IsDoc(doc), NEW hal \in HalFailures(doc), NEW gone \in Failures(SentLists(Encode(Read(doc, hal))))
  PROVE  (\A e \in hal: e.by = "hal") /\ (\A e \in gone: e.by = "ta")
<1>1. ASSUME NEW lists, NEW by, \A i \in DOMAIN lists: lists[i].block.by = by, NEW fails \in Failures(lists), NEW e \in fails
      PROVE  e.by = by
  <2>1. PICK q \in Range(lists): e = q.block
    BY <1>1 DEF Failures
  <2>2. PICK i \in DOMAIN lists: q = lists[i]
    BY <2>1 DEF Range
  <2> QED BY <1>1, <2>1, <2>2
<1>2. ASSUME NEW e \in hal PROVE e.by = "hal"
  <2> DEFINE S == [table : STRING, data : Seq(Items), block : [by : {"hal"}, table : STRING, node : Nat]]
             p == ParamLists(doc)
             r == RegisterLists(doc)
  <2>1. p \in Seq(S)
    <3>1. Params \in Seq(STRING) /\ Len(Params) \in Nat
      BY ConfigOK
    <3>2. \A i \in 1..Len(Params): Params[i] \in STRING
      BY <3>1
    <3>3. \A i \in 1..Len(Params): ReadParam(doc, Params[i]) \in Seq(Items)
      BY ReadParamType
    <3>4. \A i \in 1..Len(Params):
            [table |-> Params[i], data |-> ReadParam(doc, Params[i]), block |-> Block("hal", Params[i], 0)] \in S
      BY <3>2, <3>3 DEF Block
    <3> HIDE DEF S
    <3> QED BY <3>1, <3>4 DEF ParamLists
  <2>2. r \in Seq(S)
    <3>1. Len(doc.nodes) \in Nat /\ \A i \in 1..Len(doc.nodes): doc.nodes[i].table \in STRING
      BY NodesFacts
    <3>2. \A i \in 1..Len(doc.nodes): doc.nodes[i].regs \in Seq(Registers \cup {"bad"})
      BY NodesFacts
    <3>3. \A i \in 1..Len(doc.nodes): Entries(doc.nodes[i]) \in Seq(Items)
      <4>1. \A i \in 1..Len(doc.nodes): Entries(doc.nodes[i]) \in Seq(Registers)
        BY <3>2, EntriesType
      <4>2. \A s \in Seq(Registers): s \in Seq(Items)
        BY DEF Items
      <4> QED BY <4>1, <4>2
    <3>4. \A i \in 1..Len(doc.nodes): r[i] \in S
      <4> TAKE i \in 1..Len(doc.nodes)
      <4> DEFINE a == IF doc.nodes[i].table \in Range(Tables) THEN Entries(doc.nodes[i]) ELSE <<>>
                 t == doc.nodes[i].table
      <4>1. t \in STRING /\ a \in Seq(Items) /\ i \in Nat
        BY <3>1, <3>3
      <4>2. r[i] = [table |-> t, data |-> a, block |-> Block("hal", t, i)]
        BY DEF RegisterLists
      <4> HIDE DEF a, t, r
      <4> QED BY <4>1, <4>2 DEF Block
    <3>5. r = [i \in 1..Len(doc.nodes) |-> r[i]]
      BY DEF RegisterLists
    <3> HIDE DEF S, r
    <3> QED BY <3>1, <3>4, <3>5
  <2> HIDE DEF p, r
  <2>3. \A i \in DOMAIN (p \o r): (p \o r)[i] \in S
    <3> HIDE DEF S
    <3>1. p \o r \in Seq(S)
      BY <2>1, <2>2, ConcatProperties
    <3> QED BY <3>1
  <2>4. \A i \in DOMAIN (p \o r): (p \o r)[i].block.by = "hal"
    <3>1. \A x \in S: x.block.by = "hal"
      OBVIOUS
    <3> HIDE DEF S
    <3> QED BY <2>3, <3>1
  <2>5. hal \in Failures(p \o r)
    BY DEF HalFailures, p, r
  <2> QED BY <1>1, <1>2, <2>4, <2>5
<1>3. ASSUME NEW e \in gone PROVE e.by = "ta"
  <2> DEFINE lists == SentLists(Encode(Read(doc, hal)))
  <2>1. DOMAIN lists = 1..Len(Order) /\ \A i \in 1..Len(Order): lists[i].block = Block("ta", Order[i], 0)
    BY DEF SentLists
  <2> HIDE DEF lists
  <2>2. \A i \in DOMAIN lists: lists[i].block.by = "ta"
    <3>1. \A t, i: Block("ta", t, i).by = "ta"
      BY DEF Block
    <3> QED BY <2>1, <3>1
  <2>3. gone \in Failures(lists)
    BY DEF lists
  <2> QED BY <1>1, <1>3, <2>2, <2>3
<1> QED BY <1>2, <1>3

\* A document that is found is one, and fits this device.
LEMMA FoundIsDoc ==
  \A doc \in Found: IsDoc(doc) /\ doc # None /\ doc.versions \in Seq(Seq(Nat)) /\ CheckDevVer(doc)
<1> SUFFICES ASSUME NEW doc \in Found
             PROVE  IsDoc(doc) /\ doc # None /\ doc.versions \in Seq(Seq(Nat)) /\ CheckDevVer(doc)
  OBVIOUS
<1>1. PICK d \in DOMAIN Documents: doc \in Documents[d] /\ CheckDevVer(doc)
  BY DEF Found, Matching
<1>2. DOMAIN doc = {"versions", "mask", "text", "nodes", "params"} /\ doc.versions \in Seq(Seq(Nat)) /\ IsDoc(doc)
  BY <1>1, DocumentsOK DEF IsDoc
<1>3. DOMAIN <<>> = {}
  OBVIOUS
<1>4. doc # None
  BY <1>2, <1>3 DEF None
<1> QED BY <1>1, <1>2, <1>4

\* What the document says does not depend on what the TA could not allocate.
LEMMA NamedFacts ==
  ASSUME NEW doc, NEW hal, NEW gone, \A e \in gone: e.by = "ta"
  PROVE  /\ \A p: NamedParam(doc, hal \cup gone, p) = NamedParam(doc, hal, p)
         /\ \A t: NamedNodes(doc, hal \cup gone, t) = NamedNodes(doc, hal, t)
<1>1. \A t, i: Block("hal", t, i) \in hal \cup gone <=> Block("hal", t, i) \in hal
  <2>1. \A t, i: Block("hal", t, i).by # "ta"
    BY DEF Block
  <2> QED BY <2>1
<1>2. \A p: NamedParam(doc, hal \cup gone, p) = NamedParam(doc, hal, p)
  BY <1>1 DEF NamedParam
<1>3. \A t: NamedNodes(doc, hal \cup gone, t) = NamedNodes(doc, hal, t)
  BY <1>1 DEF NamedNodes
<1> QED BY <1>2, <1>3

\* What is read is what the document says.
LEMMA ValuesAreNamed ==
  ASSUME NEW doc, IsDoc(doc), NEW fails, NEW f \in Fields
  PROVE  LET c == Read(doc, fails) IN
         NamedValue(doc, fails, f) = IF HasValue(doc, c, f) THEN Value(doc, c, f) ELSE 0
<1> DEFINE c == Read(doc, fails)
           navi == NamedParam(doc, fails, "navi")
<1>1. "navi" \in Range(Params) /\ "navi" \in Names /\ NavTypeAt \in Nat \ {0}
  BY NameFacts, ConfigOK
<1>2. c.table["navi"].data = navi /\ c.table["navi"].block = IF navi = <<>> THEN NoBlock ELSE Block("hal", "navi", 0)
  BY <1>1, ReadFacts DEF ParamsAre
<1>3. Block("hal", "navi", 0) # NoBlock
  BY <1>1, BlockFacts
<1> HIDE DEF c, navi
<1>4. CASE f.conv # "navtype"
  BY <1>4 DEF NamedValue, HasValue, Value
<1>5. CASE f.conv = "navtype"
  <2>1. HasValue(doc, c, f) <=> navi # <<>> /\ Len(navi) >= NavTypeAt
    BY <1>2, <1>3, <1>5 DEF HasValue
  <2>2. Value(doc, c, f) = navi[NavTypeAt] % 2^8
    BY <1>2, <1>5 DEF Value
  <2>3. Len(navi) >= NavTypeAt => navi # <<>>
    <3>1. Len(<<>>) = 0
      OBVIOUS
    <3> QED BY <1>1, <3>1
  <2>4. NamedValue(doc, fails, f) = IF Len(navi) >= NavTypeAt THEN navi[NavTypeAt] % 2^8 ELSE 0
    BY <1>5 DEF NamedValue, navi
  <2> QED BY <2>1, <2>2, <2>3, <2>4 DEF c
<1> QED BY <1>4, <1>5 DEF c

\* So are the lists.
LEMMA ListsAreNamed ==
  ASSUME NEW doc, IsDoc(doc), NEW fails, NEW t \in Names
  PROVE  NamedList(doc, fails, t) = Sent(Read(doc, fails), t)
<1> DEFINE c == Read(doc, fails)
<1>1. CASE t \in Range(Params)
  BY <1>1, SentFacts DEF NamedList
<1>2. CASE t \notin Range(Params)
  <2> DEFINE nodes == NamedNodes(doc, fails, t)
  <2>1. t \in Range(Tables)
    BY <1>2, NameFacts
  <2>2. \/ nodes = {} /\ Sent(c, t) = <<>>
        \/ \E i \in nodes: (\A j \in nodes: j <= i) /\ Sent(c, t) = Entries(doc.nodes[i])
    BY <2>1, SentFacts
  <2>3. NamedList(doc, fails, t) = IF nodes = {} THEN <<>> ELSE Entries(doc.nodes[Max(nodes)])
    BY <1>2 DEF NamedList
  <2>4. \A i \in nodes: i \in Int
    BY DEF NamedNodes
  <2> HIDE DEF nodes, c
  <2>5. CASE nodes = {} /\ Sent(c, t) = <<>>
    BY <2>3, <2>5 DEF c
  <2>6. CASE \E i \in nodes: (\A j \in nodes: j <= i) /\ Sent(c, t) = Entries(doc.nodes[i])
    <3>1. PICK i \in nodes: (\A j \in nodes: j <= i) /\ Sent(c, t) = Entries(doc.nodes[i])
      BY <2>6
    <3>2. \A j \in nodes: j \in Int /\ i >= j
      BY <2>4, <3>1
    <3>3. Max(nodes) \in nodes /\ \A j \in nodes: Max(nodes) >= j
      BY <3>2 DEF Max
    <3>4. Max(nodes) = i
      <4> DEFINE m == Max(nodes)
      <4>1. m \in Int /\ i \in Int /\ m >= i /\ i >= m
        BY <3>2, <3>3
      <4> HIDE DEF m
      <4>2. m = i
        BY <4>1
      <4> QED BY <4>2 DEF m
    <3> QED BY <2>3, <3>1, <3>4 DEF c
  <2> QED BY <2>2, <2>5, <2>6
<1> QED BY <1>1, <1>2

\* The configuration and the blocks are right after every start of the TA.
ConfOK == TakesDocument /\ BlocksReleased

\* A start of the TA makes it right.
LEMMA UpdateStep == ConfOK /\ FpUpdateCfg => ConfOK'
<1> SUFFICES ASSUME ConfOK, FpUpdateCfg PROVE ConfOK'
  OBVIOUS
<1>1. CASE conf' = Blank(Default) /\ source' = Unused /\ UNCHANGED leaked
  <2>1. TakesDocument'
    BY <1>1 DEF TakesDocument, Unused
  <2>2. HeapOK(Blank(Default)) /\ DOMAIN Blank(Default).table = Names
    <3>1. Default \in [data : {Default.data}, block : {NoBlock}]
      BY DEF Default
    <3>2. HeapOK(Blank(Default))
      BY <3>1, BlankFacts
    <3> QED BY <3>2 DEF Blank, Names
  <2>3. BlocksReleased'
    BY <1>1, <2>2 DEF ConfOK, BlocksReleased, HeapOK
  <2> QED BY <2>1, <2>3 DEF ConfOK
<1>2. CASE \E doc \in Found: \E hal \in HalFailures(doc): \E gone \in Failures(SentLists(Encode(Read(doc, hal)))):
             /\ conf'   = Decode(Encode(Read(doc, hal)), Blank(Default), gone)
             /\ source' = [doc |-> doc, fails |-> hal \cup gone]
             /\ leaked' = leaked \cup Released(Read(doc, hal))
  <2>1. PICK doc \in Found: \E hal \in HalFailures(doc): \E gone \in Failures(SentLists(Encode(Read(doc, hal)))):
             /\ conf'   = Decode(Encode(Read(doc, hal)), Blank(Default), gone)
             /\ source' = [doc |-> doc, fails |-> hal \cup gone]
             /\ leaked' = leaked \cup Released(Read(doc, hal))
    BY <1>2
  <2>2. PICK hal \in HalFailures(doc): \E gone \in Failures(SentLists(Encode(Read(doc, hal)))):
             /\ conf'   = Decode(Encode(Read(doc, hal)), Blank(Default), gone)
             /\ source' = [doc |-> doc, fails |-> hal \cup gone]
             /\ leaked' = leaked \cup Released(Read(doc, hal))
    BY <2>1
  <2>3. PICK gone \in Failures(SentLists(Encode(Read(doc, hal)))):
             /\ conf'   = Decode(Encode(Read(doc, hal)), Blank(Default), gone)
             /\ source' = [doc |-> doc, fails |-> hal \cup gone]
             /\ leaked' = leaked \cup Released(Read(doc, hal))
    BY <2>2
  <2> DEFINE c == Read(doc, hal)
             d == Decode(Encode(c), Blank(Default), gone)
  <2>4. IsDoc(doc) /\ doc # None
    BY FoundIsDoc
  <2>5. (\A e \in hal: e.by = "hal") /\ (\A e \in gone: e.by = "ta")
    BY <2>4, FailuresFacts
  <2>6. /\ \A f \in Fields: d.val[f] = IF HasValue(doc, c, f) THEN Value(doc, c, f) ELSE 0
        /\ \A t \in Names: d.table[t].data =
             IF Sent(c, t) = <<>> \/ Block("ta", t, 0) \in gone THEN Default.data ELSE Sent(c, t)
        /\ HeapOK(d) /\ DOMAIN d.table = Names
    BY <2>4, DecodeFacts
  <2>7. HeapOK(c) /\ DOMAIN c.table = Names
    BY <2>4, ReadFacts
  <2> HIDE DEF c, d
  <2>8. source'.doc = doc /\ source'.fails = hal \cup gone /\ conf' = d /\ leaked' = leaked \cup Released(c)
    BY <2>3 DEF c, d
  <2>9. /\ \A p: NamedParam(doc, hal \cup gone, p) = NamedParam(doc, hal, p)
        /\ \A t: NamedNodes(doc, hal \cup gone, t) = NamedNodes(doc, hal, t)
    BY <2>5, NamedFacts
  <2>10. ASSUME NEW f \in Fields PROVE d.val[f] = NamedValue(doc, hal \cup gone, f)
    <3>1. NamedValue(doc, hal \cup gone, f) = NamedValue(doc, hal, f)
      <4>1. NamedParam(doc, hal \cup gone, "navi") = NamedParam(doc, hal, "navi")
        BY <2>9
      <4> QED BY <4>1 DEF NamedValue
    <3>2. NamedValue(doc, hal, f) = IF HasValue(doc, c, f) THEN Value(doc, c, f) ELSE 0
      BY <2>4, ValuesAreNamed DEF c
    <3> QED BY <2>6, <3>1, <3>2
  <2>11. ASSUME NEW t \in Names
        PROVE  d.table[t].data = IF NamedList(doc, hal \cup gone, t) = <<>> \/ Block("ta", t, 0) \in hal \cup gone
                                 THEN Default.data ELSE NamedList(doc, hal \cup gone, t)
    <3>1. NamedList(doc, hal \cup gone, t) = NamedList(doc, hal, t)
      <4>1. /\ NamedParam(doc, hal \cup gone, t) = NamedParam(doc, hal, t)
            /\ NamedNodes(doc, hal \cup gone, t) = NamedNodes(doc, hal, t)
        BY <2>9
      <4> QED BY <4>1 DEF NamedList
    <3>2. NamedList(doc, hal, t) = Sent(c, t)
      BY <2>4, ListsAreNamed DEF c
    <3>3. Block("ta", t, 0) \in hal \cup gone <=> Block("ta", t, 0) \in gone
      <4>1. Block("ta", t, 0).by # "hal"
        BY DEF Block
      <4> QED BY <2>5, <4>1
    <3> QED BY <2>6, <3>1, <3>2, <3>3
  <2>12. TakesDocument'
    <3>1. Range(Order) = Names
      BY OrderFacts
    <3>2. /\ \A f \in Fields: conf'.val[f] = NamedValue(source'.doc, source'.fails, f)
          /\ \A t \in Range(Order):
               conf'.table[t].data = IF NamedList(source'.doc, source'.fails, t) = <<>> \/ Block("ta", t, 0) \in source'.fails
                                     THEN Default.data ELSE NamedList(source'.doc, source'.fails, t)
      BY <2>8, <2>10, <2>11, <3>1
    <3> QED BY <2>4, <2>8, <3>2 DEF TakesDocument
  <2>13. BlocksReleased'
    <3>1. Released(c) = {}
      BY <2>7 DEF Released, HeapOK
    <3> QED BY <2>6, <2>8, <3>1 DEF ConfOK, BlocksReleased, HeapOK
  <2> QED BY <2>12, <2>13 DEF ConfOK
<1> QED BY <1>1, <1>2 DEF FpUpdateCfg

\* Nothing else touches the configuration.
LEMMA ConfStep == ConfOK /\ [Next]_vars => ConfOK'
<1>1. CASE FpUpdateCfg
  BY <1>1, UpdateStep
<1>2. ASSUME UNCHANGED configVars PROVE ConfOK => ConfOK'
  BY <1>2 DEF configVars, ConfOK, TakesDocument, BlocksReleased
<1>3. [Next]_vars => FpUpdateCfg \/ UNCHANGED configVars
  BY DEF Next, Open, Measure, Adapt, Load, TaKeeps, TaMeasures, TaAdapts, TaRepeats, Save, Remove4,
         Remove5, End, vars
<1> QED BY <1>1, <1>2, <1>3

\* The TA that has not started has its built-in configuration.
LEMMA ConfInit == Init => ConfOK
<1> SUFFICES ASSUME Init PROVE ConfOK
  OBVIOUS
<1>1. conf = Blank(Default) /\ source = Unused /\ leaked = {}
  BY DEF Init, ConfigInit
<1>2. TakesDocument
  BY <1>1 DEF TakesDocument, Unused
<1>3. Default \in [data : {Default.data}, block : {NoBlock}]
  BY DEF Default
<1>4. HeapOK(Blank(Default)) /\ DOMAIN Blank(Default).table = Names
  BY <1>3, BlankFacts DEF Blank, Names
<1>5. BlocksReleased
  BY <1>1, <1>4 DEF BlocksReleased, HeapOK
<1> QED BY <1>2, <1>5 DEF ConfOK

\* What the TA works with is its built-in configuration with what the document
\* says in the place of each field and list that it names, for any document,
\* any fields and tables, and whatever allocation failed on either side: what
\* the HAL read and laid out in the buffer is what the TA finds there.
THEOREM DocumentIsTaken == Spec => []TakesDocument
<1>1. ConfOK => TakesDocument
  BY DEF ConfOK
<1> QED BY <1>1, ConfInit, ConfStep, PTL DEF Spec

\* The HAL frees every block of a configuration it read, and the heap of the TA
\* holds the blocks of its tables and nothing else.
THEOREM BlocksAreReleased == Spec => []BlocksReleased
<1>1. ConfOK => BlocksReleased
  BY DEF ConfOK
<1> QED BY <1>1, ConfInit, ConfStep, PTL DEF Spec
-----------------------------------------------------------------------------
\* The document the configuration was taken from was compared with this device.
SourceOK ==
  source.doc # None => source.doc.versions \in Seq(Seq(Nat)) /\ CheckDevVer(source.doc)

\* A part that an entry has is compared as it stands there, and one that no
\* entry up to it has as zero.
LEMMA OwnIds ==
  ASSUME NEW doc, doc.versions \in Seq(Seq(Nat)), NEW i \in DOMAIN doc.versions, NEW k \in 1..3
  PROVE  \/ Ids(doc)[i][k] = IF k <= Len(doc.versions[i]) THEN doc.versions[i][k] ELSE 0
         \/ \E j \in DOMAIN doc.versions: j < i /\ Len(doc.versions[j]) > Len(doc.versions[i])
<1> DEFINE v == doc.versions
           having == {j \in 1..i : k <= Len(v[j])}
<1>1. /\ DOMAIN v = 1..Len(v) /\ Len(v) \in Nat /\ i \in Nat /\ i \in 1..i
      /\ \A j \in 1..Len(v): Len(v[j]) \in Nat
  OBVIOUS
<1>2. Ids(doc)[i][k] = IF having = {} THEN 0 ELSE v[Max(having)][k]
  BY DEF Ids
<1>3. CASE k <= Len(v[i])
  <2>1. i \in having /\ \A j \in having: j \in Int /\ i >= j
    BY <1>1, <1>3
  <2>2. Max(having) \in having /\ \A j \in having: Max(having) >= j
    BY <2>1 DEF Max
  <2>3. Max(having) = i
    <3> HIDE DEF having
    <3>1. Max(having) \in Int /\ i >= Max(having) /\ Max(having) >= i /\ i \in Int
      BY <1>1, <2>1, <2>2
    <3> QED BY <3>1
  <2> QED BY <1>2, <1>3, <2>1, <2>3
<1>4. CASE ~ k <= Len(v[i]) /\ having = {}
  BY <1>2, <1>4
<1>5. CASE ~ k <= Len(v[i]) /\ having # {}
  <2>1. PICK j \in 1..i: k <= Len(v[j])
    BY <1>5
  <2>2. j # i /\ j \in DOMAIN v /\ j < i
    BY <1>1, <1>5, <2>1
  <2>3. Len(v[j]) \in Nat /\ Len(v[i]) \in Nat /\ k \in Nat /\ Len(v[j]) > Len(v[i])
    <3>1. ASSUME NEW a \in Nat, NEW b \in Nat, NEW c \in 1..3, c <= a, ~ c <= b PROVE a > b /\ c \in Nat
      BY <3>1
    <3>2. Len(v[j]) \in Nat /\ Len(v[i]) \in Nat
      BY <1>1, <2>2
    <3> QED BY <1>5, <2>1, <3>1, <3>2
  <2> QED BY <2>2, <2>3
<1> QED BY <1>3, <1>4, <1>5

\* The document stays that of the last start of the TA, and the device never changes.
LEMMA SourceStep == SourceOK /\ [Next]_vars => SourceOK'
<1> SUFFICES ASSUME SourceOK, [Next]_vars PROVE SourceOK'
  OBVIOUS
<1>1. CASE UNCHANGED <<device, source>>
  BY <1>1 DEF SourceOK, CheckDevVer
<1>2. CASE FpUpdateCfg
  <2>1. device' = device
    BY <1>2 DEF FpUpdateCfg
  <2>2. CASE source' = Unused
    BY <2>2 DEF SourceOK, Unused
  <2>3. CASE \E doc \in Found: source'.doc = doc
    BY <2>1, <2>3, FoundIsDoc DEF SourceOK, CheckDevVer
  <2>4. source' = Unused \/ \E doc \in Found: source'.doc = doc
    BY <1>2 DEF FpUpdateCfg
  <2> QED BY <2>2, <2>3, <2>4
<1> QED BY <1>1, <1>2
     DEF Next, Open, Measure, Adapt, Load, TaKeeps, TaMeasures, TaAdapts, TaRepeats, Save, Remove4,
         Remove5, End, vars, configVars

\* The TA works with its built-in configuration or with one for this very
\* device, whatever documents there are, unless an entry that is too short
\* follows one that is longer or the mask takes a part out.
THEOREM ConfigurationIsOwn == Spec => []OwnConfiguration
<1>1. Init => SourceOK
  BY DEF Init, ConfigInit, SourceOK, Unused
<1>2. SourceOK => OwnConfiguration
  <2> SUFFICES ASSUME SourceOK, source.doc # None PROVE OwnConfiguration
    BY DEF OwnConfiguration
  <2> DEFINE doc == source.doc
  <2>1. doc.versions \in Seq(Seq(Nat)) /\ CheckDevVer(doc)
    BY DEF SourceOK
  <2>2. PICK i \in DOMAIN doc.versions: \A k \in 1..3: Mask(doc)[k] => device.id[k] = Ids(doc)[i][k]
    BY <2>1 DEF CheckDevVer
  <2>3. CASE \E j \in DOMAIN doc.versions: j < i /\ Len(doc.versions[j]) > Len(doc.versions[i])
    BY <2>3 DEF OwnConfiguration
  <2>4. CASE \A k \in 1..3:
               Ids(doc)[i][k] = IF k <= Len(doc.versions[i]) THEN doc.versions[i][k] ELSE 0
    BY <2>2, <2>4 DEF OwnConfiguration
  <2> HIDE DEF doc
  <2> QED BY <2>1, <2>3, <2>4, OwnIds
<1> QED BY <1>1, <1>2, SourceStep, PTL DEF Spec
=============================================================================
