------------------------------ MODULE Mailbox ------------------------------
(***************************************************************************)
(* What the hand-over of requests to the worker promises: one request      *)
(* stands, and the worker serves it or nothing.  Several threads, a flag,  *)
(* a pipe and a condition implement this in FingerWorker.                  *)
(***************************************************************************)
VARIABLES
  request,  \* the request that stands
  serving   \* the one the worker works on, or "NONE"

Final    == {"EXIT", "BREAK"}
Resting  == {"IDLE", "WAIT"}
Commands == {"ENROLL", "SCAN", "NAV", "TEST", "EXT_CB", "LOCK"}

Init == request = "IDLE" /\ serving = "NONE"

\* A client replaces the request, and what is being done ends with it.  After
\* the last request nothing more is accepted.
Ask ==
  /\ request' \in IF request \in Final THEN {request} ELSE Final \cup Resting \cup Commands
  /\ serving' = "NONE"

\* The worker takes up what stands.
Take ==
  /\ serving = "NONE" /\ request \in Commands
  /\ serving' = request
  /\ UNCHANGED request

\* The worker gives up what it does.  It leaves the request standing or goes
\* to rest, which withdraws whatever stands by then.
GiveUp ==
  /\ serving' = "NONE"
  /\ request' \in {request} \cup Resting

\* Left alone, it navigates.
Navigate ==
  /\ request = "IDLE" /\ serving = "NONE"
  /\ request' = "NAV"
  /\ UNCHANGED serving

Next == Ask \/ Take \/ GiveUp \/ Navigate

Spec == Init /\ [][Next]_<<request, serving>>
=============================================================================
