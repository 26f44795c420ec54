----------------------------- MODULE MCTestImage -----------------------------
EXTENDS TestImage

\* Images with rows that need padding; or images too large for a frame: as an
\* answer, which ends the connection, and as a command, which is refused.
MCGeometries ==
  {[w |-> 3, h |-> 2, wo |-> 0, ho |-> 0, size |-> 6],
   [w |-> 6, h |-> 3, wo |-> 0, ho |-> 0, size |-> 18]}
=============================================================================
