----------------------------- MODULE MCTestCmd -----------------------------
EXTENDS TestCmd

Packet(id, len, magic) == [id |-> id, len |-> len, magic |-> magic]

\* A packet too short for an id, one without data, and one with the mark for
\* each way a command can go: ends, loops, reads an argument that is missing
\* or there, waits for the next.
MCRequests ==
  {Packet("info", -1, FALSE), Packet("info", 0, FALSE), Packet("info", 4, TRUE),
   Packet("capture", 4, TRUE), Packet("step", 4, TRUE), Packet("step", 5, TRUE),
   Packet("frrfar", 9, TRUE)}
=============================================================================
