------------------------------- MODULE MCPipe -------------------------------
(* Model checking of Pipe: one reader, two writers that share the write    *)
(* end, and a pipe of two bytes that the longest write overfills.          *)
EXTENDS Pipe

CONSTANTS r1, w1, w2

MCReaders == {r1}
MCWriters == {w1, w2}
=============================================================================
