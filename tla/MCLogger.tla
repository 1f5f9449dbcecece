------------------------------ MODULE MCLogger ------------------------------
(* Logger with one open file that every thread reads from.                 *)
EXTENDS Logger

CONSTANT file

MCReaderOf == [t \in Threads |-> file]
=============================================================================
