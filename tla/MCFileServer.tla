---------------------------- MODULE MCFileServer -----------------------------
(* Instances of FileServer for TLC.                                          *)
EXTENDS FileServer

CONSTANTS c1, c2

\* Every connection has an address of its own.
OwnAddr == [c \in Conns |-> c]

\* All clients run on the server's machine or reach it through one gateway.
OneAddr == [c \in Conns |-> c1]
==============================================================================
