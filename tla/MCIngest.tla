------------------------------ MODULE MCIngest ------------------------------
(***************************************************************************)
(* Bounds for checking Ingest: the channels keep their FIFO order and their *)
(* back-pressure at any Capacity, and two APIs suffice for a key collision *)
(* and for an object that is asked for at the wrong URL.                   *)
(***************************************************************************)
EXTENDS Ingest

CONSTANTS pods, ingresses, nads, nodes, bare, n, m
=============================================================================
