----------------------------- MODULE MCService -----------------------------
(***************************************************************************)
(* Two texts.  What is asked of the service is bounded by its load, so     *)
(* that two runs with a stream, a run that spends with requests about it,  *)
(* and a process that dies while it starts are explored beside each other  *)
(* and not multiplied.                                                     *)
(***************************************************************************)
EXTENDS Service

CONSTANTS r1, r2, c1, d1

MCPackaged == <<"history", "science">>

Load(runs, streams, readers, charges, dies, starting) ==
  [runs |-> runs, streams |-> streams, readers |-> readers, charges |-> charges,
   deaths |-> dies, starting |-> starting]

MCLoads ==
  { Load({r1, r2}, {c1}, {}, 0, 1, FALSE), Load({r1}, {}, {d1}, 2, 2, FALSE),
    Load({r1}, {}, {}, 0, 3, TRUE) }
=============================================================================
