---------------------------- MODULE MCStreaming ----------------------------
(* The files of the streaming runs: what may be read at once, and what an     *)
(* earlier reader has left in the cache.                                      *)
EXTENDS Streaming

MCReads == {{1, 2}, {5}}

Left(header, first, second, third) ==
    [header |-> header, first |-> first,
     slice |-> [i \in 0 .. 2 |-> IF i = 1 THEN second ELSE IF i = 2 THEN third ELSE {}]]
MCCaches == {Left({}, {}, {}, {}), Left({0}, {1}, {3}, {})}
=============================================================================
