------------------------------ MODULE MCStreaming ------------------------------
(* Streaming on three nodes: R2T with two Data, SDATP with three. *)
EXTENDS Streaming

LastIds == [r2t |-> 1, sdatp |-> 2]
=============================================================================
