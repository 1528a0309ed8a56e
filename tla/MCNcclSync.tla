----------------------------- MODULE MCNcclSync -----------------------------
(* A small instance of NcclSync. *)
EXTENDS NcclSync

Calling(call, root, sync) == [call |-> call, root |-> root, sync |-> sync]

(* A root that reduces and broadcasts, as test_collective_reduce and         *)
(* test_collective_broadcast of comms/detail/test.hpp do, before a barrier.  *)
RootFirst == <<Calling("reduce", 0, FALSE), Calling("barrier", 0, TRUE),
               Calling("sendrecv", 0, FALSE), Calling("bcast", 1, TRUE)>>
=============================================================================
