----------------------------- MODULE MCLifetime -----------------------------
(***************************************************************************)
(* The events of several systems on one EventQueue, checked together with  *)
(* what the queue promises its clients.                                    *)
(***************************************************************************)
EXTENDS SystemLifetime, EventQueueRefinement
=============================================================================
