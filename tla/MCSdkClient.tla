---------------------------- MODULE MCSdkClient ----------------------------
(* A small instance of SdkClient: the queue overflows, a batch holds two    *)
(* events, and each batch is tried twice.                                   *)
EXTENDS SdkClient
=============================================================================
