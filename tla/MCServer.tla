------------------------------ MODULE MCServer ------------------------------
(* Server for TLC.  Any free game thread is started, so game threads are     *)
(* interchangeable; slots, descriptors and client threads are taken lowest   *)
(* first and are not.                                                        *)
EXTENDS Server, TLC

Interchangeable == Permutations(Game)
=============================================================================
