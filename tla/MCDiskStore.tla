----------------------------- MODULE MCDiskStore ----------------------------
(* TLC instance of DiskStore.                                              *)
EXTENDS DiskStore, TLC
=============================================================================
