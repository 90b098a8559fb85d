------------------------------ MODULE MCIoctl ------------------------------
(* An instance of Ioctl for TLC. *)
EXTENDS Ioctl
=============================================================================
