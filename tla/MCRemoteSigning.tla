-------------------------- MODULE MCRemoteSigning --------------------------
(***************************************************************************)
(* An instance of RemoteSigning for TLC.                                   *)
(***************************************************************************)
EXTENDS RemoteSigning

CONSTANTS a, b

MCBundle == << <<a, b>>, <<a, a>> >>
=============================================================================
