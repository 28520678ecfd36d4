-------------------------- MODULE MCDtlsTransport --------------------------
(* Instances of DtlsTransport for TLC. *)
EXTENDS DtlsTransport
=============================================================================
