------------------- MODULE MCSequenceNumberTranslator -------------------
(* Instances of SequenceNumberTranslator for TLC. *)
EXTENDS SequenceNumberTranslator
=============================================================================
