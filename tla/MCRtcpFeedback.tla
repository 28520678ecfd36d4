--------------------------- MODULE MCRtcpFeedback ---------------------------
(* Instances of RtcpFeedbackGenerationHandler for TLC. *)
EXTENDS RtcpFeedbackGenerationHandler
=============================================================================
