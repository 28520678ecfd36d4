------------------------ MODULE MCWebRtcConnection ------------------------
(* Instances of WebRtcConnection for TLC. *)
EXTENDS WebRtcConnection
=============================================================================
