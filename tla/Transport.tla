----------------------------- MODULE Transport -----------------------------
(***************************************************************************)
(* What a Transport promises the connection that owns it (Transport.h):    *)
(* its state only moves forward.  A transport need not gather before it is *)
(* ready, may fail at any time before it is closed, and is never revived.  *)
(* WebRtcConnection relies on nothing else; DtlsTransport implements it.   *)
(***************************************************************************)
VARIABLE state    \* state_

\* The states that may follow s.  TRANSPORT_STARTED is announced only for
\* IceState INITIAL, which IceConnection::updateIceState never passes on, so
\* it does not occur.
After(s) ==
    CASE s = "INITIAL"  -> {"GATHERED", "READY", "FAILED", "FINISHED"}
      [] s = "GATHERED" -> {"READY", "FAILED", "FINISHED"}
      [] s = "READY"    -> {"FAILED", "FINISHED"}
      [] s = "FAILED"   -> {"FINISHED"}
      [] OTHER          -> {}

TransportSpec == state = "INITIAL" /\ [][state' \in After(state)]_state
=============================================================================
