---------------------------- MODULE AdapterInit ----------------------------
(***************************************************************************)
(* How a device gets its context and its IddCx adapter, and what it says   *)
(* of the adapter.                                                         *)
(*                                                                         *)
(* The device comes and goes with its node (DeviceNode), its context with  *)
(* it; one device at a time, as the driver assumes.                        *)
(*                                                                         *)
(* D0Entry runs after every power transition and calls InitAdapter, which  *)
(* asks for an adapter with the optional FP16 capability first and without *)
(* it when IddCx refuses.  m_Lock is taken at its beginning and end only.  *)
(* What InitAdapter asked for, what it got, and what GET_STATUS and PLUG   *)
(* read in m_CapFlags, are three things.                                   *)
(*                                                                         *)
(* IddCx finishes an adapter once, after the call that created it returned *)
(* and its context was attached; the driver relies on that as well.        *)
(***************************************************************************)
EXTENDS Naturals, Sequences

CONSTANTS
  MaxAdds,    \* bound: devices added, one after the other
  MaxSleeps   \* bound: power transitions

VARIABLES
  context,    \* g_DeviceContext points to a context
  adds,       \* devices so far
  started,    \* m_AdapterInitStarted
  init,       \* where InitAdapter is
  flags,      \* AdapterCaps.Flags has CAN_PROCESS_FP16
  adapters,   \* the adapters IddCx has created: whether each declared FP16
  hdrReady,   \* m_CapFlags has HDR10_READY
  state,      \* m_AdapterState; m_AdapterReady is state = "ready"
  sleeps      \* power transitions so far

deviceVars == <<context, adds>>
initVars == <<started, init, flags, adapters, hdrReady, state, sleeps>>
adapterVars == <<deviceVars, initVars>>

ASSUME AdapterAssumption == MaxAdds \in Nat /\ MaxSleeps \in Nat

AdapterTypeOK ==
  /\ context \in BOOLEAN /\ adds \in 0 .. MaxAdds
  /\ started \in BOOLEAN /\ flags \in BOOLEAN /\ hdrReady \in BOOLEAN
  /\ init \in {"off", "caps", "attempt", "accepted", "refused", "on"}
  /\ adapters \in Seq(BOOLEAN)
  /\ state \in {"starting", "ready", "failed"}
  /\ sleeps \in 0 .. MaxSleeps

AdapterStart ==
  /\ context = FALSE /\ adds = 0
  /\ started = FALSE /\ init = "off"
  /\ flags = FALSE /\ hdrReady = FALSE
  /\ adapters = <<>>
  /\ state = "starting"
  /\ sleeps = 0

-----------------------------------------------------------------------------

\* DeviceAdd succeeds: a new context, with every field as declared.
DeviceAdd ==
  /\ ~context
  /\ adds < MaxAdds
  /\ context' = TRUE /\ adds' = adds + 1
  /\ started' = FALSE /\ flags' = FALSE /\ hdrReady' = FALSE
  /\ state' = "starting"
  /\ UNCHANGED <<init, adapters, sleeps>>

\* The device is removed, from D0 or from a lower state: its cleanup deletes the
\* context, and IddCx the adapter.
DeviceCleanup ==
  /\ context
  /\ init \in {"on", "off"}
  /\ context' = FALSE
  /\ init' = "off" /\ adapters' = <<>>
  /\ UNCHANGED <<adds, started, flags, hdrReady, state, sleeps>>

\* D0Entry: the adapter is initialised at the first one, "a resume from S3/S4
\* would call IddCxAdapterInitAsync a second time".
D0Entry ==
  /\ context /\ init = "off"
  /\ init' = IF started THEN "on" ELSE "caps"
  /\ started' = TRUE
  /\ UNCHANGED <<deviceVars, flags, adapters, hdrReady, state, sleeps>>

\* The device leaves D0, whatever has become of the adapter; external.
D0Exit ==
  /\ init = "on"
  /\ sleeps < MaxSleeps
  /\ sleeps' = sleeps + 1
  /\ init' = "off"
  /\ UNCHANGED <<deviceVars, started, flags, adapters, hdrReady, state>>

\* FP16 is asked for where the OS has IddCx 1.10 and the registry enables it;
\* DisableAdapterFlags takes back the flag and the capability.
DeclareCaps(enabled, disabled) ==
  /\ init = "caps"
  /\ flags' = (enabled /\ ~disabled)
  /\ hdrReady' = (enabled /\ ~disabled)
  /\ init' = "attempt"
  /\ UNCHANGED <<deviceVars, started, adapters, state, sleeps>>

\* IddCxAdapterInitAsync takes the adapter.
AttemptAccepted ==
  /\ init = "attempt"
  /\ adapters' = Append(adapters, flags)
  /\ init' = "accepted"
  /\ UNCHANGED <<deviceVars, started, flags, hdrReady, state, sleeps>>

\* Or refuses it: once more without FP16, if that was asked for.
AttemptRefused ==
  /\ init = "attempt"
  /\ init' = IF flags THEN "attempt" ELSE "refused"
  /\ flags' = FALSE
  /\ UNCHANGED <<deviceVars, started, adapters, hdrReady, state, sleeps>>

\* Mutant: what was requested is reported, not what was accepted.
Reported_Requested == hdrReady

\* "Report only what the accepted attempt actually asked for."
Reported == hdrReady /\ flags

RecordAdapter ==
  /\ init = "accepted"
  /\ hdrReady' = Reported
  /\ init' = "on"
  /\ UNCHANGED <<deviceVars, started, flags, adapters, state, sleeps>>

\* "Keep the device - and therefore the control interface - alive."
RecordFailure ==
  /\ init = "refused"
  /\ state' = "failed"
  /\ hdrReady' = FALSE
  /\ init' = "on"
  /\ UNCHANGED <<deviceVars, started, flags, adapters, sleeps>>

\* The callback with IddCx's verdict, on the adapter it was created for.
OnAdapterInitFinished(ok) ==
  /\ adapters # <<>> /\ init \in {"on", "off"}
  /\ state = "starting"
  /\ state' = IF ok THEN "ready" ELSE "failed"
  /\ UNCHANGED <<deviceVars, started, init, flags, adapters, hdrReady, sleeps>>

\* All but DeviceCleanup.
AdapterNext ==
  \/ DeviceAdd \/ D0Entry \/ D0Exit
  \/ \E enabled, disabled \in BOOLEAN : DeclareCaps(enabled, disabled)
  \/ AttemptAccepted \/ AttemptRefused
  \/ RecordAdapter \/ RecordFailure
  \/ \E ok \in BOOLEAN : OnAdapterInitFinished(ok)
=============================================================================
