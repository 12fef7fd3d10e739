---------------------------- MODULE ModeQueries ----------------------------
(***************************************************************************)
(* How the OS learns the modes of a monitor.  It parses the description    *)
(* (monitor modes), queries target modes, each with one call for the count *)
(* and one with a buffer, and offers what is in both lists.  Every call    *)
(* resolves the monitor anew by the cookie in its EDID, while clients      *)
(* unplug that cookie and plug it again with another mode.                 *)
(*                                                                         *)
(* Plugs are served once AdapterInit has got an adapter, and what it may   *)
(* declare decides which monitors are HDR.                                 *)
(***************************************************************************)
EXTENDS DisplayModes, AdapterInit

CONSTANTS
  Requests,   \* modes a client may ask for, supported or not
  None

VARIABLES
  slot,       \* Params of the slot with the cookie: mode and HDR flag
  edid,       \* what the slot's EDID says
  call,       \* the query the OS is about to make
  room,       \* size of the buffer it has prepared
  monitorModes, targetModes,  \* the lists it has got
  steady      \* history: no plug or unplug since its first query

slotVars == <<slot, edid>>
osVars == <<call, room, monitorModes, targetModes>>
vars == <<adapterVars, slotVars, osVars, steady>>

Calls == {"parse count", "parse", "target count", "target", "done"}

\* None is no slot, no EDID and no list.
ASSUME RequestsAssumption ==
  /\ Requests \subseteq [Width : Nat, Height : Nat, RefreshHz : Nat]
  /\ None \notin [mode : Requests, hdr : BOOLEAN]
  /\ \A m \in Requests : IsSupportedMode(m) => None # BuildEdid(m)
  /\ None \notin [modes : Seq([Width : Nat, Height : Nat, RefreshHz : Nat]), hdr : BOOLEAN]

TypeOK ==
  /\ AdapterTypeOK
  /\ slot = None \/ (slot.mode \in Requests /\ IsSupportedMode(slot.mode)
                     /\ slot.hdr \in BOOLEAN /\ (slot.hdr => hdrReady))
  /\ (slot = None) = (edid = None)
  /\ call \in Calls
  /\ room \in 0 .. Len(ModeTable) + 1
  /\ \A list \in {monitorModes, targetModes} : list # None => Len(list.modes) <= Len(ModeTable) + 1
  /\ steady \in BOOLEAN

Init ==
  /\ AdapterStart
  /\ slot = None /\ edid = None
  /\ call = "parse count" /\ room = 0
  /\ monitorModes = None /\ targetModes = None
  /\ steady = FALSE

-----------------------------------------------------------------------------

\* Mutant: the flag is kept whatever the adapter declared.
StripHdr_Never(hdr) == hdr

StripHdr(hdr) == hdr /\ hdrReady

\* Plug with mode m; the HDR flag is dropped unless the adapter can do it.
Plug(m, hdr) ==
  /\ context /\ state = "ready"
  /\ slot = None
  /\ IsSupportedMode(m)
  /\ slot' = [mode |-> m, hdr |-> StripHdr(hdr)]
  /\ edid' = BuildEdid(m)
  /\ steady' = FALSE
  /\ UNCHANGED <<adapterVars, osVars>>

Unplug ==
  /\ slot # None
  /\ slot' = None /\ edid' = None
  /\ steady' = FALSE
  /\ UNCHANGED <<adapterVars, osVars>>

\* A device is removed with its slots and monitors.
DeviceRemoved ==
  /\ DeviceCleanup
  /\ slot' = None /\ edid' = None
  /\ call' = "parse count" /\ room' = 0
  /\ monitorModes' = None /\ targetModes' = None
  /\ steady' = FALSE

\* ResolveModeList: by the cookie, or the static table.
Resolved ==
  IF slot # None
  THEN [modes |-> BuildModeList(slot.mode), hdr |-> slot.hdr]
  ELSE [modes |-> ModeTable, hdr |-> FALSE]

Count(list) == Len(list.modes)

\* The OS starts over, for an arrival or whenever it likes.
StartQueries ==
  /\ call' = "parse count"
  /\ monitorModes' = None /\ targetModes' = None
  /\ room' = 0
  /\ UNCHANGED <<adapterVars, slotVars, steady>>

\* Both count calls: the buffer will have the size that was reported.
CountCall ==
  /\ context
  /\ \/ call = "parse count" /\ call' = "parse" /\ steady' = TRUE
     \/ call = "target count" /\ call' = "target" /\ UNCHANGED steady
  /\ room' = Count(Resolved)
  /\ UNCHANGED <<adapterVars, slotVars, monitorModes, targetModes>>

\* ParseMonitorDescription fills the buffer, or fails when it is too small.
Parse ==
  /\ call = "parse"
  /\ IF room >= Count(Resolved)
     THEN call' = "target count" /\ monitorModes' = Resolved
     ELSE call' = "done" /\ UNCHANGED monitorModes
  /\ UNCHANGED <<adapterVars, slotVars, room, targetModes, steady>>

\* What the OS gets as target modes: the same list.
TargetList == Resolved

\* MonitorQueryModes succeeds in any case, and fills a buffer that is large
\* enough.
QueryModes ==
  /\ call = "target"
  /\ targetModes' = IF room >= Count(TargetList) THEN TargetList ELSE targetModes
  /\ call' = "done"
  /\ UNCHANGED <<adapterVars, slotVars, room, monitorModes, steady>>

Next ==
  \/ AdapterNext /\ UNCHANGED <<slotVars, osVars, steady>>
  \/ DeviceRemoved
  \/ \E m \in Requests, hdr \in BOOLEAN : Plug(m, hdr)
  \/ Unplug
  \/ StartQueries \/ CountCall \/ Parse \/ QueryModes

Spec == Init /\ [][Next]_vars

-----------------------------------------------------------------------------
(* Correctness.                                                             *)

\* A mode that is accepted can be described: a reader of the EDID finds every
\* reported mode within the range limits, the resolution that was asked for in
\* the preferred timing, and a panel no taller than a desktop monitor with the
\* mode's aspect ratio, to a millimetre of rounding.
AcceptedIsDescribed ==
  slot # None =>
    LET m == slot.mode
        list == BuildModeList(m)
        off == edid.dtd.mmW * m.Height - edid.dtd.mmH * m.Width
    IN /\ \A i \in DOMAIN list : ModeInRange(edid, list[i])
       /\ edid.dtd.w = m.Width /\ edid.dtd.h = m.Height
       /\ DtdHz(edid) <= m.RefreshHz
       /\ edid.dtd.mmH <= MaxPanelHeightMm
       /\ off \in -(m.Width + m.Height) .. m.Width + m.Height
       /\ edid.cmW * 10 - edid.dtd.mmW \in -5 .. 5

\* The OS realizes "only the intersection" of the two lists.  It is never empty,
\* whatever was plugged or unplugged between the queries, so that the lists are
\* of different plugs or of none; and queried while the plug stood still they
\* are the same, with the plugged mode preferred and its HDR flag in both.
ListsIntersect ==
  /\ monitorModes # None /\ targetModes # None =>
       \E i \in DOMAIN monitorModes.modes, j \in DOMAIN targetModes.modes :
         monitorModes.modes[i] = targetModes.modes[j]
  /\ call = "done" /\ steady =>
       /\ monitorModes # None /\ targetModes = monitorModes
       /\ slot # None => targetModes.modes[1] = slot.mode /\ slot.hdr = targetModes.hdr

\* A monitor is HDR, and a list claims it is, only on the one adapter that was
\* created with FP16: "the 10-bit wire format may only be claimed while the
\* adapter declared FP16 processing", through refusals, overrides, resumes and
\* devices that come and go.
HdrIsDeclared ==
  /\ Len(adapters) <= 1
  /\ \/ slot # None /\ slot.hdr
     \/ context /\ state = "ready" /\ hdrReady
     => adapters = <<TRUE>>
  /\ \A list \in {monitorModes, targetModes} :
       list # None /\ list.hdr => adapters = <<TRUE>>

\* "Range limits must enclose every timing the monitor reports": violated, see
\* the README.
RangeEnclosesDtd == slot # None => DtdInRange(edid)
=============================================================================
