------------------------------ MODULE VddSlots ------------------------------
(***************************************************************************)
(* The monitor slot table of IndirectDeviceContext and the calls that      *)
(* change it: PLUG and UNPLUG requests, which IddCx may deliver on several *)
(* threads at once (the code provides for a plug racing an unplug), UNPLUG *)
(* of everything on the watchdog thread, and the OS callback that reports  *)
(* the committed display paths.                                            *)
(*                                                                         *)
(* m_Lock is held for single blocks only, never across a call into IddCx,  *)
(* so each locked block is one atomic action here and each IddCx call is   *)
(* another.  Everything another thread can do in between, it may do.       *)
(*                                                                         *)
(* The OS side (IddCxMonitorCreate, Arrival, Departure and the committed   *)
(* paths) is not in this repository: it is the variable os and the actions *)
(* marked "external", written from how the driver calls it.  Every such    *)
(* call may fail.  A handle of a monitor that is gone may be handed out    *)
(* again for a new one, as a pointer value may.                            *)
(***************************************************************************)
EXTENDS Naturals, FiniteSets

CONSTANTS
  Callers,    \* threads that may be inside Plug or Unplug at the same time
  Cookies,    \* the non-zero cookies clients use
  Modes,      \* the accepted modes and flags of a plug request
  Monitors,   \* values an IDDCX_MONITOR handle can take
  NumSlots,   \* NYANVDD_MAX_MONITORS
  None        \* null, zero, or no value

Indexes == 0 .. NumSlots - 1

ASSUME SlotsAssumption ==
  /\ NumSlots \in Nat \ {0}
  /\ None \notin Cookies \cup Modes \cup Monitors \cup Indexes

VARIABLES
  adapter,    \* m_AdapterState: "starting", "ready" or "failed"
  slots,      \* m_Slots
  os,         \* per handle, what the OS has: its state, EDID and connector
  commit,     \* the monitor list of the CommitModes callback in progress
  driven,     \* what the last CommitModes that returned listed as active
  pc,         \* where each thread is
  params,     \* the request it serves (In.Cookie and In's mode and flags)
  index,      \* local Index / ConnectorIndex
  edid,       \* local copy Edid in CreateAndArriveMonitor
  handle,     \* MonitorCreateOut.MonitorObject
  targets,    \* the local array Targets of Unplug not yet departed
  status      \* the NTSTATUS on its way back to the client

osVars == <<os, commit, driven>>
locals == <<params, index, edid, handle, targets, status>>
vars == <<adapter, slots, osVars, pc, locals>>

-----------------------------------------------------------------------------

Statuses == {"ok", "not_ready", "collision", "no_slot", "not_found",
             "os_error", "cancelled"}

\* Positions inside a plug, in program order, and inside an unplug.
PlugPcs == {"copy", "create", "context", "arrive", "store", "undo", "rollback"}
Pcs == PlugPcs \cup {"idle", "depart", "return"}

Description == [cookie : Cookies \cup {None}, mode : Modes \cup {None}]
NoDescription == [cookie |-> None, mode |-> None]

MonitorSlot ==
  [used : BOOLEAN, arrived : BOOLEAN, active : BOOLEAN,
   cookie : Cookies \cup {None}, mode : Modes \cup {None},
   monitor : Monitors \cup {None}]

\* Slot = {}
EmptySlot ==
  [used |-> FALSE, arrived |-> FALSE, active |-> FALSE,
   cookie |-> None, mode |-> None, monitor |-> None]

\* Slot.Edid: BuildEdid's encoding of Params, or 128 zero bytes in an empty
\* slot, from which CookieFromEdid reads no cookie.
EdidOf(s) == [cookie |-> s.cookie, mode |-> s.mode]

OsMonitor ==
  [st : {"absent", "created", "arrived", "stuck"},
   edid : Description, connector : Indexes \cup {None}]

Absent == [st |-> "absent", edid |-> NoDescription, connector |-> None]

TypeOK ==
  /\ adapter \in {"starting", "ready", "failed"}
  /\ slots \in [Indexes -> MonitorSlot]
  /\ os \in [Monitors -> OsMonitor]
  /\ commit \in (SUBSET Monitors) \cup {None}
  /\ driven \in SUBSET Monitors
  /\ pc \in [Callers -> Pcs]
  /\ params \in [Callers -> Description]
  /\ index \in [Callers -> Indexes \cup {None}]
  /\ edid \in [Callers -> Description]
  /\ handle \in [Callers -> Monitors \cup {None}]
  /\ targets \in [Callers -> SUBSET Monitors]
  /\ status \in [Callers -> Statuses \cup {None}]

Init ==
  /\ adapter = "starting"
  /\ slots = [i \in Indexes |-> EmptySlot]
  /\ os = [m \in Monitors |-> Absent]
  /\ commit = None
  /\ driven = {}
  /\ pc = [p \in Callers |-> "idle"]
  /\ params = [p \in Callers |-> NoDescription]
  /\ index = [p \in Callers |-> None]
  /\ edid = [p \in Callers |-> NoDescription]
  /\ handle = [p \in Callers |-> None]
  /\ targets = [p \in Callers |-> {}]
  /\ status = [p \in Callers |-> None]

-----------------------------------------------------------------------------
(* The adapter's asynchronous initialisation, as far as Plug sees it.      *)

OnAdapterInitFinished(ok) ==
  /\ adapter = "starting"
  /\ adapter' = IF ok THEN "ready" ELSE "failed"
  /\ UNCHANGED <<slots, osVars, pc, locals>>

-----------------------------------------------------------------------------
(* IOCTL_NYANVDD_PLUG.                                                      *)


CookieUsed(c) == \E i \in Indexes : slots[i].used /\ slots[i].cookie = c

FreeSlots == {i \in Indexes : ~slots[i].used}

\* Plug goes ahead, or returns the first status that applies.
Accepts(c) == adapter = "ready" /\ ~CookieUsed(c) /\ FreeSlots # {}

Refusal(c) == IF adapter # "ready" THEN "not_ready"
              ELSE IF CookieUsed(c) THEN "collision" ELSE "no_slot"

PlugRefused(p, c) ==
  /\ pc[p] = "idle"
  /\ ~Accepts(c)
  /\ pc' = [pc EXCEPT ![p] = "return"]
  /\ status' = [status EXCEPT ![p] = Refusal(c)]
  /\ UNCHANGED <<adapter, slots, osVars, params, index, edid, handle, targets>>

\* The duplicate check, the search for the lowest free slot and the
\* reservation are one locked block.
PlugReserve(p, c, m) ==
  /\ pc[p] = "idle"
  /\ Accepts(c)
  /\ \E i \in FreeSlots :
       /\ \A j \in FreeSlots : i <= j
       /\ slots' = [slots EXCEPT ![i] = [EmptySlot EXCEPT !.used = TRUE,
                                                         !.cookie = c,
                                                         !.mode = m]]
       /\ index' = [index EXCEPT ![p] = i]
  /\ params' = [params EXCEPT ![p] = [cookie |-> c, mode |-> m]]
  /\ pc' = [pc EXCEPT ![p] = "copy"]
  /\ UNCHANGED <<adapter, osVars, edid, handle, targets, status>>

\* CreateAndArriveMonitor takes the lock again and copies whatever the slot
\* holds by now.
CopyEdid(p) ==
  /\ pc[p] = "copy"
  /\ edid' = [edid EXCEPT ![p] = EdidOf(slots[index[p]])]
  /\ pc' = [pc EXCEPT ![p] = "create"]
  /\ UNCHANGED <<adapter, slots, osVars, params, index, handle, targets, status>>

\* The failure path shared by the three calls below.
OsError(p) ==
  /\ edid' = [edid EXCEPT ![p] = NoDescription]
  /\ status' = [status EXCEPT ![p] = "os_error"]
  /\ pc' = [pc EXCEPT ![p] = "rollback"]

\* IddCxMonitorCreate.  IddCx keeps a reference to the monitors it has passed
\* to a callback, so a handle in that list is not handed out.
MonitorCreate(p) ==
  /\ pc[p] = "create"
  /\ \/ \E m \in Monitors :
          /\ os[m].st = "absent"
          /\ commit # None => m \notin commit
          /\ os' = [os EXCEPT ![m] = [st |-> "created", edid |-> edid[p],
                                      connector |-> index[p]]]
          /\ handle' = [handle EXCEPT ![p] = m]
          /\ pc' = [pc EXCEPT ![p] = "context"]
          /\ UNCHANGED <<edid, status>>
     \/ OsError(p) /\ UNCHANGED <<os, handle>>
  /\ UNCHANGED <<adapter, slots, commit, driven, params, index, targets>>

\* new (nothrow) IndirectMonitorContext; without it the object is deleted.
AttachContext(p) ==
  /\ pc[p] = "context"
  /\ \/ /\ pc' = [pc EXCEPT ![p] = "arrive"]
        /\ UNCHANGED <<os, handle, edid, status>>
     \/ /\ os' = [os EXCEPT ![handle[p]] = Absent]
        /\ handle' = [handle EXCEPT ![p] = None]
        /\ OsError(p)
  /\ UNCHANGED <<adapter, slots, commit, driven, params, index, targets>>

\* IddCxMonitorArrival.  From here on the OS can drive the monitor, before
\* the driver has recorded it.
MonitorArrival(p) ==
  /\ pc[p] = "arrive"
  /\ \/ /\ os' = [os EXCEPT ![handle[p]].st = "arrived"]
        /\ pc' = [pc EXCEPT ![p] = "store"]
        /\ UNCHANGED <<handle, edid, status>>
     \/ /\ os' = [os EXCEPT ![handle[p]] = Absent]
        /\ handle' = [handle EXCEPT ![p] = None]
        /\ OsError(p)
  /\ UNCHANGED <<adapter, slots, commit, driven, params, index, targets>>

\* The last step of a plug: its local variables are dead.
PlugOver(p) ==
  /\ pc' = [pc EXCEPT ![p] = "return"]
  /\ params' = [params EXCEPT ![p] = NoDescription]
  /\ index' = [index EXCEPT ![p] = None]
  /\ edid' = [edid EXCEPT ![p] = NoDescription]

\* Mutants: the check forgets the arrived flag, or the cookie.
StillReserved_AnyState(p) ==
  slots[index[p]].used /\ slots[index[p]].cookie = edid[p].cookie
StillReserved_AnyCookie(p) == slots[index[p]].used /\ ~slots[index[p]].arrived

\* "Is this still the reservation whose monitor just arrived?"
StillReserved(p) ==
  /\ slots[index[p]].used
  /\ slots[index[p]].cookie = edid[p].cookie
  /\ ~slots[index[p]].arrived

StoreArrival(p) ==
  /\ pc[p] = "store"
  /\ StillReserved(p)
  /\ slots' = [slots EXCEPT ![index[p]].monitor = handle[p],
                            ![index[p]].arrived = TRUE]
  /\ handle' = [handle EXCEPT ![p] = None]
  /\ status' = [status EXCEPT ![p] = "ok"]
  /\ PlugOver(p)
  /\ UNCHANGED <<adapter, osVars, targets>>

\* Mutant: a stale arrival is reported but not departed.
StaleArrival_NotUndone(p) ==
  /\ pc[p] = "store"
  /\ ~StillReserved(p)
  /\ handle' = [handle EXCEPT ![p] = None]
  /\ status' = [status EXCEPT ![p] = "cancelled"]
  /\ pc' = [pc EXCEPT ![p] = "rollback"]
  /\ UNCHANGED <<adapter, slots, osVars, params, index, edid, targets>>

StaleArrival(p) ==
  /\ pc[p] = "store"
  /\ ~StillReserved(p)
  /\ pc' = [pc EXCEPT ![p] = "undo"]
  /\ UNCHANGED <<adapter, slots, osVars, locals>>

\* IddCxMonitorDeparture: it succeeds, or the OS keeps the monitor.
Departure(m) ==
  \/ os' = [os EXCEPT ![m] = Absent] /\ driven' = driven \ {m}
  \/ os' = [os EXCEPT ![m].st = "stuck"] /\ UNCHANGED driven

UndoArrival(p) ==
  /\ pc[p] = "undo"
  /\ Departure(handle[p])
  /\ handle' = [handle EXCEPT ![p] = None]
  /\ status' = [status EXCEPT ![p] = "cancelled"]
  /\ edid' = [edid EXCEPT ![p] = NoDescription]
  /\ pc' = [pc EXCEPT ![p] = "rollback"]
  /\ UNCHANGED <<adapter, slots, commit, params, index, targets>>

\* Mutants: roll back even an arrived monitor, or never.
OwnReservation_AnyState(p) ==
  slots[index[p]].used /\ slots[index[p]].cookie = params[p].cookie
OwnReservation_Never(p) == FALSE

\* "Only roll back our own reservation."
OwnReservation(p) ==
  /\ slots[index[p]].used
  /\ slots[index[p]].cookie = params[p].cookie
  /\ ~slots[index[p]].arrived

Rollback(p) ==
  /\ pc[p] = "rollback"
  /\ slots' = IF OwnReservation(p)
              THEN [slots EXCEPT ![index[p]] = EmptySlot] ELSE slots
  /\ PlugOver(p)
  /\ UNCHANGED <<adapter, osVars, handle, targets, status>>

-----------------------------------------------------------------------------
(* IOCTL_NYANVDD_UNPLUG; c = None is cookie 0, all monitors.               *)

Matching(c) == {i \in Indexes : slots[i].used /\ c \in {None, slots[i].cookie}}

\* Mutants: departs every arrived monitor, or takes slots whose plug is still
\* in flight as well.
UnplugTargets_All(c) ==
  {slots[i].monitor : i \in {j \in Indexes : slots[j].arrived}}
UnplugTargets_Unarrived(c) == {slots[i].monitor : i \in Matching(c)}

UnplugTargets(c) ==
  {slots[i].monitor : i \in {j \in Matching(c) : slots[j].arrived}}

\* The locked block: take the handles out of the table and free the slots.
UnplugClear(p, c) ==
  /\ pc[p] = "idle"
  /\ c # None => Matching(c) # {}
  /\ slots' = [i \in Indexes |-> IF i \in Matching(c) THEN EmptySlot ELSE slots[i]]
  /\ targets' = [targets EXCEPT ![p] = UnplugTargets(c)]
  /\ status' = [status EXCEPT ![p] = "ok"]
  /\ pc' = [pc EXCEPT ![p] = "depart"]
  /\ UNCHANGED <<adapter, osVars, params, index, edid, handle>>

UnplugNotFound(p, c) ==
  /\ pc[p] = "idle"
  /\ c # None
  /\ Matching(c) = {}
  /\ status' = [status EXCEPT ![p] = "not_found"]
  /\ pc' = [pc EXCEPT ![p] = "return"]
  /\ UNCHANGED <<adapter, slots, osVars, params, index, edid, handle, targets>>

\* One iteration of the departure loop; a failure is logged, nothing more.
DepartNext(p) ==
  /\ pc[p] = "depart"
  /\ \E m \in targets[p] :
       /\ Departure(m)
       /\ targets' = [targets EXCEPT ![p] = @ \ {m}]
  /\ UNCHANGED <<adapter, slots, commit, pc, params, index, edid, handle, status>>

UnplugDone(p) ==
  /\ pc[p] = "depart"
  /\ targets[p] = {}
  /\ pc' = [pc EXCEPT ![p] = "return"]
  /\ UNCHANGED <<adapter, slots, osVars, locals>>

-----------------------------------------------------------------------------

\* The request completes.
Return(p) ==
  /\ pc[p] = "return"
  /\ pc' = [pc EXCEPT ![p] = "idle"]
  /\ status' = [status EXCEPT ![p] = None]
  /\ UNCHANGED <<adapter, slots, osVars, params, index, edid, handle, targets>>

-----------------------------------------------------------------------------
(* The OS commits a set of display paths and calls EvtIddCxAdapterCommit-  *)
(* Modes with it; it makes one such call at a time.                        *)

OnDesktop == {m \in Monitors : os[m].st \in {"arrived", "stuck"}}

CommitModes(S) ==
  /\ commit = None
  /\ S \subseteq OnDesktop /\ Cardinality(S) <= NumSlots
  /\ commit' = S
  /\ UNCHANGED <<adapter, slots, os, driven, pc, locals>>

\* Mutant: a monitor missing from the list keeps its active bit.
SetActiveMonitors_NeverClears ==
  /\ commit # None
  /\ slots' = [i \in Indexes |->
                 IF slots[i].arrived /\ slots[i].monitor \in commit
                 THEN [slots[i] EXCEPT !.active = TRUE] ELSE slots[i]]
  /\ driven' = commit \cap OnDesktop
  /\ commit' = None
  /\ UNCHANGED <<adapter, os, pc, locals>>

SetActiveMonitors ==
  /\ commit # None
  /\ slots' = [i \in Indexes |->
                 IF slots[i].used /\ slots[i].arrived
                 THEN [slots[i] EXCEPT !.active = slots[i].monitor \in commit]
                 ELSE slots[i]]
  /\ driven' = commit \cap OnDesktop
  /\ commit' = None
  /\ UNCHANGED <<adapter, os, pc, locals>>

-----------------------------------------------------------------------------

PlugStep(p) ==
  \/ CopyEdid(p)
  \/ MonitorCreate(p)
  \/ AttachContext(p)
  \/ MonitorArrival(p)
  \/ StoreArrival(p)
  \/ StaleArrival(p)
  \/ UndoArrival(p)
  \/ Rollback(p)

UnplugStep(p) == DepartNext(p) \/ UnplugDone(p)

CallStep(p) == PlugStep(p) \/ UnplugStep(p) \/ Return(p)

NewCall(p) ==
  \/ \E c \in Cookies : PlugRefused(p, c)
  \/ \E c \in Cookies, m \in Modes : PlugReserve(p, c, m)
  \/ \E c \in Cookies \cup {None} : UnplugClear(p, c) \/ UnplugNotFound(p, c)

TableNext ==
  \/ \E ok \in BOOLEAN : OnAdapterInitFinished(ok)
  \/ \E p \in Callers : NewCall(p) \/ CallStep(p)

Next ==
  \/ TableNext
  \/ \E S \in SUBSET Monitors : CommitModes(S)
  \/ SetActiveMonitors

Spec == Init /\ [][Next]_vars

\* A thread inside a call is scheduled until the call returns.  Nobody has to
\* make a call, and the OS has to commit nothing.
CallFairness == \A p \in Callers : WF_vars(CallStep(p))

FairSpec == Spec /\ CallFairness

\* The same system under an OS that has not committed any path yet: commits
\* change the active bits only, and no call waits for one.
FairTableSpec == Init /\ [][TableNext]_vars /\ CallFairness

-----------------------------------------------------------------------------
(* Correctness.                                                            *)

Listed == {i \in Indexes : slots[i].used /\ slots[i].arrived}

\* Who is responsible for handing m back to the OS.
HeldBySlot(m) == \E i \in Listed : slots[i].monitor = m
HeldByPlug(m, p) == handle[p] = m
HeldByUnplug(m, p) == m \in targets[p]

\* A cookie names at most one slot, whatever calls overlap: the clients'
\* UNPLUG, the mode callbacks and OPEN_CAPTURE all find a slot by cookie.
CookieUnique ==
  \A i, j \in Indexes :
    slots[i].used /\ slots[j].used /\ slots[i].cookie = slots[j].cookie => i = j

\* No monitor the OS knows is forgotten by the driver: it is in the table, or
\* in the hands of a plug that will record or undo it, or of an unplug that
\* will depart it.  A monitor nobody holds could never be removed again.
NoOrphanMonitor ==
  \A m \in Monitors :
    os[m].st \in {"created", "arrived"} =>
      \/ HeldBySlot(m)
      \/ \E p \in Callers : HeldByPlug(m, p) \/ HeldByUnplug(m, p)

\* Nobody holds a handle the OS has already taken back, and no two hold the
\* same one: no IDDCX_MONITOR is departed or deleted twice, and no departure
\* hits a monitor that a later plug created under the same handle value.
SoleHolder ==
  /\ \A i \in Listed : os[slots[i].monitor].st = "arrived"
  /\ \A i, j \in Listed : slots[i].monitor = slots[j].monitor => i = j
  /\ \A p \in Callers, m \in Monitors :
       HeldByPlug(m, p) \/ HeldByUnplug(m, p) =>
         /\ os[m].st \in {"created", "arrived"}
         /\ ~HeldBySlot(m)
         /\ \A q \in Callers :
              HeldByPlug(m, q) \/ HeldByUnplug(m, q) => p = q

\* CopySlotByEdid: the slot a mode query about an EDID is answered from.
CopySlotByEdid(e) ==
  {i \in Indexes : slots[i].used /\ e.cookie # None /\ slots[i].cookie = e.cookie}

\* The OS describes a listed monitor by the EDID it arrived with.  Its mode
\* queries are answered from that monitor's own slot and no other, and the
\* connector LIST reports is the one it is attached to.
ListedMonitorResolves ==
  \A i \in Listed :
    /\ CopySlotByEdid(os[slots[i].monitor].edid) = {i}
    /\ os[slots[i].monitor].connector = i

\* LIST's ACTIVE bit is never left over from an earlier monitor, an earlier
\* commit or an earlier use of the handle: it says what the last CommitModes
\* said of the monitor now in the slot.
ActiveWasCommitted ==
  \A i \in Indexes : slots[i].active => i \in Listed /\ slots[i].monitor \in driven

\* Once no call is running nothing is half done: every reserved slot has its
\* monitor, and apart from monitors the OS refused to remove, the OS has
\* exactly the monitors LIST reports.
QuietTableIsExact ==
  (\A p \in Callers : pc[p] = "idle") =>
    /\ \A i \in Indexes : slots[i].used => slots[i].arrived
    /\ {m \in Monitors : os[m].st \in {"created", "arrived"}}
         = {slots[i].monitor : i \in Listed}

\* A listed monitor leaves the table only when an unplug of its cookie, or of
\* all, takes its handle to depart it: never by the rollback of a plug that
\* failed, nor by an unplug of another cookie.
OnlyUnplugDelists ==
  [][\A i \in Listed : i \notin Listed' =>
       \E p \in Callers, c \in {None, slots[i].cookie} :
         UnplugClear(p, c) /\ slots[i].monitor \in targets'[p]]_vars

\* A monitor the OS has and LIST does not show is on its way: it gets listed,
\* or it leaves, or the OS refuses to let it go.
UnlistedMonitorsSettle ==
  \A m \in Monitors :
    os[m].st = "arrived" /\ ~HeldBySlot(m) ~> os[m].st # "arrived" \/ HeldBySlot(m)

\* What clients see of a slot, and of the call a thread is in.
EntryOf(s) ==
  [state |-> IF ~s.used THEN "absent" ELSE IF s.arrived THEN "listed" ELSE "reserved",
   cookie |-> IF s.used THEN s.cookie ELSE None]

CallOf(p) ==
  [kind |-> IF pc[p] \in PlugPcs THEN "plug" ELSE IF pc[p] = "depart" THEN "unplug" ELSE "none",
   place |-> IF pc[p] \in PlugPcs THEN index[p] ELSE None,
   cookie |-> IF pc[p] \in PlugPcs THEN params[p].cookie ELSE None]

\* The table implements the clients' view of it, slot for slot and call for call
\* (MonitorRegistry): a plug takes a free connector, and only for a cookie no
\* reserved or listed connector answers to; one that fails gives back its own
\* reservation and never a monitor or another plug's reservation; a listed
\* monitor changes neither connector nor cookie until an unplug of it; and every
\* request ends.
Registry == INSTANCE MonitorRegistry WITH
  Clients <- Callers,
  Connectors <- Indexes,
  registry <- [i \in Indexes |-> EntryOf(slots[i])],
  calls <- [p \in Callers |-> CallOf(p)]


-----------------------------------------------------------------------------
(* What the repository says and the code does not keep: see the README.    *)

\* "a successful PLUG means the monitor really is offered at the requested
\* mode": what LIST reports for a monitor is the mode in that monitor's EDID.
ListedModeIsOffered ==
  \A i \in Listed : os[slots[i].monitor].edid.mode = slots[i].mode

\* A plug that succeeds returns the "connector the monitor was attached to":
\* the slot it reports holds the cookie it was asked to plug.
PlugReturnsItsConnector ==
  [][\A p \in Callers :
       StoreArrival(p) => slots[index[p]].cookie = params[p].cookie]_vars

\* "ACTIVE means the OS committed a display path for this monitor": when no
\* CommitModes is being delivered, a listed monitor of the last one has it.
CommittedIsActive ==
  commit = None => \A i \in Listed : slots[i].monitor \in driven => slots[i].active
=============================================================================
