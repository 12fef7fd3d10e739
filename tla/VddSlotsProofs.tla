--------------------------- MODULE VddSlotsProofs ---------------------------
(***************************************************************************)
(* The safety properties of VddSlots, proved for every number of threads,  *)
(* cookies, handles and slots.                                             *)
(***************************************************************************)
EXTENDS VddSlots, TLAPS

-----------------------------------------------------------------------------
(* The inductive invariant.                                                *)

\* A free slot is Slot = {}; a slot without a monitor is not active.
SlotShape ==
  \A i \in Indexes :
    /\ slots[i].used => slots[i].cookie \in Cookies
    /\ ~slots[i].used => slots[i] = EmptySlot
    /\ slots[i].arrived => slots[i].used /\ slots[i].monitor \in Monitors
    /\ ~slots[i].arrived => slots[i].monitor = None /\ ~slots[i].active

\* The local variables of a plug, and the one handle it may hold.
Holding == {"context", "arrive", "store", "undo"}

PlugShape ==
  \A p \in Callers :
    /\ pc[p] \in PlugPcs => index[p] \in Indexes /\ params[p].cookie \in Cookies
    /\ pc[p] \notin Holding => handle[p] = None
    /\ pc[p] \in Holding =>
         /\ handle[p] \in Monitors
         /\ os[handle[p]].edid = edid[p]
         /\ os[handle[p]].connector = index[p]
         /\ os[handle[p]].st = IF pc[p] \in {"context", "arrive"}
                               THEN "created" ELSE "arrived"

\* Only the departure loop has targets, and all of them are still arrived.
UnplugShape ==
  \A p \in Callers :
    /\ targets[p] # {} => pc[p] = "depart"
    /\ \A m \in targets[p] : os[m].st = "arrived"

\* A slot without a monitor is the reservation of a plug that is still running.
ReservedByPlug ==
  \A i \in Indexes :
    slots[i].used /\ ~slots[i].arrived =>
      \E p \in Callers :
        pc[p] \in PlugPcs /\ index[p] = i /\ params[p].cookie = slots[i].cookie

\* The identity of a listed monitor, as the OS knows it, is its slot's.
ListedIdentity ==
  \A i \in Listed :
    /\ os[slots[i].monitor].edid.cookie = slots[i].cookie
    /\ os[slots[i].monitor].connector = i

\* What holds of the table, the OS and the handles in between, and what holds
\* of the calls.
TableInv ==
  /\ SlotShape
  /\ CookieUnique
  /\ NoOrphanMonitor
  /\ SoleHolder
  /\ ListedIdentity
  /\ ActiveWasCommitted

CallInv ==
  /\ PlugShape
  /\ UnplugShape
  /\ ReservedByPlug

IInv == TypeOK /\ TableInv /\ CallInv

-----------------------------------------------------------------------------
(* Records of the table and of the OS, one field at a time.                *)

LEMMA OsStateUpdate ==
  ASSUME NEW f \in [Monitors -> OsMonitor], NEW m,
         NEW v \in {"absent", "created", "arrived", "stuck"}
  PROVE  [f EXCEPT ![m].st = v] \in [Monitors -> OsMonitor]
<1>1. ASSUME NEW r \in OsMonitor PROVE [r EXCEPT !.st = v] \in OsMonitor
  BY DEF OsMonitor
<1> QED BY <1>1

LEMMA SlotArrives ==
  ASSUME NEW r \in MonitorSlot, NEW m \in Monitors
  PROVE  [r EXCEPT !.monitor = m, !.arrived = TRUE] \in MonitorSlot
BY DEF MonitorSlot

LEMMA SlotActive ==
  ASSUME NEW r \in MonitorSlot, NEW v \in BOOLEAN
  PROVE  [r EXCEPT !.active = v] \in MonitorSlot
BY DEF MonitorSlot

\* What CommitModes' list makes of one slot.
Refreshed(r, S) == IF r.used /\ r.arrived THEN [r EXCEPT !.active = r.monitor \in S] ELSE r

LEMMA SlotRefreshed ==
  ASSUME NEW r \in MonitorSlot, NEW S PROVE Refreshed(r, S) \in MonitorSlot
<1> DEFINE v == r.monitor \in S
<1>1. v \in BOOLEAN
  OBVIOUS
<1>2. [r EXCEPT !.active = v] \in MonitorSlot
  BY <1>1, SlotActive
<1> QED BY <1>2 DEF Refreshed

LEMMA Constants == EmptySlot \in MonitorSlot /\ Absent \in OsMonitor /\ NoDescription \in Description
BY DEF EmptySlot, MonitorSlot, Absent, OsMonitor, NoDescription, Description

LEMMA EmptyFields ==
  /\ ~EmptySlot.used /\ ~EmptySlot.arrived /\ ~EmptySlot.active
  /\ EmptySlot.cookie = None /\ EmptySlot.monitor = None
BY DEF EmptySlot

-----------------------------------------------------------------------------
(* Types.                                                                  *)

\* Every action keeps the types: the values a call stores come from its
\* request, from the table, or from a handle the OS returned.
LEMMA TypeInit == Init => TypeOK
BY DEF Init, TypeOK, EmptySlot, NoDescription, Absent, MonitorSlot, Description,
       OsMonitor, Pcs, Statuses

LEMMA TypeStep == TypeOK /\ SlotShape /\ PlugShape /\ [Next]_vars => TypeOK'
<1> SUFFICES ASSUME TypeOK, SlotShape, PlugShape, [Next]_vars PROVE TypeOK'
  OBVIOUS
<1> USE Constants DEF TypeOK, osVars, locals, Pcs, PlugPcs, Statuses
<1>1. CASE UNCHANGED vars
  BY <1>1 DEF vars
<1>2. ASSUME NEW ok \in BOOLEAN, OnAdapterInitFinished(ok) PROVE TypeOK'
  BY <1>2 DEF OnAdapterInitFinished
<1>3. ASSUME NEW p \in Callers, NEW c \in Cookies, PlugRefused(p, c) PROVE TypeOK'
  BY <1>3 DEF PlugRefused, Refusal
<1>4. ASSUME NEW p \in Callers, NEW c \in Cookies, NEW m \in Modes, PlugReserve(p, c, m)
      PROVE TypeOK'
  <2>1. [EmptySlot EXCEPT !.used = TRUE, !.cookie = c, !.mode = m] \in MonitorSlot
    BY DEF EmptySlot, MonitorSlot
  <2>2. [cookie |-> c, mode |-> m] \in Description
    BY DEF Description
  <2> QED BY <1>4, <2>1, <2>2 DEF PlugReserve, FreeSlots
<1>5. ASSUME NEW p \in Callers, NEW c \in Cookies \cup {None}, UnplugClear(p, c)
      PROVE TypeOK'
  <2>1. UnplugTargets(c) \in SUBSET Monitors
    BY DEF UnplugTargets, Matching, SlotShape
  <2> QED BY <1>5, <2>1 DEF UnplugClear
<1>6. ASSUME NEW p \in Callers, NEW c \in Cookies \cup {None}, UnplugNotFound(p, c)
      PROVE TypeOK'
  BY <1>6 DEF UnplugNotFound
<1>7. ASSUME NEW p \in Callers, CopyEdid(p) PROVE TypeOK'
  <2>1. EdidOf(slots[index[p]]) \in Description
    BY <1>7 DEF CopyEdid, PlugShape, EdidOf, MonitorSlot, Description
  <2> QED BY <1>7, <2>1 DEF CopyEdid
<1>8. ASSUME NEW p \in Callers, MonitorCreate(p) PROVE TypeOK'
  <2>1. [st |-> "created", edid |-> edid[p], connector |-> index[p]] \in OsMonitor
    BY DEF OsMonitor
  <2> QED BY <1>8, <2>1 DEF MonitorCreate, OsError
<1>9. ASSUME NEW p \in Callers, AttachContext(p) PROVE TypeOK'
  BY <1>9 DEF AttachContext, OsError
<1>10. ASSUME NEW p \in Callers, MonitorArrival(p) PROVE TypeOK'
  <2>1. [os EXCEPT ![handle[p]].st = "arrived"] \in [Monitors -> OsMonitor]
    BY OsStateUpdate
  <2> QED BY <1>10, <2>1 DEF MonitorArrival, OsError
<1>11. ASSUME NEW p \in Callers, StoreArrival(p) PROVE TypeOK'
  <2>1. slots[index[p]] \in MonitorSlot /\ handle[p] \in Monitors
    BY <1>11 DEF StoreArrival, PlugShape, Holding
  <2>2. slots' = [slots EXCEPT ![index[p]] =
                    [@ EXCEPT !.monitor = handle[p], !.arrived = TRUE]]
    BY <1>11 DEF StoreArrival
  <2>3. [slots[index[p]] EXCEPT !.monitor = handle[p], !.arrived = TRUE] \in MonitorSlot
    BY <2>1, SlotArrives
  <2>4. slots' \in [Indexes -> MonitorSlot]
    BY <2>2, <2>3
  <2> QED BY <1>11, <2>4 DEF StoreArrival, PlugOver
<1>12. ASSUME NEW p \in Callers, StaleArrival(p) PROVE TypeOK'
  BY <1>12 DEF StaleArrival
<1>13. ASSUME NEW p \in Callers, UndoArrival(p) PROVE TypeOK'
  <2>1. [os EXCEPT ![handle[p]].st = "stuck"] \in [Monitors -> OsMonitor]
    BY OsStateUpdate
  <2> QED BY <1>13, <2>1 DEF UndoArrival, Departure
<1>14. ASSUME NEW p \in Callers, Rollback(p) PROVE TypeOK'
  BY <1>14 DEF Rollback, PlugOver
<1>15. ASSUME NEW p \in Callers, DepartNext(p) PROVE TypeOK'
  <2>1. \A m : [os EXCEPT ![m].st = "stuck"] \in [Monitors -> OsMonitor]
    BY OsStateUpdate
  <2> QED BY <1>15, <2>1 DEF DepartNext, Departure
<1>16. ASSUME NEW p \in Callers, UnplugDone(p) PROVE TypeOK'
  BY <1>16 DEF UnplugDone
<1>17. ASSUME NEW p \in Callers, Return(p) PROVE TypeOK'
  BY <1>17 DEF Return
<1>18. ASSUME NEW S \in SUBSET Monitors, CommitModes(S) PROVE TypeOK'
  BY <1>18 DEF CommitModes
<1>19. ASSUME SetActiveMonitors PROVE TypeOK'
  <2>1. slots' = [i \in Indexes |-> Refreshed(slots[i], commit)]
    BY <1>19 DEF SetActiveMonitors, Refreshed
  <2> QED BY <1>19, <2>1, SlotRefreshed DEF SetActiveMonitors, OnDesktop
<1> QED
  BY <1>1, <1>2, <1>3, <1>4, <1>5, <1>6, <1>7, <1>8, <1>9, <1>10, <1>11, <1>12, <1>13,
     <1>14, <1>15, <1>16, <1>17, <1>18, <1>19
  DEF Next, TableNext, NewCall, CallStep, PlugStep, UnplugStep

-----------------------------------------------------------------------------
(* What the actions do to the table and to the OS, slot by slot and handle *)
(* by handle.                                                              *)

LEMMA DepartureEffect ==
  ASSUME TypeOK, NEW m \in Monitors, Departure(m)
  PROVE  /\ os'[m].st \in {"absent", "stuck"}
         /\ \A n \in Monitors : n # m => os'[n] = os[n] /\ (n \in driven => n \in driven')
<1>1. CASE os' = [os EXCEPT ![m] = Absent] /\ driven' = driven \ {m}
  BY <1>1 DEF TypeOK, Absent
<1>2. CASE os' = [os EXCEPT ![m].st = "stuck"] /\ UNCHANGED driven
  <2>1. os'[m] = [os[m] EXCEPT !.st = "stuck"] /\ os[m] \in OsMonitor
    BY <1>2 DEF TypeOK
  <2>2. os'[m].st = "stuck"
    BY <2>1 DEF OsMonitor
  <2> QED BY <1>2, <2>2 DEF TypeOK
<1> QED BY <1>1, <1>2 DEF Departure

LEMMA ArrivalEffect ==
  ASSUME TypeOK, NEW m \in Monitors, os' = [os EXCEPT ![m].st = "arrived"]
  PROVE  /\ os'[m].st = "arrived"
         /\ os'[m].edid = os[m].edid
         /\ os'[m].connector = os[m].connector
         /\ \A n \in Monitors : n # m => os'[n] = os[n]
<1>1. os'[m] = [os[m] EXCEPT !.st = "arrived"] /\ os[m] \in OsMonitor
  BY DEF TypeOK
<1>2. os'[m].st = "arrived" /\ os'[m].edid = os[m].edid /\ os'[m].connector = os[m].connector
  BY <1>1 DEF OsMonitor
<1> QED BY <1>2 DEF TypeOK

LEMMA StoreEffect ==
  ASSUME TypeOK, PlugShape, NEW p \in Callers, StoreArrival(p)
  PROVE  LET i == index[p] IN
         /\ i \in Indexes
         /\ slots'[i].used /\ slots'[i].arrived
         /\ slots'[i].cookie = slots[i].cookie
         /\ slots'[i].active = slots[i].active
         /\ slots'[i].monitor = handle[p]
         /\ \A j \in Indexes : j # i => slots'[j] = slots[j]
<1> DEFINE i == index[p]
<1>1. i \in Indexes /\ slots[i] \in MonitorSlot /\ slots[i].used
  BY DEF StoreArrival, StillReserved, TypeOK, PlugShape, PlugPcs
<1>2. slots' = [slots EXCEPT ![i] = [@ EXCEPT !.monitor = handle[p], !.arrived = TRUE]]
  BY DEF StoreArrival
<1>3. slots'[i] = [slots[i] EXCEPT !.monitor = handle[p], !.arrived = TRUE]
  BY <1>1, <1>2 DEF TypeOK
<1>4. /\ slots'[i].used /\ slots'[i].arrived
      /\ slots'[i].cookie = slots[i].cookie
      /\ slots'[i].active = slots[i].active
      /\ slots'[i].monitor = handle[p]
  BY <1>1, <1>3 DEF MonitorSlot
<1>5. \A j \in Indexes : j # i => slots'[j] = slots[j]
  BY <1>2 DEF TypeOK
<1> QED BY <1>1, <1>4, <1>5

LEMMA ReserveEffect ==
  ASSUME TypeOK, NEW p \in Callers, NEW c \in Cookies, NEW m \in Modes, PlugReserve(p, c, m)
  PROVE  LET i == index'[p] IN
         /\ i \in Indexes
         /\ ~slots[i].used
         /\ slots'[i].used /\ ~slots'[i].arrived /\ ~slots'[i].active
         /\ slots'[i].cookie = c
         /\ slots'[i].monitor = None
         /\ \A j \in Indexes : j # i => slots'[j] = slots[j]
<1>1. PICK i \in FreeSlots :
        /\ slots' = [slots EXCEPT ![i] = [EmptySlot EXCEPT !.used = TRUE, !.cookie = c,
                                                         !.mode = m]]
        /\ index' = [index EXCEPT ![p] = i]
  BY DEF PlugReserve
<1>2. i \in Indexes /\ ~slots[i].used /\ index'[p] = i
  BY <1>1 DEF FreeSlots, TypeOK
<1>3. slots'[i] = [EmptySlot EXCEPT !.used = TRUE, !.cookie = c, !.mode = m]
  BY <1>1, <1>2 DEF TypeOK
<1>4. /\ slots'[i].used /\ ~slots'[i].arrived /\ ~slots'[i].active
      /\ slots'[i].cookie = c /\ slots'[i].monitor = None
  BY <1>3 DEF EmptySlot
<1>5. \A j \in Indexes : j # i => slots'[j] = slots[j]
  BY <1>1, <1>2 DEF TypeOK
<1> QED BY <1>2, <1>4, <1>5

LEMMA ActiveEffect ==
  ASSUME TypeOK, SetActiveMonitors, NEW i \in Indexes
  PROVE  /\ slots'[i].used = slots[i].used
         /\ slots'[i].arrived = slots[i].arrived
         /\ slots'[i].cookie = slots[i].cookie
         /\ slots'[i].monitor = slots[i].monitor
         /\ ~(slots[i].used /\ slots[i].arrived) => slots'[i] = slots[i]
         /\ slots[i].used /\ slots[i].arrived /\ slots'[i].active =>
              slots[i].monitor \in commit
<1>1. slots[i] \in MonitorSlot
  BY DEF TypeOK
<1>2. CASE slots[i].used /\ slots[i].arrived
  <2>1. slots'[i] = [slots[i] EXCEPT !.active = slots[i].monitor \in commit]
    BY <1>2 DEF SetActiveMonitors
  <2> QED BY <1>1, <1>2, <2>1 DEF MonitorSlot
<1>3. CASE ~(slots[i].used /\ slots[i].arrived)
  BY <1>3 DEF SetActiveMonitors
<1> QED BY <1>2, <1>3

-----------------------------------------------------------------------------
(* The invariant is preserved.                                             *)

LEMMA InvInit == Init => IInv
<1> SUFFICES ASSUME Init PROVE IInv
  OBVIOUS
<1>1. TypeOK
  BY TypeInit
<1>2. TableInv
  BY SlotsAssumption DEF Init, EmptySlot, Absent, TableInv, SlotShape, CookieUnique, NoOrphanMonitor,
         SoleHolder, ListedIdentity, ActiveWasCommitted, Listed, HeldBySlot, HeldByPlug,
         HeldByUnplug
<1>3. CallInv
  BY DEF Init, EmptySlot, CallInv, PlugShape, UnplugShape, ReservedByPlug, PlugPcs, Holding
<1> QED BY <1>1, <1>2, <1>3 DEF IInv

\* Steps that move no handle and change no slot.
LEMMA TableFrame ==
  ASSUME TableInv, UNCHANGED <<slots, os, handle, targets, driven>>
  PROVE  TableInv'
BY DEF TableInv, SlotShape, CookieUnique, NoOrphanMonitor, SoleHolder, ListedIdentity,
       ActiveWasCommitted, Listed, HeldBySlot, HeldByPlug, HeldByUnplug

LEMMA CallFrame ==
  ASSUME CallInv, UNCHANGED <<slots, os, handle, targets, pc, params, index, edid>>
  PROVE  CallInv'
BY DEF CallInv, PlugShape, UnplugShape, ReservedByPlug

\* A thread outside a plug stays outside.
LEMMA OutsideFrame ==
  ASSUME IInv, NEW p \in Callers, pc[p] \in {"idle", "depart", "return"}, targets[p] = {},
         NEW x \in {"idle", "depart", "return"}, pc' = [pc EXCEPT ![p] = x],
         UNCHANGED <<slots, os, handle, targets, params, index, edid>>
  PROVE  CallInv'
<1> USE DEF IInv, CallInv, TypeOK, PlugPcs, Holding
<1>1. PlugShape'
  BY DEF PlugShape
<1>2. UnplugShape'
  BY DEF UnplugShape
<1>3. ReservedByPlug'
  BY DEF ReservedByPlug
<1> QED BY <1>1, <1>2, <1>3

LEMMA CopyEdidKeeps ==
  ASSUME IInv, NEW p \in Callers, CopyEdid(p) \/ StaleArrival(p)
  PROVE  TableInv' /\ CallInv'
<1> USE DEF IInv, CallInv, TypeOK, PlugPcs, Holding, CopyEdid, StaleArrival, osVars, locals
<1>1. TableInv'
  BY TableFrame
<1>2. PlugShape'
  BY DEF PlugShape
<1>3. UnplugShape'
  BY DEF UnplugShape
<1>4. ReservedByPlug'
  BY DEF ReservedByPlug
<1> QED BY <1>1, <1>2, <1>3, <1>4

\* A plug gives up: the OS no longer has the monitor it held, if it held one.
LEMMA GiveUpKeeps ==
  ASSUME IInv, NEW p \in Callers, pc[p] \in PlugPcs,
         pc' = [pc EXCEPT ![p] = "rollback"], handle' = [handle EXCEPT ![p] = None],
         UNCHANGED <<slots, params, index, targets>>,
         edid' = [edid EXCEPT ![p] = NoDescription],
         handle[p] \in Monitors => os'[handle[p]].st \in {"absent", "stuck"},
         \A n \in Monitors :
           n # handle[p] => os'[n] = os[n] /\ (n \in driven => n \in driven')
  PROVE  TableInv' /\ CallInv'
<1> USE SlotsAssumption DEF IInv, TypeOK, Listed, HeldBySlot, HeldByPlug, HeldByUnplug
<1>1. SlotShape' /\ CookieUnique'
  BY DEF TableInv, SlotShape, CookieUnique
<1>2. \A i \in Listed : slots[i].monitor \in Monitors /\ slots[i].monitor # handle[p]
  BY DEF TableInv, SlotShape, SoleHolder
<1>3. \A q \in Callers :
        /\ q # p /\ handle[q] \in Monitors => handle[q] # handle[p]
        /\ \A m \in targets[q] : m # handle[p]
  BY DEF TableInv, CallInv, PlugShape, UnplugShape, SoleHolder, PlugPcs
<1>4. NoOrphanMonitor'
  BY DEF TableInv, NoOrphanMonitor
<1>5. SoleHolder'
  BY <1>2, <1>3 DEF TableInv, SoleHolder
<1>6. ListedIdentity' /\ ActiveWasCommitted'
  BY <1>2 DEF TableInv, ListedIdentity, ActiveWasCommitted
<1>7. PlugShape'
  BY <1>3 DEF CallInv, PlugShape, PlugPcs, Holding
<1>8. UnplugShape'
  BY <1>3 DEF CallInv, UnplugShape, PlugPcs
<1>9. ReservedByPlug'
  BY DEF CallInv, ReservedByPlug, PlugPcs
<1> QED BY <1>1, <1>4, <1>5, <1>6, <1>7, <1>8, <1>9 DEF TableInv, CallInv

\* IddCxMonitorCreate returns a handle that nobody holds.
LEMMA MonitorCreateKeeps ==
  ASSUME IInv, NEW p \in Callers, MonitorCreate(p)
  PROVE  TableInv' /\ CallInv'
<1> USE SlotsAssumption DEF IInv, TypeOK, Listed, HeldBySlot, HeldByPlug, HeldByUnplug
<1>1. pc[p] = "create" /\ handle[p] = None /\ UNCHANGED <<slots, driven, params, index, targets>>
  BY DEF MonitorCreate, CallInv, PlugShape, Holding
<1>2. CASE OsError(p) /\ UNCHANGED <<os, handle>>
  <2>1. handle' = [handle EXCEPT ![p] = None]
    BY <1>1, <1>2
  <2> QED BY <1>1, <1>2, <2>1, GiveUpKeeps DEF OsError, PlugPcs
<1>3. ASSUME NEW m \in Monitors, os[m].st = "absent",
             os' = [os EXCEPT ![m] = [st |-> "created", edid |-> edid[p],
                                      connector |-> index[p]]],
             handle' = [handle EXCEPT ![p] = m],
             pc' = [pc EXCEPT ![p] = "context"],
             UNCHANGED edid
      PROVE  TableInv' /\ CallInv'
  <2>1. /\ \A i \in Listed : slots[i].monitor \in Monitors /\ slots[i].monitor # m
        /\ \A q \in Callers : handle[q] # m /\ m \notin targets[q]
    BY <1>3 DEF TableInv, SlotShape, SoleHolder
  <2>2. /\ os'[m].st = "created" /\ os'[m].edid = edid[p] /\ os'[m].connector = index[p]
        /\ \A n \in Monitors : n # m => os'[n] = os[n]
    BY <1>3
  <2>3. SlotShape' /\ CookieUnique' /\ ActiveWasCommitted'
    BY <1>1 DEF TableInv, SlotShape, CookieUnique, ActiveWasCommitted
  <2>4. NoOrphanMonitor'
    BY <1>1, <1>3, <2>2 DEF TableInv, NoOrphanMonitor
  <2>5. SoleHolder'
    BY <1>1, <1>3, <2>1, <2>2 DEF TableInv, SoleHolder
  <2>6. ListedIdentity'
    BY <1>1, <2>1, <2>2 DEF TableInv, ListedIdentity
  <2>7. PlugShape'
    BY <1>1, <1>3, <2>1, <2>2 DEF CallInv, PlugShape, PlugPcs, Holding
  <2>8. UnplugShape'
    BY <1>1, <1>3, <2>1, <2>2 DEF CallInv, UnplugShape
  <2>9. ReservedByPlug'
    BY <1>1, <1>3 DEF CallInv, ReservedByPlug, PlugPcs
  <2> QED BY <2>3, <2>4, <2>5, <2>6, <2>7, <2>8, <2>9 DEF TableInv, CallInv
<1> QED BY <1>2, <1>3 DEF MonitorCreate

LEMMA AttachContextKeeps ==
  ASSUME IInv, NEW p \in Callers, AttachContext(p)
  PROVE  TableInv' /\ CallInv'
<1> USE SlotsAssumption DEF IInv, TypeOK
<1>1. /\ pc[p] = "context" /\ handle[p] \in Monitors
      /\ UNCHANGED <<slots, driven, params, index, targets>>
  BY DEF AttachContext, CallInv, PlugShape, Holding
<1>2. CASE pc' = [pc EXCEPT ![p] = "arrive"] /\ UNCHANGED <<os, handle, edid, status>>
  <2>1. TableInv'
    BY <1>1, <1>2, TableFrame
  <2>2. PlugShape'
    BY <1>1, <1>2 DEF CallInv, PlugShape, PlugPcs, Holding
  <2>3. UnplugShape'
    BY <1>1, <1>2 DEF CallInv, UnplugShape
  <2>4. ReservedByPlug'
    BY <1>1, <1>2 DEF CallInv, ReservedByPlug, PlugPcs
  <2> QED BY <2>1, <2>2, <2>3, <2>4 DEF CallInv
<1>3. CASE /\ os' = [os EXCEPT ![handle[p]] = Absent]
           /\ handle' = [handle EXCEPT ![p] = None]
           /\ OsError(p)
  <2>1. /\ os'[handle[p]].st = "absent"
        /\ \A n \in Monitors : n # handle[p] => os'[n] = os[n]
    BY <1>1, <1>3 DEF Absent
  <2> QED BY <1>1, <1>3, <2>1, GiveUpKeeps DEF OsError, PlugPcs
<1> QED BY <1>2, <1>3 DEF AttachContext

LEMMA MonitorArrivalKeeps ==
  ASSUME IInv, NEW p \in Callers, MonitorArrival(p)
  PROVE  TableInv' /\ CallInv'
<1> USE SlotsAssumption DEF IInv, TypeOK, Listed, HeldBySlot, HeldByPlug, HeldByUnplug
<1>1. /\ pc[p] = "arrive" /\ handle[p] \in Monitors
      /\ UNCHANGED <<slots, driven, params, index, targets>>
  BY DEF MonitorArrival, CallInv, PlugShape, Holding
<1>2. CASE /\ os' = [os EXCEPT ![handle[p]].st = "arrived"]
           /\ pc' = [pc EXCEPT ![p] = "store"]
           /\ UNCHANGED <<handle, edid, status>>
  <2> DEFINE m == handle[p]
  <2>1. /\ os'[m].st = "arrived" /\ os'[m].edid = os[m].edid
        /\ os'[m].connector = os[m].connector
        /\ \A n \in Monitors : n # m => os'[n] = os[n]
    BY <1>1, <1>2, ArrivalEffect
  <2>2. /\ \A i \in Listed : slots[i].monitor \in Monitors
        /\ \A q \in Callers : q # p => handle[q] # m
        /\ \A q \in Callers : m \notin targets[q]
    BY <1>1 DEF TableInv, SlotShape, SoleHolder, CallInv, UnplugShape
  <2>3. SlotShape' /\ CookieUnique' /\ ActiveWasCommitted'
    BY <1>1 DEF TableInv, SlotShape, CookieUnique, ActiveWasCommitted
  <2>4. NoOrphanMonitor'
    BY <1>1, <1>2, <2>1 DEF TableInv, NoOrphanMonitor
  <2>5. SoleHolder'
    BY <1>1, <1>2, <2>1, <2>2 DEF TableInv, SoleHolder
  <2>6. ListedIdentity'
    BY <1>1, <2>1, <2>2 DEF TableInv, ListedIdentity
  <2>7. PlugShape'
    BY <1>1, <1>2, <2>1, <2>2 DEF CallInv, PlugShape, PlugPcs, Holding
  <2>8. UnplugShape'
    BY <1>1, <1>2, <2>1, <2>2 DEF CallInv, UnplugShape
  <2>9. ReservedByPlug'
    BY <1>1, <1>2 DEF CallInv, ReservedByPlug, PlugPcs
  <2> QED BY <2>3, <2>4, <2>5, <2>6, <2>7, <2>8, <2>9 DEF TableInv, CallInv
<1>3. CASE /\ os' = [os EXCEPT ![handle[p]] = Absent]
           /\ handle' = [handle EXCEPT ![p] = None]
           /\ OsError(p)
  <2>1. /\ os'[handle[p]].st = "absent"
        /\ \A n \in Monitors : n # handle[p] => os'[n] = os[n]
    BY <1>1, <1>3 DEF Absent
  <2> QED BY <1>1, <1>3, <2>1, GiveUpKeeps DEF OsError, PlugPcs
<1> QED BY <1>2, <1>3 DEF MonitorArrival

LEMMA UndoArrivalKeeps ==
  ASSUME IInv, NEW p \in Callers, UndoArrival(p)
  PROVE  TableInv' /\ CallInv'
<1>1. pc[p] = "undo" /\ handle[p] \in Monitors /\ Departure(handle[p])
  BY DEF UndoArrival, IInv, CallInv, PlugShape, Holding, PlugPcs
<1>2. /\ os'[handle[p]].st \in {"absent", "stuck"}
      /\ \A n \in Monitors :
           n # handle[p] => os'[n] = os[n] /\ (n \in driven => n \in driven')
  BY <1>1, DepartureEffect DEF IInv
<1> QED BY <1>1, <1>2, GiveUpKeeps DEF UndoArrival, PlugPcs

\* A plug records its monitor: the handle passes from the plug to the slot.
LEMMA StoreArrivalKeeps ==
  ASSUME IInv, NEW p \in Callers, StoreArrival(p)
  PROVE  TableInv' /\ CallInv'
<1> USE SlotsAssumption DEF IInv, TypeOK, Listed, HeldBySlot, HeldByPlug, HeldByUnplug
<1> DEFINE i == index[p]
           m == handle[p]
<1>1. /\ i \in Indexes
      /\ slots'[i].used /\ slots'[i].arrived
      /\ slots'[i].cookie = slots[i].cookie
      /\ slots'[i].active = slots[i].active
      /\ slots'[i].monitor = m
      /\ \A j \in Indexes : j # i => slots'[j] = slots[j]
  BY StoreEffect DEF CallInv
<1>2. /\ slots[i].used /\ ~slots[i].arrived /\ slots[i].cookie = edid[p].cookie
      /\ pc[p] = "store" /\ m \in Monitors
      /\ os[m].st = "arrived" /\ os[m].edid = edid[p] /\ os[m].connector = i
  BY DEF StoreArrival, StillReserved, CallInv, PlugShape, Holding
<1>3. /\ handle' = [handle EXCEPT ![p] = None]
      /\ pc' = [pc EXCEPT ![p] = "return"]
      /\ index' = [index EXCEPT ![p] = None]
      /\ params' = [params EXCEPT ![p] = NoDescription]
      /\ edid' = [edid EXCEPT ![p] = NoDescription]
      /\ UNCHANGED <<os, driven, targets>>
  BY DEF StoreArrival, PlugOver, osVars
<1>4. /\ \A j \in Listed : j # i /\ slots[j].monitor \in Monitors /\ slots[j].monitor # m
      /\ \A q \in Callers : q # p => handle[q] # m
      /\ \A q \in Callers : m \notin targets[q]
  BY <1>2 DEF TableInv, SlotShape, SoleHolder, CallInv, UnplugShape, PlugPcs
<1>5. SlotShape'
  BY <1>1, <1>2 DEF TableInv, SlotShape
<1>6. CookieUnique'
  BY <1>1, <1>2 DEF TableInv, CookieUnique
<1>7. NoOrphanMonitor'
  <2> SUFFICES ASSUME NEW n \in Monitors, os[n].st \in {"created", "arrived"}
               PROVE  \/ HeldBySlot(n)'
                      \/ \E q \in Callers : HeldByPlug(n, q)' \/ HeldByUnplug(n, q)'
    BY <1>3 DEF NoOrphanMonitor
  <2>1. CASE n = m
    BY <1>1, <2>1
  <2>2. CASE HeldBySlot(n)
    BY <1>1, <1>4, <2>2
  <2>3. CASE n # m /\ \E q \in Callers : HeldByPlug(n, q) \/ HeldByUnplug(n, q)
    BY <1>3, <2>3
  <2> QED BY <2>1, <2>2, <2>3 DEF TableInv, NoOrphanMonitor
<1>8. SoleHolder'
  <2>1. Listed' = Listed \cup {i}
    BY <1>1
  <2>2. \A j \in Listed : slots'[j].monitor = slots[j].monitor
    BY <1>1, <1>4
  <2>3. \A n \in Monitors : HeldBySlot(n)' => HeldBySlot(n) \/ n = m
    BY <1>1, <2>1, <2>2
  <2>4. \A q \in Callers, n \in Monitors :
          HeldByPlug(n, q)' \/ HeldByUnplug(n, q)' =>
            n # m /\ (HeldByPlug(n, q) \/ HeldByUnplug(n, q))
    BY <1>3, <1>4
  <2> QED BY <1>1, <1>2, <1>3, <1>4, <2>1, <2>2, <2>3, <2>4 DEF TableInv, SoleHolder
<1>9. ListedIdentity' /\ ActiveWasCommitted'
  BY <1>1, <1>2, <1>3, <1>4 DEF TableInv, ListedIdentity, ActiveWasCommitted, SlotShape
<1>10. PlugShape'
  BY <1>2, <1>3 DEF CallInv, PlugShape, PlugPcs, Holding
<1>11. UnplugShape'
  BY <1>2, <1>3 DEF CallInv, UnplugShape
<1>12. ReservedByPlug'
  BY <1>1, <1>2, <1>3 DEF CallInv, ReservedByPlug, PlugPcs
<1> QED BY <1>5, <1>6, <1>7, <1>8, <1>9, <1>10, <1>11, <1>12 DEF TableInv, CallInv

\* A rollback frees only a reservation nobody's monitor is in.
LEMMA RollbackKeeps ==
  ASSUME IInv, NEW p \in Callers, Rollback(p)
  PROVE  TableInv' /\ CallInv'
<1> USE SlotsAssumption DEF IInv, TypeOK
<1>1. /\ pc[p] = "rollback" /\ index[p] \in Indexes /\ handle[p] = None
      /\ pc' = [pc EXCEPT ![p] = "return"]
      /\ index' = [index EXCEPT ![p] = None]
      /\ UNCHANGED <<os, driven, targets, handle>>
      /\ params' = [params EXCEPT ![p] = NoDescription]
  BY DEF Rollback, PlugOver, osVars, CallInv, PlugShape, PlugPcs, Holding
<1>2. \A j \in Indexes :
        \/ slots'[j] = slots[j]
        \/ slots[j].used /\ ~slots[j].arrived /\ slots'[j] = EmptySlot
  BY <1>1 DEF Rollback, OwnReservation
<1>3. Listed' = Listed /\ \A j \in Listed : slots'[j] = slots[j]
  BY <1>2 DEF Listed, EmptySlot
<1>4. SlotShape'
  BY <1>2, EmptyFields DEF TableInv, SlotShape
<1>5. CookieUnique'
  BY <1>2 DEF TableInv, CookieUnique, EmptySlot
<1>6. NoOrphanMonitor' /\ SoleHolder' /\ ListedIdentity'
  BY <1>1, <1>3
  DEF TableInv, NoOrphanMonitor, SoleHolder, ListedIdentity, HeldBySlot, HeldByPlug,
      HeldByUnplug
<1>7. ActiveWasCommitted'
  BY <1>1, <1>2, <1>3 DEF TableInv, ActiveWasCommitted, EmptySlot
<1>8. PlugShape' /\ UnplugShape'
  BY <1>1 DEF Rollback, PlugOver, CallInv, PlugShape, UnplugShape, PlugPcs, Holding
<1>9. ReservedByPlug'
  <2> SUFFICES ASSUME NEW j \in Indexes, slots'[j].used, ~slots'[j].arrived
               PROVE  \E q \in Callers : /\ pc'[q] \in PlugPcs /\ index'[q] = j
                                         /\ params'[q].cookie = slots'[j].cookie
    BY DEF ReservedByPlug
  <2>1. slots'[j] = slots[j]
    BY <1>2 DEF EmptySlot
  <2>2. PICK q \in Callers : /\ pc[q] \in PlugPcs /\ index[q] = j
                             /\ params[q].cookie = slots[j].cookie
    BY <2>1 DEF CallInv, ReservedByPlug
  <2>3. q # p
    <3>1. ASSUME q = p PROVE OwnReservation(p)
      BY <2>1, <2>2, <3>1 DEF OwnReservation
    <3>2. ASSUME OwnReservation(p), q = p PROVE FALSE
      BY <1>1, <2>2, <3>2 DEF Rollback, EmptySlot
    <3> QED BY <3>1, <3>2
  <2> QED BY <1>1, <2>1, <2>2, <2>3
<1> QED BY <1>4, <1>5, <1>6, <1>7, <1>8, <1>9 DEF TableInv, CallInv

\* A plug reserves the lowest free slot for a cookie that has none.
LEMMA PlugReserveKeeps ==
  ASSUME IInv, NEW p \in Callers, NEW c \in Cookies, NEW m \in Modes, PlugReserve(p, c, m)
  PROVE  TableInv' /\ CallInv'
<1> USE SlotsAssumption DEF IInv, TypeOK
<1> DEFINE i == index'[p]
<1>1. /\ i \in Indexes
      /\ ~slots[i].used
      /\ slots'[i].used /\ ~slots'[i].arrived /\ ~slots'[i].active
      /\ slots'[i].cookie = c
      /\ slots'[i].monitor = None
      /\ \A j \in Indexes : j # i => slots'[j] = slots[j]
  BY ReserveEffect
<1>2. /\ pc[p] = "idle" /\ pc' = [pc EXCEPT ![p] = "copy"]
      /\ index' = [index EXCEPT ![p] = i]
      /\ params' = [params EXCEPT ![p] = [cookie |-> c, mode |-> m]]
      /\ UNCHANGED <<os, driven, targets, handle, edid>>
  BY DEF PlugReserve, osVars
<1>3. handle[p] = None /\ targets[p] = {}
  BY <1>2 DEF CallInv, PlugShape, UnplugShape, Holding
<1>4. Listed' = Listed /\ \A j \in Listed : j # i /\ slots'[j] = slots[j]
  BY <1>1 DEF Listed
<1>5. \A j \in Indexes : slots[j].used => slots[j].cookie # c
  BY DEF PlugReserve, Accepts, CookieUsed
<1>6. SlotShape' /\ CookieUnique'
  BY <1>1, <1>5 DEF TableInv, SlotShape, CookieUnique
<1>7. NoOrphanMonitor' /\ SoleHolder' /\ ListedIdentity'
  BY <1>2, <1>4
  DEF TableInv, NoOrphanMonitor, SoleHolder, ListedIdentity, HeldBySlot, HeldByPlug,
      HeldByUnplug
<1>8. ActiveWasCommitted'
  BY <1>1, <1>2, <1>4 DEF TableInv, ActiveWasCommitted
<1>9. PlugShape' /\ UnplugShape'
  BY <1>1, <1>2, <1>3 DEF CallInv, PlugShape, UnplugShape, PlugPcs, Holding
<1>10. ReservedByPlug'
  BY <1>1, <1>2 DEF CallInv, ReservedByPlug, PlugPcs
<1> QED BY <1>6, <1>7, <1>8, <1>9, <1>10 DEF TableInv, CallInv

\* An unplug takes the handles of the slots it frees.
LEMMA UnplugClearKeeps ==
  ASSUME IInv, NEW p \in Callers, NEW c \in Cookies \cup {None}, UnplugClear(p, c)
  PROVE  TableInv' /\ CallInv'
<1> USE SlotsAssumption DEF IInv, TypeOK, HeldBySlot, HeldByPlug, HeldByUnplug
<1> DEFINE T == UnplugTargets(c)
<1>1. /\ \A j \in Indexes : slots'[j] = IF j \in Matching(c) THEN EmptySlot ELSE slots[j]
      /\ targets' = [targets EXCEPT ![p] = T]
      /\ pc[p] = "idle" /\ pc' = [pc EXCEPT ![p] = "depart"]
      /\ UNCHANGED <<os, driven, handle, params, index, edid>>
  BY DEF UnplugClear, osVars
<1>2. handle[p] = None /\ targets[p] = {}
  BY <1>1 DEF CallInv, PlugShape, UnplugShape, Holding
<1>3. /\ Listed' = Listed \ Matching(c)
      /\ \A j \in Listed' : slots'[j] = slots[j]
  BY <1>1, EmptyFields DEF Listed
<1>4. T = {slots[j].monitor : j \in Listed \cap Matching(c)}
  BY DEF UnplugTargets, Matching, Listed
<1>5. \A n \in T : n \in Monitors /\ HeldBySlot(n) /\ ~HeldBySlot(n)'
  BY <1>3, <1>4 DEF TableInv, SlotShape, SoleHolder, Listed
<1>6. SlotShape' /\ CookieUnique'
  BY <1>1, EmptyFields DEF TableInv, SlotShape, CookieUnique
<1>7. NoOrphanMonitor'
  <2>1. \A n \in Monitors : HeldBySlot(n) => HeldBySlot(n)' \/ n \in T
    BY <1>3, <1>4
  <2>2. \A q \in Callers, n \in Monitors :
          HeldByPlug(n, q) \/ HeldByUnplug(n, q) => HeldByPlug(n, q)' \/ HeldByUnplug(n, q)'
    BY <1>1, <1>2
  <2>3. p \in Callers /\ targets'[p] = T
    BY <1>1
  <2> QED BY <1>1, <2>1, <2>2, <2>3 DEF TableInv, NoOrphanMonitor
<1>8. SoleHolder'
  <2>1. \A n \in Monitors : HeldBySlot(n)' => HeldBySlot(n)
    BY <1>3
  <2>2. \A q \in Callers, n \in Monitors :
          HeldByPlug(n, q)' \/ HeldByUnplug(n, q)' =>
            HeldByPlug(n, q) \/ HeldByUnplug(n, q) \/ (q = p /\ n \in T)
    BY <1>1, <1>2
  <2>3. \A n \in T : os[n].st = "arrived"
    BY <1>4 DEF TableInv, SoleHolder
  <2>4. \A q \in Callers, n \in T : ~HeldByPlug(n, q) /\ ~HeldByUnplug(n, q)
    BY <1>5 DEF TableInv, SoleHolder
  <2> QED BY <1>1, <1>3, <1>5, <2>1, <2>2, <2>3, <2>4 DEF TableInv, SoleHolder
<1>9. ListedIdentity' /\ ActiveWasCommitted'
  BY <1>1, <1>3, EmptyFields DEF TableInv, ListedIdentity, ActiveWasCommitted
<1>10. PlugShape'
  BY <1>1, <1>2 DEF CallInv, PlugShape, PlugPcs, Holding
<1>11. UnplugShape'
  BY <1>1, <1>4 DEF CallInv, UnplugShape, TableInv, SoleHolder
<1>12. ReservedByPlug'
  BY <1>1, EmptyFields DEF CallInv, ReservedByPlug, PlugPcs
<1> QED BY <1>6, <1>7, <1>8, <1>9, <1>10, <1>11, <1>12 DEF TableInv, CallInv

\* One departure of the loop: the OS no longer has the monitor, or keeps it.
LEMMA DepartNextKeeps ==
  ASSUME IInv, NEW p \in Callers, DepartNext(p)
  PROVE  TableInv' /\ CallInv'
<1> USE SlotsAssumption DEF IInv, TypeOK, Listed, HeldBySlot, HeldByPlug, HeldByUnplug
<1>1. PICK m \in targets[p] : /\ Departure(m)
                              /\ targets' = [targets EXCEPT ![p] = @ \ {m}]
  BY DEF DepartNext
<1>2. m \in Monitors /\ UNCHANGED <<slots, pc, params, index, edid, handle>>
  BY <1>1 DEF DepartNext
<1>3. /\ os'[m].st \in {"absent", "stuck"}
      /\ \A n \in Monitors : n # m => os'[n] = os[n] /\ (n \in driven => n \in driven')
  BY <1>1, <1>2, DepartureEffect
<1>4. /\ \A i \in Listed : slots[i].monitor \in Monitors /\ slots[i].monitor # m
      /\ \A q \in Callers : handle[q] # m /\ (q # p => m \notin targets[q])
  BY <1>1, <1>2 DEF TableInv, SlotShape, SoleHolder, CallInv, PlugShape, UnplugShape,
                    Holding
<1>5. SlotShape' /\ CookieUnique'
  BY <1>2 DEF TableInv, SlotShape, CookieUnique
<1>6. NoOrphanMonitor'
  BY <1>1, <1>2, <1>3 DEF TableInv, NoOrphanMonitor
<1>7. SoleHolder'
  BY <1>1, <1>2, <1>3, <1>4 DEF TableInv, SoleHolder
<1>8. ListedIdentity' /\ ActiveWasCommitted'
  BY <1>2, <1>3, <1>4 DEF TableInv, ListedIdentity, ActiveWasCommitted
<1>9. PlugShape' /\ UnplugShape'
  BY <1>1, <1>2, <1>3, <1>4 DEF CallInv, PlugShape, UnplugShape, Holding
<1>10. ReservedByPlug'
  BY <1>2 DEF CallInv, ReservedByPlug
<1> QED BY <1>5, <1>6, <1>7, <1>8, <1>9, <1>10 DEF TableInv, CallInv

\* CommitModes' list reaches the table.
LEMMA SetActiveMonitorsKeeps ==
  ASSUME IInv, SetActiveMonitors
  PROVE  TableInv' /\ CallInv'
<1> USE SlotsAssumption DEF IInv, TypeOK
<1>1. /\ driven' = commit \cap OnDesktop
      /\ UNCHANGED <<os, handle, targets, pc, params, index, edid>>
  BY DEF SetActiveMonitors, locals
<1>2. \A i \in Indexes :
        /\ slots'[i].used = slots[i].used /\ slots'[i].arrived = slots[i].arrived
        /\ slots'[i].cookie = slots[i].cookie /\ slots'[i].monitor = slots[i].monitor
        /\ ~(slots[i].used /\ slots[i].arrived) => slots'[i] = slots[i]
        /\ slots[i].used /\ slots[i].arrived /\ slots'[i].active =>
             slots[i].monitor \in commit
  BY ActiveEffect
<1>3. Listed' = Listed /\ \A i \in Listed : /\ slots'[i].monitor = slots[i].monitor
                                            /\ slots'[i].cookie = slots[i].cookie
  BY <1>2 DEF Listed
<1>4. SlotShape' /\ CookieUnique'
  BY <1>2 DEF TableInv, SlotShape, CookieUnique
<1>5. NoOrphanMonitor' /\ SoleHolder' /\ ListedIdentity'
  BY <1>1, <1>3
  DEF TableInv, NoOrphanMonitor, SoleHolder, ListedIdentity, HeldBySlot, HeldByPlug,
      HeldByUnplug
<1>6. ActiveWasCommitted'
  BY <1>1, <1>2, <1>3 DEF TableInv, ActiveWasCommitted, SlotShape, SoleHolder, OnDesktop, Listed
<1>7. PlugShape' /\ UnplugShape'
  BY <1>1 DEF CallInv, PlugShape, UnplugShape
<1>8. ReservedByPlug'
  BY <1>1, <1>2 DEF CallInv, ReservedByPlug
<1> QED BY <1>4, <1>5, <1>6, <1>7, <1>8 DEF TableInv, CallInv

LEMMA InvStep == IInv /\ [Next]_vars => IInv'
<1> SUFFICES ASSUME IInv, [Next]_vars PROVE TableInv' /\ CallInv'
  BY TypeStep DEF IInv, TableInv, CallInv
<1> USE DEF IInv, TypeOK, osVars, locals
<1>1. CASE UNCHANGED vars
  BY <1>1, TableFrame, CallFrame DEF vars
<1>2. ASSUME NEW ok \in BOOLEAN, OnAdapterInitFinished(ok) PROVE TableInv' /\ CallInv'
  BY <1>2, TableFrame, CallFrame DEF OnAdapterInitFinished
<1>3. ASSUME NEW p \in Callers, NEW c \in Cookies, PlugRefused(p, c)
      PROVE  TableInv' /\ CallInv'
  BY <1>3, TableFrame, OutsideFrame DEF PlugRefused, CallInv, UnplugShape
<1>4. ASSUME NEW p \in Callers, NEW c \in Cookies, NEW m \in Modes, PlugReserve(p, c, m)
      PROVE  TableInv' /\ CallInv'
  BY <1>4, PlugReserveKeeps
<1>5. ASSUME NEW p \in Callers, NEW c \in Cookies \cup {None}, UnplugClear(p, c)
      PROVE  TableInv' /\ CallInv'
  BY <1>5, UnplugClearKeeps
<1>6. ASSUME NEW p \in Callers, NEW c \in Cookies \cup {None}, UnplugNotFound(p, c)
      PROVE  TableInv' /\ CallInv'
  BY <1>6, TableFrame, OutsideFrame DEF UnplugNotFound, CallInv, UnplugShape
<1>7. ASSUME NEW p \in Callers, PlugStep(p) PROVE TableInv' /\ CallInv'
  BY <1>7, CopyEdidKeeps, MonitorCreateKeeps, AttachContextKeeps, MonitorArrivalKeeps,
     StoreArrivalKeeps, UndoArrivalKeeps, RollbackKeeps
  DEF PlugStep
<1>8. ASSUME NEW p \in Callers, DepartNext(p) PROVE TableInv' /\ CallInv'
  BY <1>8, DepartNextKeeps
<1>9. ASSUME NEW p \in Callers, UnplugDone(p) PROVE TableInv' /\ CallInv'
  BY <1>9, TableFrame, OutsideFrame DEF UnplugDone
<1>10. ASSUME NEW p \in Callers, Return(p) PROVE TableInv' /\ CallInv'
  BY <1>10, TableFrame, OutsideFrame DEF Return, CallInv, UnplugShape
<1>11. ASSUME NEW S \in SUBSET Monitors, CommitModes(S) PROVE TableInv' /\ CallInv'
  BY <1>11, TableFrame, CallFrame DEF CommitModes
<1>12. ASSUME SetActiveMonitors PROVE TableInv' /\ CallInv'
  BY <1>12, SetActiveMonitorsKeeps
<1> QED
  BY <1>1, <1>2, <1>3, <1>4, <1>5, <1>6, <1>7, <1>8, <1>9, <1>10, <1>11, <1>12
  DEF Next, TableNext, NewCall, CallStep, UnplugStep

LEMMA Invariant == Spec => []IInv
BY InvInit, InvStep, PTL DEF Spec

-----------------------------------------------------------------------------
(* The properties.                                                         *)

\* Type correctness of the slot table, the OS view and every call.
THEOREM TypeCorrect == Spec => []TypeOK
<1>1. IInv => TypeOK
  BY DEF IInv
<1> QED BY Invariant, <1>1, PTL

\* Overlapping PLUGs never give two slots the same cookie.
THEOREM CookiesAreUnique == Spec => []CookieUnique
<1>1. IInv => CookieUnique
  BY DEF IInv, TableInv
<1> QED BY Invariant, <1>1, PTL

\* Whatever fails or overlaps, a monitor the OS knows stays in the hands of the
\* table, of a plug or of an unplug.
THEOREM MonitorsAreHeld == Spec => []NoOrphanMonitor
<1>1. IInv => NoOrphanMonitor
  BY DEF IInv, TableInv
<1> QED BY Invariant, <1>1, PTL

\* And in the hands of one of them only: no handle is departed twice or used
\* after the OS has taken it back.
THEOREM HandlesHaveOneHolder == Spec => []SoleHolder
<1>1. IInv => SoleHolder
  BY DEF IInv, TableInv
<1> QED BY Invariant, <1>1, PTL

\* Mode queries of a listed monitor are answered from its own slot.
THEOREM QueriesResolve == Spec => []ListedMonitorResolves
<1>1. IInv => ListedMonitorResolves
  <2> SUFFICES ASSUME IInv, NEW i \in Listed
               PROVE  /\ CopySlotByEdid(os[slots[i].monitor].edid) = {i}
                      /\ os[slots[i].monitor].connector = i
    BY DEF ListedMonitorResolves
  <2>1. /\ i \in Indexes /\ slots[i].used /\ slots[i].cookie \in Cookies
        /\ os[slots[i].monitor].edid.cookie = slots[i].cookie
        /\ os[slots[i].monitor].connector = i
    BY DEF IInv, TableInv, ListedIdentity, SlotShape, Listed
  <2>2. \A j \in Indexes : slots[j].used /\ slots[j].cookie = slots[i].cookie => j = i
    BY <2>1 DEF IInv, TableInv, CookieUnique
  <2>3. slots[i].cookie # None
    BY <2>1, SlotsAssumption
  <2> QED BY <2>1, <2>2, <2>3 DEF CopySlotByEdid
<1> QED BY Invariant, <1>1, PTL

\* LIST never reports a display path the OS did not commit for that monitor.
THEOREM ActiveIsCommitted == Spec => []ActiveWasCommitted
<1>1. IInv => ActiveWasCommitted
  BY DEF IInv, TableInv
<1> QED BY Invariant, <1>1, PTL

\* With no call running, the table and the OS agree.
THEOREM QuietTablesAreExact == Spec => []QuietTableIsExact
<1>1. IInv => QuietTableIsExact
  <2> SUFFICES ASSUME IInv, \A p \in Callers : pc[p] = "idle"
               PROVE  /\ \A i \in Indexes : slots[i].used => slots[i].arrived
                      /\ {m \in Monitors : os[m].st \in {"created", "arrived"}}
                           = {slots[i].monitor : i \in Listed}
    BY DEF QuietTableIsExact
  <2>1. \A i \in Indexes : slots[i].used => slots[i].arrived
    BY DEF IInv, TypeOK, CallInv, ReservedByPlug, PlugPcs
  <2>2. \A p \in Callers, m \in Monitors : ~HeldByPlug(m, p) /\ ~HeldByUnplug(m, p)
    BY SlotsAssumption
    DEF IInv, CallInv, PlugShape, UnplugShape, HeldByPlug, HeldByUnplug, Holding
  <2>3. \A m \in Monitors : os[m].st \in {"created", "arrived"} => HeldBySlot(m)
    BY <2>2 DEF IInv, TableInv, NoOrphanMonitor
  <2>4. \A i \in Listed : slots[i].monitor \in Monitors /\ os[slots[i].monitor].st = "arrived"
    BY DEF IInv, TableInv, SlotShape, SoleHolder, Listed
  <2> QED BY <2>1, <2>3, <2>4 DEF HeldBySlot
<1> QED BY Invariant, <1>1, PTL

\* A listed monitor is delisted by an unplug of its cookie or of all, which
\* holds its handle from then on; rollbacks and other calls never do it.
THEOREM OnlyUnplugsDelist == Spec => OnlyUnplugDelists
<1> DEFINE TakenByUnplug(i) ==
             \E p \in Callers, c \in {None, slots[i].cookie} :
               UnplugClear(p, c) /\ slots[i].monitor \in targets'[p]
           Delists == \A i \in Listed : i \notin Listed' => TakenByUnplug(i)
<1>1. IInv /\ [Next]_vars => [Delists]_vars
  <2> SUFFICES ASSUME IInv, [Next]_vars, NEW i \in Listed, i \notin Listed'
               PROVE  TakenByUnplug(i)
    OBVIOUS
  <2> USE DEF IInv, TypeOK
  <2>1. ASSUME NEW p \in Callers, NEW c \in Cookies \cup {None}, UnplugClear(p, c)
        PROVE  TakenByUnplug(i)
    <3>1. i \in Matching(c)
      BY <2>1 DEF UnplugClear, Listed
    <3>2. c \in {None, slots[i].cookie}
      BY <3>1 DEF Matching
    <3>3. slots[i].monitor \in targets'[p]
      <4>1. slots[i].monitor \in UnplugTargets(c)
        BY <3>1 DEF UnplugTargets, Listed
      <4> QED BY <2>1, <4>1 DEF UnplugClear
    <3> QED BY <2>1, <3>2, <3>3
  <2>2. ASSUME UNCHANGED slots PROVE FALSE
    BY <2>2 DEF Listed
  <2>3. ASSUME NEW p \in Callers, NEW c \in Cookies, NEW m \in Modes, PlugReserve(p, c, m)
        PROVE  FALSE
    <3>1. \A j \in Indexes : slots[j].used => slots'[j] = slots[j]
      BY <2>3, ReserveEffect
    <3> QED BY <3>1 DEF Listed
  <2>4. ASSUME NEW p \in Callers, StoreArrival(p) PROVE FALSE
    <3>1. /\ slots'[index[p]].used /\ slots'[index[p]].arrived
          /\ \A j \in Indexes : j # index[p] => slots'[j] = slots[j]
      BY <2>4, StoreEffect DEF CallInv
    <3> QED BY <3>1 DEF Listed
  <2>5. ASSUME NEW p \in Callers, Rollback(p) PROVE FALSE
    BY <2>5 DEF Rollback, OwnReservation, Listed, CallInv, PlugShape, PlugPcs
  <2>6. ASSUME SetActiveMonitors PROVE FALSE
    <3>1. \A j \in Indexes : /\ slots'[j].used = slots[j].used
                             /\ slots'[j].arrived = slots[j].arrived
      BY <2>6, ActiveEffect
    <3> QED BY <3>1 DEF Listed
  <2>7. ASSUME \/ UNCHANGED vars
               \/ \E ok \in BOOLEAN : OnAdapterInitFinished(ok)
               \/ \E p \in Callers, c \in Cookies : PlugRefused(p, c)
               \/ \E p \in Callers, c \in Cookies \cup {None} : UnplugNotFound(p, c)
               \/ \E p \in Callers : CallStep(p) /\ ~StoreArrival(p) /\ ~Rollback(p)
               \/ \E S \in SUBSET Monitors : CommitModes(S)
        PROVE  FALSE
    BY <2>2, <2>7
    DEF vars, CallStep, PlugStep, UnplugStep, OnAdapterInitFinished, PlugRefused,
        UnplugNotFound, CopyEdid, MonitorCreate, AttachContext, MonitorArrival,
        StaleArrival, UndoArrival, DepartNext, UnplugDone, Return, CommitModes
  <2> QED
    BY <2>1, <2>3, <2>4, <2>5, <2>6, <2>7 DEF Next, TableNext, NewCall
<1> QED BY Invariant, <1>1, PTL DEF Spec, OnlyUnplugDelists
=============================================================================
