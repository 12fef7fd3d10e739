--------------------------- MODULE RegistryProofs ---------------------------
(***************************************************************************)
(* VddSlots implements the safety part of MonitorRegistry: every step of   *)
(* the table is a step of the registry that clients see, or none.          *)
(***************************************************************************)
EXTENDS VddSlotsProofs

\* The refinement mapping.
Reg == [i \in Indexes |-> EntryOf(slots[i])]
Calls == [p \in Callers |-> CallOf(p)]

-----------------------------------------------------------------------------
(* Entries and calls are told apart by their fields.                       *)

LEMMA EntryCases ==
  ASSUME NEW s
  PROVE  /\ ~s.used => EntryOf(s) = Registry!Free
         /\ s.used /\ ~s.arrived => EntryOf(s) = Registry!Reserved(s.cookie)
         /\ s.used /\ s.arrived => EntryOf(s) = Registry!ListedAs(s.cookie)
BY DEF EntryOf, Registry!Free, Registry!Reserved, Registry!ListedAs

LEMMA EntriesDiffer ==
  ASSUME NEW c, NEW d
  PROVE  /\ Registry!Reserved(c) # Registry!Free
         /\ Registry!ListedAs(c) # Registry!Free
         /\ Registry!Reserved(c) # Registry!ListedAs(d)
         /\ Registry!Reserved(c) = Registry!Reserved(d) => c = d
         /\ Registry!ListedAs(c) = Registry!ListedAs(d) => c = d
<1>1. Registry!Reserved(c).state = "reserved" /\ Registry!Reserved(c).cookie = c
  BY DEF Registry!Reserved
<1>2. Registry!Reserved(d).cookie = d
  BY DEF Registry!Reserved
<1>3. /\ Registry!ListedAs(c).state = "listed" /\ Registry!ListedAs(c).cookie = c
      /\ Registry!ListedAs(d).state = "listed" /\ Registry!ListedAs(d).cookie = d
  BY DEF Registry!ListedAs
<1>4. Registry!Free.state = "absent"
  BY DEF Registry!Free
<1> QED BY <1>1, <1>2, <1>3, <1>4

\* Who answers to a cookie, and which connectors are taken, as the table has it.
LEMMA AnsweringSlots ==
  /\ \A c : Registry!Answering(c) = {i \in Indexes : slots[i].used /\ slots[i].cookie = c}
  /\ Registry!Present = {i \in Indexes : slots[i].used}
<1>1. ASSUME NEW i \in Indexes
      PROVE  /\ Reg[i] # Registry!Free <=> slots[i].used
             /\ \A c : Reg[i] \in {Registry!Reserved(c), Registry!ListedAs(c)}
                         <=> slots[i].used /\ slots[i].cookie = c
  <2>1. Reg[i] = EntryOf(slots[i])
    BY DEF Reg
  <2>2. CASE ~slots[i].used
    BY <2>1, <2>2, EntryCases, EntriesDiffer
  <2>3. CASE slots[i].used /\ ~slots[i].arrived
    BY <2>1, <2>3, EntryCases, EntriesDiffer
  <2>4. CASE slots[i].used /\ slots[i].arrived
    BY <2>1, <2>4, EntryCases, EntriesDiffer
  <2> QED BY <2>2, <2>3, <2>4
<1>2. ASSUME NEW c
      PROVE  Registry!Answering(c) = {i \in Indexes : slots[i].used /\ slots[i].cookie = c}
  BY <1>1 DEF Registry!Answering, Reg
<1> QED BY <1>1, <1>2 DEF Registry!Present, Reg

LEMMA CallCases ==
  ASSUME NEW p \in Callers
  PROVE  /\ pc[p] \in PlugPcs => Calls[p] = Registry!Plugging(index[p], params[p].cookie)
         /\ pc[p] = "depart" => Calls[p] = Registry!Unplugging
         /\ pc[p] \in {"idle", "return"} => Calls[p] = Registry!NoCall
BY DEF Calls, CallOf, PlugPcs, Registry!Plugging, Registry!Unplugging, Registry!NoCall

\* A step of one thread changes that thread's call only.
LEMMA CallUpdate ==
  ASSUME NEW p \in Callers,
         \A q \in Callers \ {p} :
           pc'[q] = pc[q] /\ index'[q] = index[q] /\ params'[q] = params[q]
  PROVE  Calls' = [Calls EXCEPT ![p] = Calls'[p]]
<1>1. ASSUME NEW q \in Callers \ {p} PROVE CallOf(q)' = CallOf(q)
  BY <1>1 DEF CallOf
<1> QED BY <1>1 DEF Calls

\* A slot that keeps these three fields keeps its entry.
LEMMA EntryFrame ==
  ASSUME \A i \in Indexes : /\ slots'[i].used <=> slots[i].used
                            /\ slots'[i].arrived <=> slots[i].arrived
                            /\ slots'[i].cookie = slots[i].cookie
  PROVE  Reg' = Reg
<1>1. ASSUME NEW i \in Indexes PROVE EntryOf(slots'[i]) = EntryOf(slots[i])
  BY <1>1 DEF EntryOf
<1> QED BY <1>1 DEF Reg

\* If one slot changes, only its entry does.
LEMMA OneEntry ==
  ASSUME NEW i \in Indexes, \A j \in Indexes : j # i => slots'[j] = slots[j]
  PROVE  Reg' = [Reg EXCEPT ![i] = EntryOf(slots'[i])]
BY DEF Reg

-----------------------------------------------------------------------------
(* The steps that clients see.                                             *)

LEMMA ReserveImplements ==
  ASSUME IInv, NEW p \in Callers, NEW c \in Cookies, NEW m \in Modes, PlugReserve(p, c, m)
  PROVE  Registry!Reserve(p, c)
<1> DEFINE i == index'[p]
<1>1. /\ i \in Indexes /\ ~slots[i].used
      /\ slots'[i].used /\ ~slots'[i].arrived /\ slots'[i].cookie = c
      /\ \A j \in Indexes : j # i => slots'[j] = slots[j]
  BY ReserveEffect DEF IInv
<1>2. Registry!Answering(c) = {} /\ i \in Indexes \ Registry!Present
  BY <1>1, AnsweringSlots DEF PlugReserve, Accepts, CookieUsed
<1>3. Reg' = [Reg EXCEPT ![i] = Registry!Reserved(c)]
  BY <1>1, OneEntry, EntryCases
<1>4. Calls[p] = Registry!NoCall
  BY CallCases DEF PlugReserve
<1>5. pc'[p] = "copy" /\ params'[p].cookie = c
  BY DEF PlugReserve, IInv, TypeOK
<1>6. Calls'[p] = Registry!Plugging(i, c)
  BY <1>5 DEF Calls, CallOf, PlugPcs, Registry!Plugging
<1>7. Calls' = [Calls EXCEPT ![p] = Calls'[p]]
  BY CallUpdate DEF PlugReserve, IInv, TypeOK
<1>8. Calls' = [Calls EXCEPT ![p] = Registry!Plugging(i, c)]
  BY <1>6, <1>7
<1> HIDE DEF i
<1> QED BY <1>2, <1>3, <1>4, <1>8 DEF Registry!Reserve, Reg, Calls

\* A plug's last step ends its call.
LEMMA PlugEnds ==
  ASSUME TypeOK, NEW p \in Callers, PlugOver(p)
  PROVE  Calls' = [Calls EXCEPT ![p] = Registry!NoCall]
<1>1. pc'[p] = "return"
  BY DEF PlugOver, TypeOK
<1>2. Calls'[p] = Registry!NoCall
  BY <1>1 DEF Calls, CallOf, PlugPcs, Registry!NoCall
<1>3. Calls' = [Calls EXCEPT ![p] = Calls'[p]]
  BY CallUpdate DEF PlugOver, TypeOK
<1> QED BY <1>2, <1>3

LEMMA StoreImplements ==
  ASSUME IInv, NEW p \in Callers, StoreArrival(p)
  PROVE  Registry!Arrive(p)
<1>1. /\ index[p] \in Indexes /\ params[p].cookie \in Cookies
      /\ Calls[p] = Registry!Plugging(index[p], params[p].cookie)
  BY CallCases DEF StoreArrival, IInv, CallInv, PlugShape, PlugPcs
<1> PICK i \in Indexes, d \in Cookies : i = index[p] /\ d = params[p].cookie
  BY <1>1
<1>2. slots[i].used /\ ~slots[i].arrived /\ slots[i].cookie \in Cookies
  BY DEF StoreArrival, StillReserved, IInv, TableInv, SlotShape
<1> PICK c \in Cookies : c = slots[i].cookie
  BY <1>2
<1>3. /\ slots'[i].used /\ slots'[i].arrived /\ slots'[i].cookie = c
      /\ \A j \in Indexes : j # i => slots'[j] = slots[j]
  BY StoreEffect DEF IInv, CallInv
<1>4. Reg[i] = Registry!Reserved(c)
  BY <1>2, EntryCases DEF Reg
<1>5. Reg' = [Reg EXCEPT ![i] = Registry!ListedAs(c)]
  BY <1>3, OneEntry, EntryCases
<1>6. Calls' = [Calls EXCEPT ![p] = Registry!NoCall]
  BY PlugEnds DEF StoreArrival, IInv
<1> QED BY <1>1, <1>4, <1>5, <1>6 DEF Registry!Arrive, Reg, Calls

LEMMA RollbackImplements ==
  ASSUME IInv, NEW p \in Callers, Rollback(p)
  PROVE  Registry!Abandon(p)
<1>1. /\ index[p] \in Indexes /\ params[p].cookie \in Cookies
      /\ Calls[p] = Registry!Plugging(index[p], params[p].cookie)
  BY CallCases DEF Rollback, IInv, CallInv, PlugShape, PlugPcs
<1> PICK i \in Indexes, c \in Cookies : i = index[p] /\ c = params[p].cookie
  BY <1>1
<1>2. OwnReservation(p) <=> Reg[i] = Registry!Reserved(c)
  <2>1. Reg[i] = EntryOf(slots[i])
    BY DEF Reg
  <2>2. CASE ~slots[i].used
    BY <2>1, <2>2, EntryCases, EntriesDiffer DEF OwnReservation
  <2>3. CASE slots[i].used /\ ~slots[i].arrived
    BY <2>1, <2>3, EntryCases, EntriesDiffer DEF OwnReservation
  <2>4. CASE slots[i].used /\ slots[i].arrived
    BY <2>1, <2>4, EntryCases, EntriesDiffer DEF OwnReservation
  <2> QED BY <2>2, <2>3, <2>4
<1>3. Reg' = IF OwnReservation(p) THEN [Reg EXCEPT ![i] = Registry!Free] ELSE Reg
  <2>1. CASE OwnReservation(p)
    <3>1. slots' = [slots EXCEPT ![i] = EmptySlot]
      BY <2>1 DEF Rollback
    <3>2. ~slots'[i].used /\ \A j \in Indexes : j # i => slots'[j] = slots[j]
      BY <3>1, EmptyFields DEF IInv, TypeOK
    <3> QED BY <2>1, <3>2, OneEntry, EntryCases
  <2>2. CASE ~OwnReservation(p)
    BY <2>2 DEF Rollback, Reg
  <2> QED BY <2>1, <2>2
<1>4. Calls' = [Calls EXCEPT ![p] = Registry!NoCall]
  BY PlugEnds DEF Rollback, IInv
<1> QED BY <1>1, <1>2, <1>3, <1>4 DEF Registry!Abandon, Reg, Calls

LEMMA UnplugImplements ==
  ASSUME IInv, NEW p \in Callers, NEW c \in Cookies \cup {None}, UnplugClear(p, c)
  PROVE  \/ Registry!Remove(p, Registry!Present)
         \/ /\ c \in Cookies /\ Registry!Answering(c) # {}
            /\ Registry!Remove(p, Registry!Answering(c))
<1>1. /\ Calls[p] = Registry!NoCall
      /\ Calls' = [Calls EXCEPT ![p] = Registry!Unplugging]
  <2>1. pc[p] = "idle" /\ pc'[p] = "depart"
    BY DEF UnplugClear, IInv, TypeOK
  <2>2. Calls'[p] = Registry!Unplugging
    BY <2>1 DEF Calls, CallOf, PlugPcs, Registry!Unplugging
  <2>3. Calls' = [Calls EXCEPT ![p] = Calls'[p]]
    BY CallUpdate DEF UnplugClear, IInv, TypeOK
  <2> QED BY <2>1, <2>2, <2>3, CallCases
<1>2. \A S : S = Matching(c) => Registry!Remove(p, S)
  <2>1. \A i \in Indexes : slots'[i] = IF i \in Matching(c) THEN EmptySlot ELSE slots[i]
    BY DEF UnplugClear
  <2>2. ASSUME NEW i \in Indexes
        PROVE  EntryOf(slots'[i]) = IF i \in Matching(c) THEN Registry!Free
                                                         ELSE EntryOf(slots[i])
    BY <2>1, EmptyFields, EntryCases
  <2>3. Reg' = [i \in Indexes |-> IF i \in Matching(c) THEN Registry!Free ELSE Reg[i]]
    BY <2>2 DEF Reg
  <2> QED BY <1>1, <2>3 DEF Registry!Remove, Reg, Calls
<1>3. CASE c = None
  <2>1. Matching(c) = Registry!Present
    BY <1>3, AnsweringSlots DEF Matching
  <2> QED BY <1>2, <2>1
<1>4. CASE c # None
  <2>1. Matching(c) = Registry!Answering(c) /\ Matching(c) # {} /\ c \in Cookies
    BY <1>4, AnsweringSlots DEF Matching, UnplugClear
  <2> QED BY <1>2, <2>1
<1> QED BY <1>3, <1>4

LEMMA UnplugEnds ==
  ASSUME IInv, NEW p \in Callers, UnplugDone(p)
  PROVE  Registry!Removed(p)
<1>1. pc[p] = "depart" /\ pc'[p] = "return"
  BY DEF UnplugDone, IInv, TypeOK
<1>2. Calls'[p] = Registry!NoCall
  BY <1>1 DEF Calls, CallOf, PlugPcs, Registry!NoCall
<1>3. Calls' = [Calls EXCEPT ![p] = Calls'[p]]
  BY CallUpdate DEF UnplugDone, locals, IInv, TypeOK
<1>4. Reg' = Reg
  BY DEF UnplugDone, Reg
<1>5. Calls[p] = Registry!Unplugging
  BY <1>1, CallCases
<1> QED BY <1>2, <1>3, <1>4, <1>5 DEF Registry!Removed, Reg, Calls

-----------------------------------------------------------------------------
(* The steps that they do not.                                             *)

\* Between a plug's reservation and its last step the call and its slot stay,
\* whichever way the calls into the OS go.
LEMMA InsidePlug ==
  ASSUME IInv, NEW p \in Callers,
         \/ CopyEdid(p) \/ MonitorCreate(p) \/ AttachContext(p)
         \/ MonitorArrival(p) \/ StaleArrival(p) \/ UndoArrival(p)
  PROVE  Reg' = Reg /\ Calls' = Calls
<1>1. /\ slots' = slots /\ index' = index /\ params' = params
      /\ pc[p] \in PlugPcs /\ pc'[p] \in PlugPcs
      /\ \A q \in Callers \ {p} : pc'[q] = pc[q]
  BY DEF CopyEdid, MonitorCreate, AttachContext, MonitorArrival, StaleArrival, UndoArrival,
         OsError, locals, PlugPcs, IInv, TypeOK
<1>2. ASSUME NEW q \in Callers PROVE CallOf(q)' = CallOf(q)
  BY <1>1 DEF CallOf
<1> QED BY <1>1, <1>2 DEF Reg, Calls

\* A refused request and the return of a finished one.
LEMMA OutsideCalls ==
  ASSUME IInv, NEW p \in Callers,
         \/ \E c \in Cookies : PlugRefused(p, c)
         \/ \E c \in Cookies \cup {None} : UnplugNotFound(p, c)
         \/ Return(p)
  PROVE  Reg' = Reg /\ Calls' = Calls
<1>1. /\ slots' = slots /\ index' = index /\ params' = params
      /\ pc[p] \in {"idle", "return"} /\ pc'[p] \in {"idle", "return"}
      /\ \A q \in Callers \ {p} : pc'[q] = pc[q]
  BY DEF PlugRefused, UnplugNotFound, Return, IInv, TypeOK
<1>2. ASSUME NEW q \in Callers PROVE CallOf(q)' = CallOf(q)
  BY <1>1 DEF CallOf, PlugPcs
<1> QED BY <1>1, <1>2 DEF Reg, Calls

LEMMA NoCallMoves ==
  ASSUME UNCHANGED <<slots, pc, index, params>> PROVE Reg' = Reg /\ Calls' = Calls
BY DEF Reg, Calls, CallOf

-----------------------------------------------------------------------------

\* Every step of the table is a step of the registry, or changes none of it.
LEMMA StepImplements ==
  ASSUME IInv, [Next]_vars
  PROVE  Registry!RegistryNext \/ (Reg' = Reg /\ Calls' = Calls)
<1>1. ASSUME \/ UNCHANGED vars
             \/ \E ok \in BOOLEAN : OnAdapterInitFinished(ok)
             \/ \E S \in SUBSET Monitors : CommitModes(S)
      PROVE  Reg' = Reg /\ Calls' = Calls
  BY <1>1, NoCallMoves DEF vars, locals, OnAdapterInitFinished, CommitModes
<1>2. ASSUME SetActiveMonitors PROVE Reg' = Reg /\ Calls' = Calls
  <2>1. \A i \in Indexes : /\ slots'[i].used = slots[i].used
                           /\ slots'[i].arrived = slots[i].arrived
                           /\ slots'[i].cookie = slots[i].cookie
    BY <1>2, ActiveEffect DEF IInv
  <2>2. UNCHANGED <<pc, index, params>>
    BY <1>2 DEF SetActiveMonitors, locals
  <2> QED BY <2>1, <2>2, EntryFrame DEF Calls, CallOf
<1>3. ASSUME NEW p \in Callers, NewCall(p)
      PROVE  Registry!RegistryNext \/ (Reg' = Reg /\ Calls' = Calls)
  BY <1>3, OutsideCalls, ReserveImplements, UnplugImplements DEF NewCall, Registry!RegistryNext
<1>4. ASSUME NEW p \in Callers, PlugStep(p)
      PROVE  Registry!RegistryNext \/ (Reg' = Reg /\ Calls' = Calls)
  BY <1>4, InsidePlug, StoreImplements, RollbackImplements DEF PlugStep, Registry!RegistryNext
<1>5. ASSUME NEW p \in Callers, DepartNext(p) PROVE Reg' = Reg /\ Calls' = Calls
  BY <1>5, NoCallMoves DEF DepartNext
<1>6. ASSUME NEW p \in Callers, UnplugDone(p) PROVE Registry!RegistryNext
  BY <1>6, UnplugEnds DEF Registry!RegistryNext
<1>7. ASSUME NEW p \in Callers, Return(p) PROVE Reg' = Reg /\ Calls' = Calls
  BY <1>7, OutsideCalls
<1> QED BY <1>1, <1>2, <1>3, <1>4, <1>5, <1>6, <1>7
        DEF Next, TableNext, CallStep, UnplugStep

LEMMA InitImplements == Init => Registry!RegistryInit
<1> SUFFICES ASSUME Init PROVE Registry!RegistryInit
  OBVIOUS
<1>1. \A i \in Indexes : EntryOf(slots[i]) = Registry!Free
  BY EmptyFields, EntryCases DEF Init
<1>2. \A p \in Callers : CallOf(p) = Registry!NoCall
  BY DEF Init, CallOf, PlugPcs, Registry!NoCall
<1> QED BY <1>1, <1>2 DEF Registry!RegistryInit

\* For any number of threads, cookies and slots, what clients can observe of the
\* table is a behaviour of the registry: a connector is reserved only for a cookie
\* that nothing answers to, a failed plug gives back its own reservation and
\* nothing else, and a listed monitor leaves by an unplug of it only.
THEOREM ImplementsRegistrySafety == Spec => Registry!RegistrySafety
<1>1. IInv /\ [Next]_vars => [Registry!RegistryNext]_<<Reg, Calls>>
  BY StepImplements
<1> QED
  BY <1>1, Invariant, InitImplements, PTL
  DEF Spec, Registry!RegistrySafety, Registry!registryVars, Reg, Calls
=============================================================================
