--------------------------- MODULE WatchdogProofs ---------------------------
(***************************************************************************)
(* The safety properties of Watchdog, proved for every number of clients   *)
(* and sleeps, every floor and every set of timeouts up to MAXDWORD.       *)
(***************************************************************************)
EXTENDS Watchdog, TLAPS

-----------------------------------------------------------------------------
(* The inductive invariant.                                                *)

\* An armed timeout is not below the floor, the deadline is at most one timeout
\* away, and the time since it was set is what is missing.
DeadlineInv ==
  /\ left <= timeout
  /\ timeout # 0 => timeout >= Floor /\ quiet + left >= timeout

\* A running thread has its handle and its context.
ThreadInv == thread \in Running => handle /\ device # "gone"

IInv == TypeOK /\ DeadlineInv /\ ThreadInv /\ NeverOversleeps

LEMMA InvInit == Init => IInv
<1> SUFFICES ASSUME Init PROVE IInv
  OBVIOUS
<1> USE WatchdogAssumption DEF Init
<1>1. TypeOK
  <2>1. 0 \in 0 .. MaxDword /\ 0 \in 0 .. MaxSleeps
    OBVIOUS
  <2>2. pc \in [Clients -> {"idle", "pet", "dead"}]
    OBVIOUS
  <2> QED BY <2>1, <2>2 DEF TypeOK, Positions
<1>2. DeadlineInv /\ ThreadInv /\ NeverOversleeps
  BY DEF DeadlineInv, ThreadInv, NeverOversleeps, Running
<1> QED BY <1>1, <1>2 DEF IInv

\* PetWatchdog and D0Entry move the deadline out, never in.
LEMMA RefreshOut ==
  ASSUME TypeOK, DeadlineInv, Refresh
  PROVE  /\ left \in Nat /\ left' \in 0 .. MaxDword /\ left <= left'
         /\ DeadlineInv'
         /\ quiet' \in 0 .. MaxDword
BY WatchdogAssumption DEF TypeOK, DeadlineInv, Refresh

LEMMA ClampedType ==
  ASSUME NEW t \in Timeouts
  PROVE  Clamped(t) \in 0 .. MaxDword /\ (Clamped(t) # 0 => Clamped(t) >= Floor)
BY WatchdogAssumption DEF Clamped

LEMMA InvStep == IInv /\ [Next]_vars => IInv'
<1> SUFFICES ASSUME IInv, [Next]_vars PROVE IInv'
  OBVIOUS
<1> USE WatchdogAssumption
    DEF IInv, TypeOK, NeverOversleeps, ThreadInv, dogVars, threadVars, Positions, Running,
        Infinite
<1>1. CASE UNCHANGED vars
  BY <1>1 DEF vars, DeadlineInv
<1>2. ASSUME NEW c \in Clients, NEW t \in Timeouts, SetWatchdog(c, t) PROVE IInv'
  <2>1. Clamped(t) \in 0 .. MaxDword /\ (Clamped(t) # 0 => Clamped(t) >= Floor)
    BY ClampedType
  <2>2. /\ timeout' = Clamped(t) /\ left' = Clamped(t) /\ quiet' = 0
        /\ wake' = handle' /\ handle' \in BOOLEAN
        /\ Clamped(t) # 0 => handle'
        /\ handle => handle'
        /\ thread' = thread \/ (thread' = "check" /\ handle')
    <3>1. CASE Clamped(t) # 0 /\ ~handle
      BY <1>2, <3>1 DEF SetWatchdog
    <3>2. CASE ~(Clamped(t) # 0 /\ ~handle)
      BY <1>2, <3>2 DEF SetWatchdog
    <3> QED BY <3>1, <3>2
  <2>3. TypeOK'
    BY <1>2, <2>1, <2>2 DEF SetWatchdog
  <2>4. DeadlineInv'
    BY <2>1, <2>2 DEF DeadlineInv
  <2>5. ThreadInv' /\ NeverOversleeps'
    BY <1>2, <2>2 DEF SetWatchdog
  <2> QED BY <2>3, <2>4, <2>5
<1>3. ASSUME NEW c \in Clients, NEW on \in BOOLEAN, PlugOrUnplug(c, on) PROVE IInv'
  BY <1>3 DEF PlugOrUnplug, DeadlineInv
<1>4. ASSUME NEW c \in Clients, Query(c) \/ ClientDies(c) PROVE IInv'
  BY <1>4 DEF Query, ClientDies, DeadlineInv
<1>5. ASSUME NEW c \in Clients, Pet(c) PROVE IInv'
  <2>1. DeadlineInv' /\ left <= left' /\ left' \in 0 .. MaxDword /\ quiet' \in 0 .. MaxDword
    BY <1>5, RefreshOut DEF Pet
  <2> QED BY <1>5, <2>1 DEF Pet, Refresh
<1>6. ASSUME Check PROVE IInv'
  BY <1>6 DEF Check, Expired, WaitTimeout, DeadlineInv
<1>7. ASSUME UnplugAll PROVE IInv'
  BY <1>7 DEF UnplugAll, DeadlineInv
<1>8. ASSUME WaitEnds PROVE IInv'
  BY <1>8 DEF WaitEnds, WaitStopped, WaitWoken, WaitTimedOut, DeadlineInv
<1>9. ASSUME WaitFails \/ DisarmAndExit PROVE IInv'
  BY <1>9 DEF WaitFails, DisarmAndExit, DeadlineInv
<1>10. ASSUME BeginTeardown PROVE IInv'
  BY <1>10 DEF BeginTeardown, DeadlineInv
<1>11. ASSUME EndTeardown PROVE IInv'
  BY <1>11 DEF EndTeardown, Joined, DeadlineInv
<1>12. ASSUME Sleep \/ Resume PROVE IInv'
  BY <1>12 DEF Sleep, Resume, DeadlineInv
<1>13. ASSUME D0Entry PROVE IInv'
  <2>1. DeadlineInv' /\ left <= left' /\ left' \in 0 .. MaxDword /\ quiet' \in 0 .. MaxDword
    BY <1>13, RefreshOut DEF D0Entry
  <2> QED BY <1>13, <2>1 DEF D0Entry, Refresh
<1>14. ASSUME Tick PROVE IInv'
  BY <1>14 DEF Tick, Less, DeadlineInv
<1> QED
  BY <1>1, <1>2, <1>3, <1>4, <1>5, <1>6, <1>7, <1>8, <1>9, <1>10, <1>11, <1>12, <1>13,
     <1>14
  DEF Next, ClientCall, ThreadStep, PowerStep

LEMMA Invariant == Spec => []IInv
BY InvInit, InvStep, PTL DEF Spec

-----------------------------------------------------------------------------
(* The properties.                                                         *)

\* Type correctness of the watchdog.
THEOREM TypeCorrect == Spec => []TypeOK
<1>1. IInv => TypeOK
  BY DEF IInv
<1> QED BY Invariant, <1>1, PTL

\* The pet that sends no wake is enough: a sleeping thread always wakes before
\* an armed deadline, however it was armed, refreshed and slept through.
THEOREM NeverLate == Spec => []NeverOversleeps
<1>1. IInv => NeverOversleeps
  BY DEF IInv
<1> QED BY Invariant, <1>1, PTL

\* The destructor does not free a context the thread still uses.
THEOREM TeardownIsSafe == Spec => []NoThreadAfterTeardown
<1>1. IInv => NoThreadAfterTeardown
  BY DEF IInv, ThreadInv, NoThreadAfterTeardown
<1> QED BY Invariant, <1>1, PTL

\* The watchdog fires after a whole timeout of awake silence, never sooner.
THEOREM FiresLateEnough == Spec => FiresOnlyWhenQuiet
<1> DEFINE Quiet == Check /\ Expired => quiet >= Floor /\ quiet >= timeout
<1>1. IInv => Quiet
  BY WatchdogAssumption DEF IInv, TypeOK, DeadlineInv, Expired
<1>2. IInv /\ [Next]_vars => [Quiet]_vars
  BY <1>1
<1> QED BY Invariant, <1>2, PTL DEF Spec, FiresOnlyWhenQuiet
=============================================================================
