------------------------------ MODULE Watchdog ------------------------------
(***************************************************************************)
(* The optional watchdog of IndirectDeviceContext: clients arm it and      *)
(* refresh it with every successful control call; its thread unplugs all   *)
(* monitors when the deadline passes, and the destructor joins the thread. *)
(*                                                                         *)
(* Time is QueryUnbiasedInterruptTime: it counts while the machine is      *)
(* awake only.  The deadline is kept relative to now (left), and so is the *)
(* end of the thread's wait (waitLeft), so no clock has to be bounded.     *)
(* The slot table is reduced to whether anything is plugged; its detail is *)
(* VddSlots.                                                               *)
(***************************************************************************)
EXTENDS Naturals

CONSTANTS
  Clients,     \* threads serving control requests
  Floor,       \* the 10 s structural floor, in ticks
  MaxDword,    \* MAXDWORD = INFINITE, in ticks
  Timeouts,    \* values SET_WATCHDOG is called with
  MaxSleeps    \* bound: how often the machine sleeps

ASSUME WatchdogAssumption ==
  /\ Floor \in Nat \ {0} /\ MaxDword \in Nat /\ Floor < MaxDword
  /\ Timeouts \subseteq 0 .. MaxDword
  /\ MaxSleeps \in Nat

Infinite == MaxDword

VARIABLES
  timeout,    \* m_WatchdogTimeoutMs, 0 = disarmed
  left,       \* m_WatchdogDeadline - now, 0 once it has passed
  handle,     \* m_WatchdogThread # nullptr (and both events exist)
  wake,       \* m_WatchdogWake, auto-reset
  stop,       \* m_WatchdogStop, manual-reset
  thread,     \* where the watchdog thread is
  waitLeft,   \* what is left of the timeout of its wait
  plugged,    \* some slot is used
  pc,         \* per client thread: between a control call and its refresh
  device,     \* "up", "closing" (destructor waits for the thread) or "gone"
  power,      \* "awake", "asleep", or "resuming" until D0Entry has run
  sleeps,     \* sleeps so far
  quiet       \* history: awake ticks since the deadline was last set

dogVars == <<timeout, left, handle, wake, stop>>
threadVars == <<thread, waitLeft>>
vars == <<dogVars, threadVars, plugged, pc, device, power, sleeps, quiet>>

\* Positions of the thread: before CreateThread, at the top of the loop, about
\* to Unplug(0), in the wait, handling a failed wait, and after return.
Positions == {"none", "check", "fired", "waiting", "failing", "exited"}
Running == {"check", "fired", "waiting", "failing"}

TypeOK ==
  /\ timeout \in 0 .. MaxDword /\ left \in 0 .. MaxDword
  /\ handle \in BOOLEAN /\ wake \in BOOLEAN /\ stop \in BOOLEAN
  /\ thread \in Positions /\ waitLeft \in 0 .. MaxDword
  /\ plugged \in BOOLEAN
  /\ pc \in [Clients -> {"idle", "pet", "dead"}]
  /\ device \in {"up", "closing", "gone"}
  /\ power \in {"awake", "asleep", "resuming"}
  /\ sleeps \in 0 .. MaxSleeps
  /\ quiet \in 0 .. MaxDword

Init ==
  /\ timeout = 0 /\ left = 0
  /\ handle = FALSE /\ wake = FALSE /\ stop = FALSE
  /\ thread = "none" /\ waitLeft = 0
  /\ plugged = FALSE
  /\ pc = [c \in Clients |-> "idle"]
  /\ device = "up"
  /\ power = "awake" /\ sleeps = 0
  /\ quiet = 0

Executing == power # "asleep"      \* no thread runs while the machine sleeps

-----------------------------------------------------------------------------
(* Control calls.  Each is followed by PetWatchdog if it succeeded.        *)

Clamped(t) == IF t # 0 /\ t < Floor THEN Floor ELSE t

\* Mutant: the thread is left to find the new deadline by itself.
SetWatchdog_NoWake(c, t) ==
  /\ Executing /\ device = "up" /\ pc[c] = "idle"
  /\ IF Clamped(t) # 0 /\ ~handle
     THEN handle' = TRUE /\ thread' = "check" ELSE UNCHANGED <<handle, thread>>
  /\ timeout' = Clamped(t) /\ left' = Clamped(t) /\ quiet' = 0
  /\ pc' = [pc EXCEPT ![c] = "pet"]
  /\ UNCHANGED <<wake, stop, waitLeft, plugged, device, power, sleeps>>

\* SET_WATCHDOG: the first arming creates the events and the thread.
SetWatchdog(c, t) ==
  /\ Executing /\ device = "up" /\ pc[c] = "idle"
  /\ IF Clamped(t) # 0 /\ ~handle
     THEN handle' = TRUE /\ thread' = "check"
     ELSE UNCHANGED <<handle, thread>>
  /\ timeout' = Clamped(t)
  /\ left' = Clamped(t)
  /\ wake' = handle'
  /\ quiet' = 0
  /\ pc' = [pc EXCEPT ![c] = "pet"]
  /\ UNCHANGED <<stop, waitLeft, plugged, device, power, sleeps>>

\* PLUG and UNPLUG that succeeded.  (A failed call, SET_WATCHDOG that could
\* not create its thread included, changes nothing and refreshes nothing.)
PlugOrUnplug(c, on) ==
  /\ Executing /\ device = "up" /\ pc[c] = "idle"
  /\ plugged' = on
  /\ pc' = [pc EXCEPT ![c] = "pet"]
  /\ UNCHANGED <<dogVars, threadVars, device, power, sleeps, quiet>>

\* A client that asks for the status or the list changes nothing, and one that
\* stops calling is not heard of again.
Query(c) ==
  /\ Executing /\ device = "up" /\ pc[c] = "idle"
  /\ pc' = [pc EXCEPT ![c] = "pet"]
  /\ UNCHANGED <<dogVars, threadVars, plugged, device, power, sleeps, quiet>>

ClientDies(c) ==
  /\ pc[c] = "idle"
  /\ pc' = [pc EXCEPT ![c] = "dead"]
  /\ UNCHANGED <<dogVars, threadVars, plugged, device, power, sleeps, quiet>>

\* PetWatchdog: no wake, because it only ever moves the deadline further out.
Refresh ==
  /\ IF timeout # 0 THEN left' = timeout /\ quiet' = 0
                    ELSE UNCHANGED <<left, quiet>>
  /\ UNCHANGED <<timeout, handle, wake, stop>>

Pet(c) ==
  /\ Executing /\ pc[c] = "pet"
  /\ Refresh
  /\ pc' = [pc EXCEPT ![c] = "idle"]
  /\ UNCHANGED <<threadVars, plugged, device, power, sleeps>>

-----------------------------------------------------------------------------
(* The watchdog thread.                                                     *)

\* Mutant: no clamp, so the longest timeout is an infinite wait.
WaitTimeout_NoClamp == IF timeout = 0 THEN Infinite ELSE left

\* The timeout of the wait, computed under the lock.
WaitTimeout ==
  IF timeout = 0 THEN Infinite
  ELSE IF left >= MaxDword THEN MaxDword - 1 ELSE left

Expired == timeout # 0 /\ left = 0

\* The locked block at the top of the loop.
Check ==
  /\ Executing /\ thread = "check"
  /\ IF Expired
     THEN /\ timeout' = 0 /\ left' = 0
          /\ thread' = "fired"
          /\ UNCHANGED waitLeft
     ELSE /\ thread' = "waiting"
          /\ waitLeft' = WaitTimeout
          /\ UNCHANGED <<timeout, left>>
  /\ UNCHANGED <<handle, wake, stop, plugged, pc, device, power, sleeps, quiet>>

\* Unplug(0), outside the lock; then around the loop.
UnplugAll ==
  /\ Executing /\ thread = "fired"
  /\ plugged' = FALSE
  /\ thread' = "check"
  /\ UNCHANGED <<dogVars, waitLeft, pc, device, power, sleeps, quiet>>

\* The wait ends: Stop is the first handle and wins over Wake, which is reset
\* by the wait it satisfies; both win over the timeout.
WaitStopped ==
  /\ stop
  /\ thread' = "exited"
  /\ UNCHANGED wake

WaitWoken ==
  /\ ~stop /\ wake
  /\ thread' = "check"
  /\ wake' = FALSE

WaitTimedOut ==
  /\ ~stop /\ ~wake
  /\ waitLeft = 0
  /\ thread' = "check"
  /\ UNCHANGED wake

\* Mutant: the loop only waits for the wake event.
WaitEnds_IgnoringStop ==
  /\ Executing /\ thread = "waiting"
  /\ \/ wake /\ thread' = "check" /\ wake' = FALSE
     \/ WaitTimedOut
  /\ UNCHANGED <<timeout, left, handle, stop, waitLeft, plugged, pc, device,
                 power, sleeps, quiet>>

WaitEnds ==
  /\ Executing /\ thread = "waiting"
  /\ WaitStopped \/ WaitWoken \/ WaitTimedOut
  /\ UNCHANGED <<timeout, left, handle, stop, waitLeft, plugged, pc, device,
                 power, sleeps, quiet>>

WaitFails ==
  /\ Executing /\ thread = "waiting"
  /\ thread' = "failing"
  /\ UNCHANGED <<dogVars, waitLeft, plugged, pc, device, power, sleeps, quiet>>

\* "The thread is dying: disarm."  m_WatchdogThread keeps its value.
DisarmAndExit ==
  /\ Executing /\ thread = "failing"
  /\ timeout' = 0 /\ left' = 0
  /\ thread' = "exited"
  /\ UNCHANGED <<handle, wake, stop, waitLeft, plugged, pc, device, power, sleeps,
                 quiet>>

-----------------------------------------------------------------------------
(* Teardown, power and time.                                                *)

\* ~IndirectDeviceContext, when no request is left: signal Stop, then join.
BeginTeardown ==
  /\ Executing /\ device = "up" /\ power = "awake"
  /\ \A c \in Clients : pc[c] # "pet"
  /\ device' = IF handle THEN "closing" ELSE "gone"
  /\ stop' = handle
  /\ UNCHANGED <<timeout, left, handle, wake, threadVars, plugged, pc, power,
                 sleeps, quiet>>

\* Mutant: the destructor does not wait.
Joined_AtOnce == TRUE

Joined == thread = "exited"

EndTeardown ==
  /\ Executing /\ device = "closing"
  /\ Joined
  /\ device' = "gone"
  /\ handle' = FALSE
  /\ UNCHANGED <<timeout, left, wake, stop, threadVars, plugged, pc, power, sleeps,
                 quiet>>

Sleep ==
  /\ power = "awake" /\ device = "up" /\ sleeps < MaxSleeps
  /\ power' = "asleep"
  /\ sleeps' = sleeps + 1
  /\ UNCHANGED <<dogVars, threadVars, plugged, pc, device, quiet>>

Resume ==
  /\ power = "asleep"
  /\ power' = "resuming"
  /\ UNCHANGED <<dogVars, threadVars, plugged, pc, device, sleeps, quiet>>

\* EvtDeviceD0Entry refreshes the deadline, some time after threads run again.
D0Entry ==
  /\ power = "resuming"
  /\ Refresh
  /\ power' = "awake"
  /\ UNCHANGED <<threadVars, plugged, pc, device, sleeps>>

\* Mutant: the remaining time is computed without looking at its sign.
Less_Signed(n) == n - 1

Less(n) == IF n = 0 THEN 0 ELSE n - 1

\* Mutant: GetTickCount64, which keeps counting through sleep: the wait does
\* not see that time, the deadline does.
Tick_Biased ==
  /\ left > 0 \/ (thread = "waiting" /\ waitLeft \notin {0, Infinite})
  /\ left' = Less(left)
  /\ waitLeft' = IF power # "asleep" /\ thread = "waiting" /\ waitLeft # Infinite
                 THEN Less(waitLeft) ELSE waitLeft
  /\ quiet' = IF quiet < MaxDword /\ power # "asleep" THEN quiet + 1 ELSE quiet
  /\ UNCHANGED <<timeout, handle, wake, stop, thread, plugged, pc, device, power,
                 sleeps>>

\* One tick of awake time.  It stops mattering once nothing is counting.
Tick ==
  /\ Executing
  /\ left > 0 \/ (thread = "waiting" /\ waitLeft \notin {0, Infinite})
  /\ left' = Less(left)
  /\ waitLeft' = IF thread = "waiting" /\ waitLeft # Infinite
                 THEN Less(waitLeft) ELSE waitLeft
  /\ quiet' = IF quiet < MaxDword THEN quiet + 1 ELSE quiet
  /\ UNCHANGED <<timeout, handle, wake, stop, thread, plugged, pc, device, power,
                 sleeps>>

-----------------------------------------------------------------------------

ThreadStep == Check \/ UnplugAll \/ WaitEnds \/ DisarmAndExit

ClientCall(c) ==
  \/ \E t \in Timeouts : SetWatchdog(c, t)
  \/ \E on \in BOOLEAN : PlugOrUnplug(c, on)
  \/ Query(c)
  \/ ClientDies(c)

PowerStep == Sleep \/ Resume \/ D0Entry

Next ==
  \/ \E c \in Clients : ClientCall(c) \/ Pet(c)
  \/ ThreadStep
  \/ WaitFails
  \/ BeginTeardown \/ EndTeardown
  \/ PowerStep
  \/ Tick

\* Threads are scheduled, awake time passes, a sleeping machine resumes and
\* D0Entry follows.  No client has to call, and no wait has to fail.
Fairness ==
  /\ WF_vars(ThreadStep)
  /\ \A c \in Clients : WF_vars(Pet(c))
  /\ WF_vars(EndTeardown)
  /\ WF_vars(Resume \/ D0Entry)
  /\ WF_vars(Tick)

Spec == Init /\ [][Next]_vars /\ Fairness

-----------------------------------------------------------------------------
(* Correctness.                                                             *)

\* The thread never oversleeps: while it waits with nothing to wake it, an
\* armed deadline is not before the end of the wait.  A pet sends no wake, so
\* this is what makes "a pet only ever moves the deadline further out" enough,
\* and what the wait clamp and SET_WATCHDOG's wake are for.
NeverOversleeps ==
  thread = "waiting" /\ timeout # 0 /\ ~wake /\ ~stop =>
    waitLeft # Infinite /\ waitLeft <= left

\* The watchdog fires only after a full floor, and a full timeout, of awake
\* time without a successful control call, a re-arming or a resume.
FiresOnlyWhenQuiet ==
  [][Check /\ Expired => quiet >= Floor /\ quiet >= timeout]_vars

\* When the destructor has returned, the thread is gone: it cannot touch the
\* freed context or its closed events.
NoThreadAfterTeardown == device = "gone" => thread \notin Running

\* The destructor returns.
TeardownEnds == device = "closing" ~> device = "gone"

Silent == \A c \in Clients : pc[c] = "dead"

\* The point of the watchdog: if it is armed when the last client dies, the
\* monitors go, whatever sleeps and pets came before - unless the device goes
\* first or the thread's wait fails.
SilenceUnplugs ==
  Silent /\ timeout # 0 /\ plugged ~>
    ~plugged \/ device # "up" \/ thread \in {"failing", "exited"}
=============================================================================
