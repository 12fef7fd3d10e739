----------------------------- MODULE SwapChain ------------------------------
(***************************************************************************)
(* One monitor's swap-chains: IndirectMonitorContext, which the OS calls   *)
(* with AssignSwapChain and UnassignSwapChain, and one SwapChainProcessor  *)
(* with a worker thread per accepted chain.                                *)
(*                                                                         *)
(* The context's m_Lock covers single blocks that never call out, so each  *)
(* is one action; everything a thread does outside it is a step of its own *)
(* that interleaves with every other thread: WdfObjectDelete may re-enter  *)
(* the driver with an Unassign, which here is one more callback running.   *)
(* Creating the D3D device cannot be cancelled and may never return.       *)
(*                                                                         *)
(* A processor is named by the chain it was created for; every offer of a  *)
(* chain is a new member of Chains.                                        *)
(***************************************************************************)
EXTENDS Naturals, FiniteSets

CONSTANTS
  Chains,      \* swap-chains the OS offers, one after the other
  Callbacks,   \* OS threads that may be inside Assign or Unassign at once
  None

ASSUME SwapChainAssumption == None \notin Chains /\ IsFiniteSet(Callbacks)

VARIABLES
  chain,      \* the OS object: unused, offered, owned, refused, deleted; "bad"
              \* once the driver did to it what it may not
  current,    \* m_ProcessingThread
  phase,      \* m_Phase of each processor
  term,       \* m_hTerminateEvent is set
  gone,       \* m_SwapChainDeleted
  refs,       \* m_RefCount, 0 = deleted or never created
  pin,        \* the worker's reference to the driver module
  worker,     \* where each worker thread is
  pc,         \* where each callback thread is
  arg,        \* the chain it was called with, Assign only
  work,       \* the processor it stops (Old, or Unassign's Processor)
  retired,    \* the processor it only releases (Retired)
  closed      \* the monitor object has been cleaned up

procVars == <<phase, term, gone, refs, pin>>
cbVars == <<pc, arg, work, retired>>
vars == <<chain, current, procVars, worker, cbVars, closed>>

Phases == {"AwaitingCommit", "Initializing", "Processing", "StopRequested", "Finished"}

WorkerPcs == {"none", "wait", "poll1", "d3d", "enter", "poll2", "core",
              "delete", "deleting", "finish", "release", "exit", "ended"}

CallbackPcs == {"idle", "retire", "signal", "claim", "delete", "deleting",
                "drop", "return"}

Max2 == Cardinality(Callbacks) + 2     \* bound on references, for TypeOK

TypeOK ==
  /\ chain \in [Chains -> {"unused", "offered", "owned", "refused", "deleted", "bad"}]
  /\ current \in Chains \cup {None}
  /\ phase \in [Chains -> Phases]
  /\ term \in [Chains -> BOOLEAN] /\ gone \in [Chains -> BOOLEAN]
  /\ refs \in [Chains -> 0 .. Max2]
  /\ pin \in [Chains -> BOOLEAN]
  /\ worker \in [Chains -> WorkerPcs]
  /\ pc \in [Callbacks -> CallbackPcs]
  /\ arg \in [Callbacks -> Chains \cup {None}]
  /\ work \in [Callbacks -> Chains \cup {None}]
  /\ retired \in [Callbacks -> Chains \cup {None}]
  /\ closed \in BOOLEAN

Init ==
  /\ chain = [c \in Chains |-> "unused"]
  /\ current = None
  /\ phase = [c \in Chains |-> "AwaitingCommit"]
  /\ term = [c \in Chains |-> FALSE]
  /\ gone = [c \in Chains |-> FALSE]
  /\ refs = [c \in Chains |-> 0]
  /\ pin = [c \in Chains |-> FALSE]
  /\ worker = [c \in Chains |-> "none"]
  /\ pc = [t \in Callbacks |-> "idle"]
  /\ arg = [t \in Callbacks |-> None]
  /\ work = [t \in Callbacks |-> None]
  /\ retired = [t \in Callbacks |-> None]
  /\ closed = FALSE

-----------------------------------------------------------------------------
(* Pieces of SwapChainProcessor.                                            *)

\* WdfObjectDelete(m_hSwapChain): legal once, on a chain the driver accepted.
WdfDelete(c) ==
  chain' = [chain EXCEPT ![c] = IF @ = "owned" THEN "deleted" ELSE "bad"]

\* Mutant: each side deletes without looking whether the other did.
ClaimDeletion_Always(c, won, lost) == gone' = [gone EXCEPT ![c] = TRUE] /\ won

\* m_SwapChainDeleted.exchange(true): the side that read FALSE deletes.
ClaimDeletion(c, won, lost) ==
  /\ gone' = [gone EXCEPT ![c] = TRUE]
  /\ IF gone[c] THEN lost ELSE won

\* Mutants: Stop leaves a processor whose device is being created alone, or
\* takes the chain even from a worker that is processing frames.
StopClaims_AwaitingOnly(c) == phase[c] = "AwaitingCommit"
StopClaims_Processing(c) ==
  phase[c] \in {"AwaitingCommit", "Initializing", "Processing"}

\* Stop's compare-exchange loop succeeds: the worker has not reached RunCore.
StopClaims(c) == phase[c] \in {"AwaitingCommit", "Initializing"}

-----------------------------------------------------------------------------
(* AssignSwapChain.                                                         *)

\* IddCx offers a chain while the monitor exists.  A refused one is its own
\* again, and offering it once more stands for any later retry.
Offer(t, c) ==
  /\ ~closed
  /\ pc[t] = "idle" /\ arg[t] = None
  /\ chain[c] \in {"unused", "refused"}
  /\ chain' = [chain EXCEPT ![c] = "offered"]
  /\ arg' = [arg EXCEPT ![t] = c]
  /\ UNCHANGED <<current, procVars, worker, pc, work, retired, closed>>

\* Mutant: a replacement is accepted while the old worker is still busy.
Replaceable_Always == TRUE

\* No processor is current, or only one whose worker has finished by itself.
Replaceable == IF current = None THEN TRUE ELSE phase[current] = "Finished"

\* Where a callback goes once it has left the lock.
AfterLock(r, w) == IF r # None THEN "retire" ELSE IF w # None THEN "signal" ELSE "return"

\* The old processor is still at work: keep it, stop it, refuse the new chain.
AssignBusy(t) ==
  /\ arg[t] # None /\ pc[t] = "idle"
  /\ ~Replaceable
  /\ refs' = [refs EXCEPT ![current] = @ + 1]
  /\ work' = [work EXCEPT ![t] = current]
  /\ chain' = [chain EXCEPT ![arg[t]] = "refused"]
  /\ pc' = [pc EXCEPT ![t] = "signal"]
  /\ UNCHANGED <<current, phase, term, gone, pin, worker, arg, retired, closed>>

\* Mutant: the worker does not keep a reference of its own.
StartRefs_One == 1

\* The context's reference and the one Start adds for the worker.
StartRefs == 2

\* None current, or a finished one that is retired: start a processor and
\* commit it.  Everything up to Commit is inside the lock and the worker only
\* waits until then, so it is one step.
AssignStarted(t) ==
  /\ arg[t] # None /\ pc[t] = "idle"
  /\ Replaceable
  /\ retired' = [retired EXCEPT ![t] = current]
  /\ current' = arg[t]
  /\ refs' = [refs EXCEPT ![arg[t]] = StartRefs]
  /\ pin' = [pin EXCEPT ![arg[t]] = TRUE]
  /\ worker' = [worker EXCEPT ![arg[t]] = "wait"]
  /\ chain' = [chain EXCEPT ![arg[t]] = "owned"]
  /\ pc' = [pc EXCEPT ![t] = AfterLock(current, None)]
  /\ UNCHANGED <<phase, term, gone, arg, work, closed>>

\* An event, the module pin or the thread could not be created, or there was
\* no memory: the half-built processor is freed, the chain stays the OS's.
AssignFailed(t) ==
  /\ arg[t] # None /\ pc[t] = "idle"
  /\ Replaceable
  /\ retired' = [retired EXCEPT ![t] = current]
  /\ current' = None
  /\ chain' = [chain EXCEPT ![arg[t]] = "refused"]
  /\ pc' = [pc EXCEPT ![t] = AfterLock(current, None)]
  /\ UNCHANGED <<procVars, worker, arg, work, closed>>

-----------------------------------------------------------------------------
(* UnassignSwapChain, also called by the monitor object's cleanup.          *)

\* Mutant: the processor stays current after its reference was taken over.
TakenOver_Stays == current

TakenOver == None

\* Take the processor out of the context; stopping it follows outside the lock.
TakeCurrent(t) ==
  /\ ~closed
  /\ pc[t] = "idle" /\ arg[t] = None
  /\ work' = [work EXCEPT ![t] = current]
  /\ current' = TakenOver
  /\ pc' = [pc EXCEPT ![t] = AfterLock(None, current)]
  /\ UNCHANGED <<chain, procVars, worker, arg, retired>>

Unassign(t) == TakeCurrent(t) /\ UNCHANGED closed

\* ~IndirectMonitorContext, when the OS deletes the monitor object: none of its
\* callbacks is running then, and none follows.
Cleanup(t) ==
  /\ \A u \in Callbacks : pc[u] = "idle" /\ arg[u] = None
  /\ TakeCurrent(t)
  /\ closed' = TRUE

-----------------------------------------------------------------------------
(* The rest of a callback, outside the lock.                                *)

ReleaseRetired(t) ==
  /\ pc[t] = "retire"
  /\ refs' = [refs EXCEPT ![retired[t]] = @ - 1]
  /\ retired' = [retired EXCEPT ![t] = None]
  /\ pc' = [pc EXCEPT ![t] = "return"]
  /\ UNCHANGED <<chain, current, phase, term, gone, pin, worker, arg, work, closed>>

\* Stop: first the terminate event, then the compare-exchange.
StopSignal(t) ==
  /\ pc[t] = "signal"
  /\ term' = [term EXCEPT ![work[t]] = TRUE]
  /\ pc' = [pc EXCEPT ![t] = "claim"]
  /\ UNCHANGED <<chain, current, phase, gone, refs, pin, worker, arg, work, retired,
                 closed>>

StopClaim(t) ==
  /\ pc[t] = "claim"
  /\ IF StopClaims(work[t])
     THEN /\ phase' = [phase EXCEPT ![work[t]] = "StopRequested"]
          /\ pc' = [pc EXCEPT ![t] = "delete"]
     ELSE /\ pc' = [pc EXCEPT ![t] = "drop"]
          /\ UNCHANGED phase
  /\ UNCHANGED <<chain, current, term, gone, refs, pin, worker, arg, work, retired,
                 closed>>

StopDelete(t) ==
  /\ pc[t] = "delete"
  /\ ClaimDeletion(work[t], pc' = [pc EXCEPT ![t] = "deleting"],
                            pc' = [pc EXCEPT ![t] = "drop"])
  /\ UNCHANGED <<chain, current, phase, term, refs, pin, worker, arg, work, retired,
                 closed>>

StopDeleting(t) ==
  /\ pc[t] = "deleting"
  /\ WdfDelete(work[t])
  /\ pc' = [pc EXCEPT ![t] = "drop"]
  /\ UNCHANGED <<current, procVars, worker, arg, work, retired, closed>>

\* Mutant: the callback joins the worker before it lets go of the processor.
ReleaseStopped_Join(t) ==
  /\ pc[t] = "drop"
  /\ worker[work[t]] = "ended"
  /\ refs' = [refs EXCEPT ![work[t]] = @ - 1]
  /\ work' = [work EXCEPT ![t] = None]
  /\ pc' = [pc EXCEPT ![t] = "return"]
  /\ UNCHANGED <<chain, current, phase, term, gone, pin, worker, arg, retired, closed>>

ReleaseStopped(t) ==
  /\ pc[t] = "drop"
  /\ refs' = [refs EXCEPT ![work[t]] = @ - 1]
  /\ work' = [work EXCEPT ![t] = None]
  /\ pc' = [pc EXCEPT ![t] = "return"]
  /\ UNCHANGED <<chain, current, phase, term, gone, pin, worker, arg, retired, closed>>

\* The callback returns, STATUS_SUCCESS or ABANDON_SWAPCHAIN.
Return(t) ==
  /\ pc[t] = "return"
  /\ pc' = [pc EXCEPT ![t] = "idle"]
  /\ arg' = [arg EXCEPT ![t] = None]
  /\ UNCHANGED <<chain, current, procVars, worker, work, retired, closed>>

-----------------------------------------------------------------------------
(* The worker: Run, RunCore and RunThread.                                  *)

Goto(c, from, to) ==
  /\ worker[c] = from
  /\ worker' = [worker EXCEPT ![c] = to]

\* The commit event is set; the worker wins or loses against Stop.
RunCommitted(c) ==
  /\ IF phase[c] = "AwaitingCommit"
     THEN /\ phase' = [phase EXCEPT ![c] = "Initializing"]
          /\ Goto(c, "wait", "poll1")
     ELSE Goto(c, "wait", "delete") /\ UNCHANGED phase
  /\ UNCHANGED <<chain, current, term, gone, refs, pin, cbVars, closed>>

\* The wait itself fails: Committed is FALSE and Run skips to its last line.
RunWaitFailed(c) ==
  /\ Goto(c, "wait", "finish")
  /\ UNCHANGED <<chain, current, procVars, cbVars, closed>>

\* A look at the terminate event, before the device is created and after.
Poll(c) ==
  /\ \/ ~term[c] /\ (Goto(c, "poll1", "d3d") \/ Goto(c, "poll2", "core"))
     \/ term[c] /\ (Goto(c, "poll1", "delete") \/ Goto(c, "poll2", "delete"))
  /\ UNCHANGED <<chain, current, procVars, cbVars, closed>>

\* Direct3DDevice::Init returns, if it ever does.
DeviceReady(c) ==
  /\ Goto(c, "d3d", "enter") \/ Goto(c, "d3d", "delete")
  /\ UNCHANGED <<chain, current, procVars, cbVars, closed>>

EnterProcessing(c) ==
  /\ IF phase[c] = "Initializing"
     THEN /\ phase' = [phase EXCEPT ![c] = "Processing"]
          /\ Goto(c, "enter", "poll2")
     ELSE Goto(c, "enter", "delete") /\ UNCHANGED phase
  /\ UNCHANGED <<chain, current, term, gone, refs, pin, cbVars, closed>>

\* RunCore ends because it was told to; its waits are 16 ms long at most.
CoreStopped(c) ==
  /\ term[c]
  /\ Goto(c, "core", "delete")
  /\ UNCHANGED <<chain, current, procVars, cbVars, closed>>

\* RunCore ends because IddCx or the device reported an error.
CoreError(c) ==
  /\ Goto(c, "core", "delete")
  /\ UNCHANGED <<chain, current, procVars, cbVars, closed>>

RunDelete(c) ==
  /\ worker[c] = "delete"
  /\ ClaimDeletion(c, worker' = [worker EXCEPT ![c] = "deleting"],
                      worker' = [worker EXCEPT ![c] = "finish"])
  /\ UNCHANGED <<chain, current, phase, term, refs, pin, cbVars, closed>>

RunDeleting(c) ==
  /\ Goto(c, "deleting", "finish")
  /\ WdfDelete(c)
  /\ UNCHANGED <<current, procVars, cbVars, closed>>

RunFinished(c) ==
  /\ Goto(c, "finish", "release")
  /\ phase' = [phase EXCEPT ![c] = "Finished"]
  /\ UNCHANGED <<chain, current, term, gone, refs, pin, cbVars, closed>>

RunRelease(c) ==
  /\ Goto(c, "release", "exit")
  /\ refs' = [refs EXCEPT ![c] = @ - 1]
  /\ UNCHANGED <<chain, current, phase, term, gone, pin, cbVars, closed>>

\* FreeLibraryAndExitThread: unpin and end, with no driver code in between.
RunExit(c) ==
  /\ Goto(c, "exit", "ended")
  /\ pin' = [pin EXCEPT ![c] = FALSE]
  /\ UNCHANGED <<chain, current, phase, term, gone, refs, cbVars, closed>>

-----------------------------------------------------------------------------

CallbackStep(t) ==
  \/ AssignBusy(t) \/ AssignStarted(t) \/ AssignFailed(t)
  \/ ReleaseRetired(t)
  \/ StopSignal(t) \/ StopClaim(t) \/ StopDelete(t) \/ StopDeleting(t)
  \/ ReleaseStopped(t)
  \/ Return(t)

WorkerStep(c) ==
  \/ RunCommitted(c) \/ Poll(c) \/ EnterProcessing(c) \/ CoreStopped(c)
  \/ RunDelete(c) \/ RunDeleting(c) \/ RunFinished(c)
  \/ RunRelease(c) \/ RunExit(c)

\* What the outside world may do to a worker and does not owe it.
WorkerFate(c) == RunWaitFailed(c) \/ DeviceReady(c) \/ CoreError(c)

Next ==
  \/ \E t \in Callbacks :
       \/ \E c \in Chains : Offer(t, c)
       \/ Unassign(t) \/ Cleanup(t)
       \/ CallbackStep(t)
  \/ \E c \in Chains : WorkerStep(c) \/ WorkerFate(c)

\* Running threads are scheduled.  Creating a device need never return, and
\* the OS need never unassign anything.
Fairness ==
  /\ \A t \in Callbacks : WF_vars(CallbackStep(t))
  /\ \A c \in Chains : WF_vars(WorkerStep(c))

Spec == Init /\ [][Next]_vars /\ Fairness

-----------------------------------------------------------------------------
(* Correctness.                                                             *)

\* Swap-chain objects are handled as IddCx requires: deleted once, by the
\* callback or by the worker but not by both, and never after a refusal.
Ownership == INSTANCE ChainOwnership
ImplementsOwnership == Ownership!OwnershipSpec

\* RunCore calls IddCx with a chain that nobody can delete under it.
CoreOwnsItsChain == \A c \in Chains : worker[c] = "core" => chain[c] = "owned"

\* Who can still touch the processor object.
Holders(c) ==
  (IF current = c THEN 1 ELSE 0)
  + (IF worker[c] \in {"none", "exit", "ended"} THEN 0 ELSE 1)
  + Cardinality({t \in Callbacks : work[t] = c})
  + Cardinality({t \in Callbacks : retired[t] = c})

\* The reference count is the number of holders: nobody touches a processor
\* that was deleted, and none is leaked.
RefsAreHolders == \A c \in Chains : refs[c] = Holders(c)

\* No worker goes on processing for a monitor that has moved on: it is the
\* current one, or it has been told to stop, or a callback is about to tell it.
NoRunaway ==
  \A c \in Chains :
    worker[c] \in {"wait", "poll1", "d3d", "enter", "poll2", "core"} =>
      \/ current = c
      \/ term[c]
      \/ \E t \in Callbacks : work[t] = c /\ pc[t] = "signal"

\* AssignSwapChain and UnassignSwapChain return, though a device may be under
\* creation for ever: no callback waits for a worker.
CallbacksReturn ==
  \A t \in Callbacks :
    pc[t] # "idle" \/ arg[t] # None ~> pc[t] = "idle" /\ arg[t] = None

\* A worker whose first wait failed ends without deleting anything.
Forgotten(c) == phase[c] = "Finished" /\ ~gone[c]

\* A chain whose processor was told to stop is given back, even if its device
\* is never created; the wait failure is the exception.
StoppedIsDeleted ==
  \A c \in Chains : term[c] ~> chain[c] = "deleted" \/ Forgotten(c)
=============================================================================
