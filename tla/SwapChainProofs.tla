-------------------------- MODULE SwapChainProofs ---------------------------
(***************************************************************************)
(* The safety properties of SwapChain, and that it implements              *)
(* ChainOwnership, for any number of chains and of callbacks at once.      *)
(***************************************************************************)
EXTENDS SwapChain, FiniteSetTheorems, TLAPS

-----------------------------------------------------------------------------
(* The inductive invariant.                                                *)

Stopping == {"signal", "claim", "delete", "deleting", "drop"}

Started(c) == worker[c] # "none"

\* TypeOK, but for the bound on references.
TypeInv ==
  /\ chain \in [Chains -> {"unused", "offered", "owned", "refused", "deleted", "bad"}]
  /\ current \in Chains \cup {None}
  /\ phase \in [Chains -> Phases]
  /\ term \in [Chains -> BOOLEAN] /\ gone \in [Chains -> BOOLEAN]
  /\ refs \in [Chains -> Nat]
  /\ pin \in [Chains -> BOOLEAN]
  /\ worker \in [Chains -> WorkerPcs]
  /\ pc \in [Callbacks -> CallbackPcs]
  /\ arg \in [Callbacks -> Chains \cup {None}]
  /\ work \in [Callbacks -> Chains \cup {None}]
  /\ retired \in [Callbacks -> Chains \cup {None}]
  /\ closed \in BOOLEAN

\* A callback has a processor in its hands from the locked block on and until
\* it has released it; one that has yet to enter it has a chain of its own.
LocalShape ==
  /\ \A t \in Callbacks :
       /\ retired[t] # None <=> pc[t] = "retire"
       /\ work[t] # None <=> pc[t] \in Stopping
       /\ pc[t] = "idle" /\ arg[t] # None => chain[arg[t]] = "offered"
  /\ \A t, u \in Callbacks :
       pc[t] = "idle" /\ pc[u] = "idle" /\ arg[t] # None /\ arg[t] = arg[u] => t = u

\* Only a chain the driver has accepted has a processor.
StartedShape ==
  /\ \A c \in Chains :
       /\ Started(c) <=> chain[c] \in {"owned", "deleted"}
       /\ chain[c] # "bad"
       /\ gone[c] => Started(c)
  /\ current # None => Started(current)
  /\ \A t \in Callbacks :
       /\ work[t] # None => Started(work[t])
       /\ retired[t] # None => Started(retired[t])

\* What the phase says of the worker, and of a Stop that claims the deletion.
PhaseShape ==
  /\ \A c \in Chains :
       /\ worker[c] \in {"poll2", "core"} => phase[c] = "Processing"
       /\ phase[c] = "Finished" => worker[c] \in {"release", "exit", "ended"}
       /\ gone[c] => \/ phase[c] \in {"StopRequested", "Finished"}
                     \/ worker[c] \in {"deleting", "finish"}
  /\ \A t \in Callbacks :
       pc[t] \in {"delete", "deleting"} => phase[work[t]] \in {"StopRequested", "Finished"}

\* Whoever has won the exchange, and nobody else, is about to delete the chain.
DeletionShape ==
  /\ \A c \in Chains :
       /\ Started(c) /\ ~gone[c] => chain[c] = "owned"
       /\ worker[c] = "deleting" => gone[c] /\ chain[c] = "owned"
  /\ \A t \in Callbacks : pc[t] = "deleting" =>
       /\ gone[work[t]] /\ chain[work[t]] = "owned"
       /\ worker[work[t]] # "deleting"
       /\ \A u \in Callbacks : pc[u] = "deleting" /\ work[u] = work[t] => u = t

IInv ==
  /\ TypeInv /\ LocalShape /\ StartedShape /\ PhaseShape /\ DeletionShape
  /\ NoRunaway /\ RefsAreHolders

-----------------------------------------------------------------------------
(* Counting references.                                                    *)

Count(f, c) == Cardinality({t \in Callbacks : f[t] = c})

Is(x, y) == IF x = y THEN 1 ELSE 0

\* The worker's own reference.
Busy(c) == IF worker[c] \in {"none", "exit", "ended"} THEN 0 ELSE 1

LEMMA CountMoves ==
  ASSUME NEW f, NEW g, NEW t \in Callbacks, NEW c,
         \A u \in Callbacks \ {t} : g[u] = f[u]
  PROVE  /\ Count(f, c) \in Nat
         /\ Count(g, c) = Count(f, c) + Is(g[t], c) - Is(f[t], c)
         /\ f[t] = c => Count(f, c) >= 1
<1> DEFINE S == {u \in Callbacks : f[u] = c}
           T == {u \in Callbacks : g[u] = c}
<1>1. IsFiniteSet(S)
  BY SwapChainAssumption, FS_Subset
<1>2. Cardinality(S) \in Nat
  BY <1>1, FS_CardinalityType
<1>3. t \in S => Cardinality(S) >= 1
  BY <1>1, <1>2, FS_EmptySet
<1>4. CASE g[t] = c
  <2>1. T = S \cup {t} BY <1>4
  <2>2. Cardinality(T) = IF t \in S THEN Cardinality(S) ELSE Cardinality(S) + 1
    BY <1>1, <2>1, FS_AddElement
  <2> QED BY <1>2, <1>3, <1>4, <2>2 DEF Count, Is
<1>5. CASE g[t] # c
  <2>1. T = S \ {t} BY <1>5
  <2>2. Cardinality(T) = IF t \in S THEN Cardinality(S) - 1 ELSE Cardinality(S)
    BY <1>1, <2>1, FS_RemoveElement
  <2> QED BY <1>2, <1>3, <1>5, <2>2 DEF Count, Is
<1> QED BY <1>4, <1>5

LEMMA HoldersAre ==
  ASSUME NEW c \in Chains
  PROVE  /\ Holders(c) = Is(current, c) + Busy(c) + Count(work, c) + Count(retired, c)
         /\ Holders(c)' = Is(current', c) + Busy(c)' + Count(work', c) + Count(retired', c)
BY DEF Holders, Count, Is, Busy

\* A callback has at most one processor in its hands.
LEMMA RefsBounded ==
  ASSUME IInv, NEW c \in Chains
  PROVE  Holders(c) \in 0 .. Max2
<1> DEFINE W == {t \in Callbacks : work[t] = c}
           R == {t \in Callbacks : retired[t] = c}
<1>1. IsFiniteSet(W) /\ IsFiniteSet(R) /\ IsFiniteSet(W \cup R)
      /\ Cardinality(W \cup R) <= Cardinality(Callbacks)
      /\ Cardinality(Callbacks) \in Nat
  <2>1. W \in SUBSET Callbacks /\ R \in SUBSET Callbacks /\ W \cup R \in SUBSET Callbacks
    OBVIOUS
  <2> QED BY <2>1, SwapChainAssumption, FS_Subset, FS_CardinalityType
<1>2. c # None BY SwapChainAssumption
<1>3. W \cap R = {}
  BY <1>2 DEF IInv, LocalShape, Stopping
<1>4. Cardinality(W \cup R) = Cardinality(W) + Cardinality(R)
  <2>1. Cardinality(W \cup R) = Cardinality(W) + Cardinality(R) - Cardinality(W \cap R)
    BY <1>1, FS_Union
  <2>2. Cardinality(W \cap R) = 0 BY <1>3, FS_EmptySet
  <2> HIDE DEF W, R
  <2> QED BY <1>1, <2>1, <2>2, FS_CardinalityType
<1>5. Cardinality(W) \in Nat /\ Cardinality(R) \in Nat
  BY <1>1, FS_CardinalityType
<1> QED BY <1>1, <1>4, <1>5 DEF Holders, Max2
-----------------------------------------------------------------------------
(* Every action keeps the shapes.                                           *)

Shape == TypeInv /\ LocalShape /\ StartedShape /\ PhaseShape /\ DeletionShape /\ NoRunaway

RunMoves(c) == RunWaitFailed(c) \/ Poll(c) \/ DeviceReady(c) \/ CoreStopped(c) \/ CoreError(c)

LEMMA OfferStep ==
  ASSUME Shape, NEW t \in Callbacks, NEW d \in Chains, Offer(t, d)
  PROVE  Shape'
<1> USE SwapChainAssumption DEF Shape, procVars, cbVars, Offer
<1>1. TypeInv'
  BY DEF TypeInv, Phases, WorkerPcs, CallbackPcs
<1>2. LocalShape'
  BY DEF TypeInv, LocalShape, StartedShape, Stopping
<1>3. StartedShape'
  BY DEF TypeInv, LocalShape, StartedShape, Started, Stopping
<1>4. PhaseShape'
  BY DEF TypeInv, LocalShape, StartedShape, PhaseShape, Stopping
<1>5. DeletionShape'
  BY DEF TypeInv, LocalShape, StartedShape, PhaseShape, DeletionShape, Started, Stopping
<1>6. NoRunaway'
  BY DEF TypeInv, LocalShape, StartedShape, PhaseShape, NoRunaway, Stopping, Started
<1> QED BY <1>1, <1>2, <1>3, <1>4, <1>5, <1>6

LEMMA AssignBusyStep ==
  ASSUME Shape, NEW t \in Callbacks, AssignBusy(t)
  PROVE  Shape'
<1> USE SwapChainAssumption DEF Shape, procVars, cbVars, AssignBusy, Replaceable
<1>1. TypeInv'
  BY DEF TypeInv, Phases, WorkerPcs, CallbackPcs
<1>2. LocalShape'
  BY DEF TypeInv, LocalShape, StartedShape, Stopping
<1>3. StartedShape'
  BY DEF TypeInv, LocalShape, StartedShape, Started, Stopping
<1>4. PhaseShape'
  BY DEF TypeInv, LocalShape, StartedShape, PhaseShape, Stopping
<1>5. DeletionShape'
  BY DEF TypeInv, LocalShape, StartedShape, PhaseShape, DeletionShape, Started, Stopping
<1>6. NoRunaway'
  BY DEF TypeInv, LocalShape, StartedShape, PhaseShape, NoRunaway, Stopping, Started
<1> QED BY <1>1, <1>2, <1>3, <1>4, <1>5, <1>6

LEMMA AssignStartedStep ==
  ASSUME Shape, NEW t \in Callbacks, AssignStarted(t)
  PROVE  Shape'
<1> USE SwapChainAssumption DEF Shape, procVars, cbVars, AssignStarted, Replaceable, AfterLock, StartRefs
<1>1. TypeInv'
  BY DEF TypeInv, Phases, WorkerPcs, CallbackPcs
<1>2. LocalShape'
  BY DEF TypeInv, LocalShape, StartedShape, Stopping
<1>3. StartedShape'
  BY DEF TypeInv, LocalShape, StartedShape, Started, Stopping
<1>4. PhaseShape'
  <2>1. /\ arg[t] \in Chains /\ ~Started(arg[t])
        /\ ~gone[arg[t]] /\ phase[arg[t]] # "Finished"
    BY DEF TypeInv, LocalShape, StartedShape, PhaseShape, Started
  <2>2. \A c \in Chains : worker'[c] = IF c = arg[t] THEN "wait" ELSE worker[c]
    BY DEF TypeInv
  <2>3. \A u \in Callbacks : pc'[u] \in {"delete", "deleting"} => pc[u] = pc'[u]
    BY DEF TypeInv
  <2> QED BY <2>1, <2>2, <2>3 DEF PhaseShape
<1>5. DeletionShape'
  BY DEF TypeInv, LocalShape, StartedShape, PhaseShape, DeletionShape, Started, Stopping
<1>6. NoRunaway'
  BY DEF TypeInv, LocalShape, StartedShape, PhaseShape, NoRunaway, Stopping, Started
<1> QED BY <1>1, <1>2, <1>3, <1>4, <1>5, <1>6

LEMMA AssignFailedStep ==
  ASSUME Shape, NEW t \in Callbacks, AssignFailed(t)
  PROVE  Shape'
<1> USE SwapChainAssumption DEF Shape, procVars, cbVars, AssignFailed, Replaceable, AfterLock
<1>1. TypeInv'
  BY DEF TypeInv, Phases, WorkerPcs, CallbackPcs
<1>2. LocalShape'
  BY DEF TypeInv, LocalShape, StartedShape, Stopping
<1>3. StartedShape'
  BY DEF TypeInv, LocalShape, StartedShape, Started, Stopping
<1>4. PhaseShape'
  BY DEF TypeInv, LocalShape, StartedShape, PhaseShape, Stopping
<1>5. DeletionShape'
  BY DEF TypeInv, LocalShape, StartedShape, PhaseShape, DeletionShape, Started, Stopping
<1>6. NoRunaway'
  BY DEF TypeInv, LocalShape, StartedShape, PhaseShape, NoRunaway, Stopping, Started
<1> QED BY <1>1, <1>2, <1>3, <1>4, <1>5, <1>6

LEMMA TakeCurrentStep ==
  ASSUME Shape, NEW t \in Callbacks, Unassign(t) \/ Cleanup(t)
  PROVE  Shape'
<1> USE SwapChainAssumption DEF Shape, procVars, cbVars, Unassign, Cleanup, TakeCurrent, TakenOver, AfterLock
<1>1. TypeInv'
  <2>1. closed' \in BOOLEAN BY DEF TypeInv
  <2>2. /\ UNCHANGED <<chain, procVars, worker, arg, retired>>
        /\ current' = None /\ work' = [work EXCEPT ![t] = current]
        /\ pc' = [pc EXCEPT ![t] = AfterLock(None, current)]
    OBVIOUS
  <2> QED BY <2>1, <2>2 DEF TypeInv, Phases, WorkerPcs, CallbackPcs
<1>2. LocalShape'
  BY DEF TypeInv, LocalShape, StartedShape, Stopping
<1>3. StartedShape'
  BY DEF TypeInv, LocalShape, StartedShape, Started, Stopping
<1>4. PhaseShape'
  BY DEF TypeInv, LocalShape, StartedShape, PhaseShape, Stopping
<1>5. DeletionShape'
  BY DEF TypeInv, LocalShape, StartedShape, PhaseShape, DeletionShape, Started, Stopping
<1>6. NoRunaway'
  BY DEF TypeInv, LocalShape, StartedShape, PhaseShape, NoRunaway, Stopping, Started
<1> QED BY <1>1, <1>2, <1>3, <1>4, <1>5, <1>6

LEMMA ReleaseRetiredStep ==
  ASSUME Shape, NEW t \in Callbacks, ReleaseRetired(t), refs[retired[t]] >= 1
  PROVE  Shape'
<1> USE SwapChainAssumption DEF Shape, procVars, cbVars, ReleaseRetired
<1>1. TypeInv'
  <2>1. retired[t] \in Chains BY DEF TypeInv, LocalShape, Stopping
  <2>2. refs[retired[t]] - 1 \in Nat BY <2>1 DEF TypeInv
  <2> QED BY <2>1, <2>2 DEF TypeInv, CallbackPcs
<1>2. LocalShape'
  BY DEF TypeInv, LocalShape, StartedShape, Stopping
<1>3. StartedShape'
  BY DEF TypeInv, LocalShape, StartedShape, Started, Stopping
<1>4. PhaseShape'
  BY DEF TypeInv, LocalShape, StartedShape, PhaseShape, Stopping
<1>5. DeletionShape'
  BY DEF TypeInv, LocalShape, StartedShape, PhaseShape, DeletionShape, Started, Stopping
<1>6. NoRunaway'
  BY DEF TypeInv, LocalShape, StartedShape, PhaseShape, NoRunaway, Stopping, Started
<1> QED BY <1>1, <1>2, <1>3, <1>4, <1>5, <1>6

LEMMA StopSignalStep ==
  ASSUME Shape, NEW t \in Callbacks, StopSignal(t)
  PROVE  Shape'
<1> USE SwapChainAssumption DEF Shape, procVars, cbVars, StopSignal
<1>1. TypeInv'
  BY DEF TypeInv, Phases, WorkerPcs, CallbackPcs
<1>2. LocalShape'
  BY DEF TypeInv, LocalShape, StartedShape, Stopping
<1>3. StartedShape'
  BY DEF TypeInv, LocalShape, StartedShape, Started, Stopping
<1>4. PhaseShape'
  BY DEF TypeInv, LocalShape, StartedShape, PhaseShape, Stopping
<1>5. DeletionShape'
  BY DEF TypeInv, LocalShape, StartedShape, PhaseShape, DeletionShape, Started, Stopping
<1>6. NoRunaway'
  BY DEF TypeInv, LocalShape, StartedShape, PhaseShape, NoRunaway, Stopping, Started
<1> QED BY <1>1, <1>2, <1>3, <1>4, <1>5, <1>6

LEMMA StopClaimStep ==
  ASSUME Shape, NEW t \in Callbacks, StopClaim(t)
  PROVE  Shape'
<1> USE SwapChainAssumption DEF Shape, procVars, cbVars, StopClaim, StopClaims
<1>1. TypeInv'
  BY DEF TypeInv, Phases, WorkerPcs, CallbackPcs
<1>2. LocalShape'
  BY DEF TypeInv, LocalShape, StartedShape, Stopping
<1>3. StartedShape'
  BY DEF TypeInv, LocalShape, StartedShape, Started, Stopping
<1>4. PhaseShape'
  BY DEF TypeInv, LocalShape, StartedShape, PhaseShape, Stopping
<1>5. DeletionShape'
  BY DEF TypeInv, LocalShape, StartedShape, PhaseShape, DeletionShape, Started, Stopping
<1>6. NoRunaway'
  BY DEF TypeInv, LocalShape, StartedShape, PhaseShape, NoRunaway, Stopping, Started
<1> QED BY <1>1, <1>2, <1>3, <1>4, <1>5, <1>6

LEMMA StopDeleteStep ==
  ASSUME Shape, NEW t \in Callbacks, StopDelete(t)
  PROVE  Shape'
<1> USE SwapChainAssumption DEF Shape, procVars, cbVars, StopDelete, ClaimDeletion
<1>1. TypeInv'
  BY DEF TypeInv, Phases, WorkerPcs, CallbackPcs
<1>2. LocalShape'
  BY DEF TypeInv, LocalShape, StartedShape, Stopping
<1>3. StartedShape'
  BY DEF TypeInv, LocalShape, StartedShape, Started, Stopping
<1>4. PhaseShape'
  BY DEF TypeInv, LocalShape, StartedShape, PhaseShape, Stopping
<1>5. DeletionShape'
  BY DEF TypeInv, LocalShape, StartedShape, PhaseShape, DeletionShape, Started, Stopping
<1>6. NoRunaway'
  BY DEF TypeInv, LocalShape, StartedShape, PhaseShape, NoRunaway, Stopping, Started
<1> QED BY <1>1, <1>2, <1>3, <1>4, <1>5, <1>6

LEMMA StopDeletingStep ==
  ASSUME Shape, NEW t \in Callbacks, StopDeleting(t)
  PROVE  Shape'
<1> USE SwapChainAssumption DEF Shape, procVars, cbVars, StopDeleting, WdfDelete
<1>1. TypeInv'
  BY DEF TypeInv, DeletionShape, Phases, WorkerPcs, CallbackPcs
<1>2. LocalShape'
  BY DEF TypeInv, LocalShape, StartedShape, DeletionShape, Stopping
<1>3. StartedShape'
  BY DEF TypeInv, LocalShape, StartedShape, DeletionShape, Started, Stopping
<1>4. PhaseShape'
  BY DEF TypeInv, LocalShape, StartedShape, PhaseShape, DeletionShape, Stopping
<1>5. DeletionShape'
  BY DEF TypeInv, LocalShape, StartedShape, PhaseShape, DeletionShape, Started, Stopping
<1>6. NoRunaway'
  BY DEF TypeInv, LocalShape, StartedShape, PhaseShape, NoRunaway, DeletionShape, Stopping, Started
<1> QED BY <1>1, <1>2, <1>3, <1>4, <1>5, <1>6

LEMMA ReleaseStoppedStep ==
  ASSUME Shape, NEW t \in Callbacks, ReleaseStopped(t), refs[work[t]] >= 1
  PROVE  Shape'
<1> USE SwapChainAssumption DEF Shape, procVars, cbVars, ReleaseStopped
<1>1. TypeInv'
  <2>1. work[t] \in Chains BY DEF TypeInv, LocalShape, Stopping
  <2>2. refs[work[t]] - 1 \in Nat BY <2>1 DEF TypeInv
  <2> QED BY <2>1, <2>2 DEF TypeInv, CallbackPcs
<1>2. LocalShape'
  BY DEF TypeInv, LocalShape, StartedShape, Stopping
<1>3. StartedShape'
  BY DEF TypeInv, LocalShape, StartedShape, Started, Stopping
<1>4. PhaseShape'
  BY DEF TypeInv, LocalShape, StartedShape, PhaseShape, Stopping
<1>5. DeletionShape'
  BY DEF TypeInv, LocalShape, StartedShape, PhaseShape, DeletionShape, Started, Stopping
<1>6. NoRunaway'
  BY DEF TypeInv, LocalShape, StartedShape, PhaseShape, NoRunaway, Stopping, Started
<1> QED BY <1>1, <1>2, <1>3, <1>4, <1>5, <1>6

LEMMA ReturnStep ==
  ASSUME Shape, NEW t \in Callbacks, Return(t)
  PROVE  Shape'
<1> USE SwapChainAssumption DEF Shape, procVars, cbVars, Return
<1>1. TypeInv'
  BY DEF TypeInv, Phases, WorkerPcs, CallbackPcs
<1>2. LocalShape'
  BY DEF TypeInv, LocalShape, StartedShape, Stopping
<1>3. StartedShape'
  BY DEF TypeInv, LocalShape, StartedShape, Started, Stopping
<1>4. PhaseShape'
  BY DEF TypeInv, LocalShape, StartedShape, PhaseShape, Stopping
<1>5. DeletionShape'
  BY DEF TypeInv, LocalShape, StartedShape, PhaseShape, DeletionShape, Started, Stopping
<1>6. NoRunaway'
  BY DEF TypeInv, LocalShape, StartedShape, PhaseShape, NoRunaway, Stopping, Started
<1> QED BY <1>1, <1>2, <1>3, <1>4, <1>5, <1>6

LEMMA RunCommittedStep ==
  ASSUME Shape, NEW d \in Chains, RunCommitted(d)
  PROVE  Shape'
<1> USE SwapChainAssumption DEF Shape, procVars, cbVars, RunCommitted, Goto
<1>1. TypeInv'
  BY DEF TypeInv, Phases, WorkerPcs, CallbackPcs
<1>2. LocalShape'
  BY DEF TypeInv, LocalShape, StartedShape, Stopping
<1>3. StartedShape'
  BY DEF TypeInv, LocalShape, StartedShape, Started, Stopping
<1>4. PhaseShape'
  BY DEF TypeInv, LocalShape, StartedShape, PhaseShape, Stopping
<1>5. DeletionShape'
  BY DEF TypeInv, LocalShape, StartedShape, PhaseShape, DeletionShape, Started, Stopping
<1>6. NoRunaway'
  BY DEF TypeInv, LocalShape, StartedShape, PhaseShape, NoRunaway, Stopping, Started
<1> QED BY <1>1, <1>2, <1>3, <1>4, <1>5, <1>6

LEMMA RunMovesStep ==
  ASSUME Shape, NEW d \in Chains, RunMoves(d)
  PROVE  Shape'
<1> USE SwapChainAssumption DEF Shape, procVars, cbVars, RunMoves, RunWaitFailed, Poll, DeviceReady, CoreStopped, CoreError, Goto
<1>1. TypeInv'
  BY DEF TypeInv, Phases, WorkerPcs, CallbackPcs
<1>2. LocalShape'
  BY DEF TypeInv, LocalShape, StartedShape, Stopping
<1>3. StartedShape'
  BY DEF TypeInv, LocalShape, StartedShape, Started, Stopping
<1>4. PhaseShape'
  BY DEF TypeInv, LocalShape, StartedShape, PhaseShape, Stopping
<1>5. DeletionShape'
  BY DEF TypeInv, LocalShape, StartedShape, PhaseShape, DeletionShape, Started, Stopping
<1>6. NoRunaway'
  BY DEF TypeInv, LocalShape, StartedShape, PhaseShape, NoRunaway, Stopping, Started
<1> QED BY <1>1, <1>2, <1>3, <1>4, <1>5, <1>6

LEMMA EnterProcessingStep ==
  ASSUME Shape, NEW d \in Chains, EnterProcessing(d)
  PROVE  Shape'
<1> USE SwapChainAssumption DEF Shape, procVars, cbVars, EnterProcessing, Goto
<1>1. TypeInv'
  BY DEF TypeInv, Phases, WorkerPcs, CallbackPcs
<1>2. LocalShape'
  BY DEF TypeInv, LocalShape, StartedShape, Stopping
<1>3. StartedShape'
  BY DEF TypeInv, LocalShape, StartedShape, Started, Stopping
<1>4. PhaseShape'
  BY DEF TypeInv, LocalShape, StartedShape, PhaseShape, Stopping
<1>5. DeletionShape'
  BY DEF TypeInv, LocalShape, StartedShape, PhaseShape, DeletionShape, Started, Stopping
<1>6. NoRunaway'
  BY DEF TypeInv, LocalShape, StartedShape, PhaseShape, NoRunaway, Stopping, Started
<1> QED BY <1>1, <1>2, <1>3, <1>4, <1>5, <1>6

LEMMA RunDeleteStep ==
  ASSUME Shape, NEW d \in Chains, RunDelete(d)
  PROVE  Shape'
<1> USE SwapChainAssumption DEF Shape, procVars, cbVars, RunDelete, ClaimDeletion
<1>1. TypeInv'
  BY DEF TypeInv, Phases, WorkerPcs, CallbackPcs
<1>2. LocalShape'
  BY DEF TypeInv, LocalShape, StartedShape, Stopping
<1>3. StartedShape'
  BY DEF TypeInv, LocalShape, StartedShape, Started, Stopping
<1>4. PhaseShape'
  BY DEF TypeInv, LocalShape, StartedShape, PhaseShape, Stopping
<1>5. DeletionShape'
  BY DEF TypeInv, LocalShape, StartedShape, PhaseShape, DeletionShape, Started, Stopping
<1>6. NoRunaway'
  BY DEF TypeInv, LocalShape, StartedShape, PhaseShape, NoRunaway, Stopping, Started
<1> QED BY <1>1, <1>2, <1>3, <1>4, <1>5, <1>6

LEMMA RunDeletingStep ==
  ASSUME Shape, NEW d \in Chains, RunDeleting(d)
  PROVE  Shape'
<1> USE SwapChainAssumption DEF Shape, procVars, cbVars, RunDeleting, WdfDelete, Goto
<1>1. TypeInv'
  BY DEF TypeInv, DeletionShape, Phases, WorkerPcs, CallbackPcs
<1>2. LocalShape'
  BY DEF TypeInv, LocalShape, StartedShape, DeletionShape, Stopping
<1>3. StartedShape'
  BY DEF TypeInv, LocalShape, StartedShape, DeletionShape, Started, Stopping
<1>4. PhaseShape'
  BY DEF TypeInv, LocalShape, StartedShape, PhaseShape, DeletionShape, Stopping
<1>5. DeletionShape'
  BY DEF TypeInv, LocalShape, StartedShape, PhaseShape, DeletionShape, Started, Stopping
<1>6. NoRunaway'
  BY DEF TypeInv, LocalShape, StartedShape, PhaseShape, NoRunaway, DeletionShape, Stopping, Started
<1> QED BY <1>1, <1>2, <1>3, <1>4, <1>5, <1>6

LEMMA RunEndStep ==
  ASSUME Shape, NEW d \in Chains, RunFinished(d) \/ RunRelease(d) \/ RunExit(d), refs[d] >= 1
  PROVE  Shape'
<1> USE SwapChainAssumption DEF Shape, procVars, cbVars, RunFinished, RunRelease, RunExit, Goto
<1>1. TypeInv'
  <2>1. CASE RunFinished(d) BY <2>1 DEF TypeInv, Phases, WorkerPcs
  <2>2. CASE RunRelease(d)
    <3>1. refs[d] - 1 \in Nat BY DEF TypeInv
    <3> QED BY <2>2, <3>1 DEF TypeInv, WorkerPcs
  <2>3. CASE RunExit(d) BY <2>3 DEF TypeInv, WorkerPcs
  <2> QED BY <2>1, <2>2, <2>3
<1>2. LocalShape'
  BY DEF TypeInv, LocalShape, StartedShape, Stopping
<1>3. StartedShape'
  BY DEF TypeInv, LocalShape, StartedShape, Started, Stopping
<1>4. PhaseShape'
  BY DEF TypeInv, LocalShape, StartedShape, PhaseShape, Stopping
<1>5. DeletionShape'
  BY DEF TypeInv, LocalShape, StartedShape, PhaseShape, DeletionShape, Started, Stopping
<1>6. NoRunaway'
  BY DEF TypeInv, LocalShape, StartedShape, PhaseShape, NoRunaway, Stopping, Started
<1> QED BY <1>1, <1>2, <1>3, <1>4, <1>5, <1>6

-----------------------------------------------------------------------------
(* Every action keeps the references counted.                               *)

\* What a callback that has come to hold, or to hold no longer, a processor
\* does to the count.
LEMMA HandsMove ==
  ASSUME TypeInv, NEW t \in Callbacks, NEW v, NEW c \in Chains
  PROVE  /\ Count(work, c) \in Nat /\ Count(retired, c) \in Nat
         /\ work' = [work EXCEPT ![t] = v] =>
              Count(work', c) = Count(work, c) + Is(v, c) - Is(work[t], c)
         /\ retired' = [retired EXCEPT ![t] = v] =>
              Count(retired', c) = Count(retired, c) + Is(v, c) - Is(retired[t], c)
<1>1. work \in [Callbacks -> Chains \cup {None}] /\ retired \in [Callbacks -> Chains \cup {None}]
  BY DEF TypeInv
<1>2. Count(work, c) \in Nat /\ Count(retired, c) \in Nat
  BY CountMoves
<1>3. ASSUME work' = [work EXCEPT ![t] = v]
      PROVE  Count(work', c) = Count(work, c) + Is(v, c) - Is(work[t], c)
  <2>1. work'[t] = v /\ \A u \in Callbacks \ {t} : work'[u] = work[u]
    BY <1>1, <1>3
  <2>2. Count(work', c) = Count(work, c) + Is(work'[t], c) - Is(work[t], c)
    BY <2>1, CountMoves DEF Is
  <2> QED BY <2>1, <2>2
<1>4. ASSUME retired' = [retired EXCEPT ![t] = v]
      PROVE  Count(retired', c) = Count(retired, c) + Is(v, c) - Is(retired[t], c)
  <2>1. retired'[t] = v /\ \A u \in Callbacks \ {t} : retired'[u] = retired[u]
    BY <1>1, <1>4
  <2>2. Count(retired', c) = Count(retired, c) + Is(retired'[t], c) - Is(retired[t], c)
    BY <2>1, CountMoves DEF Is
  <2> QED BY <2>1, <2>2
<1> QED BY <1>2, <1>3, <1>4

\* A processor that somebody holds has a reference.
LEMMA HeldCounts ==
  ASSUME IInv, NEW c \in Chains
  PROVE  /\ refs[c] \in Nat
         /\ \A t \in Callbacks : work[t] = c \/ retired[t] = c => refs[c] >= 1
         /\ Busy(c) = 1 => refs[c] >= 1
<1>1. refs[c] = Is(current, c) + Busy(c) + Count(work, c) + Count(retired, c)
  BY HoldersAre DEF IInv, RefsAreHolders
<1>2. Cardinality({t \in Callbacks : work[t] = c}) \in Nat
      /\ Cardinality({t \in Callbacks : retired[t] = c}) \in Nat
  BY SwapChainAssumption, FS_Subset, FS_CardinalityType
<1>3. Count(work, c) \in Nat /\ Count(retired, c) \in Nat
  BY <1>2 DEF Count
<1>4. ASSUME NEW t \in Callbacks
      PROVE  /\ work[t] = c => Count(work, c) >= 1
             /\ retired[t] = c => Count(retired, c) >= 1
  BY CountMoves DEF IInv, TypeInv
<1> QED BY <1>1, <1>3, <1>4 DEF Is, Busy

\* A processor that was never started has no holder.
LEMMA FreshUncounted ==
  ASSUME IInv, NEW c \in Chains, ~Started(c)
  PROVE  Count(work, c) = 0 /\ Count(retired, c) = 0 /\ current # c /\ Busy(c) = 0
<1>1. {t \in Callbacks : work[t] = c} = {} /\ {t \in Callbacks : retired[t] = c} = {}
  BY SwapChainAssumption DEF IInv, StartedShape
<1>2. Count(work, c) = 0 /\ Count(retired, c) = 0
  BY <1>1, FS_EmptySet DEF Count
<1> QED BY <1>2, SwapChainAssumption DEF IInv, StartedShape, Started, Busy

LEMMA RefsStep == IInv /\ [Next]_vars => RefsAreHolders'
<1> SUFFICES ASSUME IInv, [Next]_vars, NEW c \in Chains
             PROVE  refs'[c] = Holders(c)'
  BY DEF RefsAreHolders
<1>i. TypeInv /\ LocalShape /\ StartedShape /\ PhaseShape BY DEF IInv
<1>n. c # None BY SwapChainAssumption
<1>h. /\ refs[c] = Is(current, c) + Busy(c) + Count(work, c) + Count(retired, c)
      /\ Holders(c)' = Is(current', c) + Busy(c)' + Count(work', c) + Count(retired', c)
      /\ refs[c] \in Nat /\ refs \in [Chains -> Nat]
  BY HoldersAre DEF IInv, RefsAreHolders, TypeInv
<1>1. CASE UNCHANGED <<current, refs, worker, work, retired>>
  BY <1>h, <1>1 DEF Busy
<1>2. ASSUME NEW t \in Callbacks, AssignBusy(t) PROVE refs'[c] = Holders(c)'
  <2>1. work[t] = None BY <1>2, <1>i DEF AssignBusy, LocalShape, Stopping
  <2>2. current \in Chains BY <1>2, <1>i DEF AssignBusy, Replaceable, TypeInv
  <2>3. /\ Count(work, c) \in Nat /\ Count(retired, c) \in Nat
        /\ Count(work', c) = Count(work, c) + Is(current, c) - Is(work[t], c)
        /\ retired' = retired
    BY <1>2, <1>i, HandsMove DEF AssignBusy
  <2> QED BY <1>2, <1>h, <1>n, <1>i, <2>1, <2>2, <2>3 DEF AssignBusy, Is, Busy
<1>3. ASSUME NEW t \in Callbacks, AssignStarted(t) PROVE refs'[c] = Holders(c)'
  <2>1. /\ retired[t] = None /\ arg[t] \in Chains /\ ~Started(arg[t]) /\ arg[t] # current
    BY <1>3, <1>i DEF AssignStarted, LocalShape, StartedShape, TypeInv
  <2>2. Count(work, c) \in Nat /\ Count(retired, c) \in Nat
        /\ Count(retired', c) = Count(retired, c) + Is(current, c) - Is(retired[t], c)
        /\ work' = work
    BY <1>3, <1>i, HandsMove DEF AssignStarted
  <2>3. CASE c = arg[t]
    <3>1. Count(work, c) = 0 /\ Count(retired, c) = 0 /\ current # c
      BY <2>1, <2>3, FreshUncounted
    <3> QED BY <1>3, <1>h, <1>n, <1>i, <2>1, <2>2, <2>3, <3>1
            DEF AssignStarted, StartRefs, Is, Busy, TypeInv
  <2>4. CASE c # arg[t]
    BY <1>3, <1>h, <1>n, <1>i, <2>1, <2>2, <2>4 DEF AssignStarted, Is, Busy, TypeInv
  <2> QED BY <2>3, <2>4
<1>4. ASSUME NEW t \in Callbacks, AssignFailed(t) PROVE refs'[c] = Holders(c)'
  <2>1. retired[t] = None BY <1>4, <1>i DEF AssignFailed, LocalShape
  <2>2. /\ Count(work, c) \in Nat /\ Count(retired, c) \in Nat
        /\ Count(retired', c) = Count(retired, c) + Is(current, c) - Is(retired[t], c)
        /\ work' = work
    BY <1>4, <1>i, HandsMove DEF AssignFailed
  <2> QED BY <1>4, <1>h, <1>n, <1>i, <2>1, <2>2 DEF AssignFailed, procVars, Is, Busy
<1>5. ASSUME NEW t \in Callbacks, TakeCurrent(t) PROVE refs'[c] = Holders(c)'
  <2>1. work[t] = None BY <1>5, <1>i DEF TakeCurrent, LocalShape, Stopping
  <2>2. /\ Count(work, c) \in Nat /\ Count(retired, c) \in Nat
        /\ Count(work', c) = Count(work, c) + Is(current, c) - Is(work[t], c)
        /\ retired' = retired
    BY <1>5, <1>i, HandsMove DEF TakeCurrent
  <2> QED BY <1>5, <1>h, <1>n, <1>i, <2>1, <2>2 DEF TakeCurrent, TakenOver, procVars, Is, Busy
<1>6. ASSUME NEW t \in Callbacks, ReleaseRetired(t) PROVE refs'[c] = Holders(c)'
  <2>1. retired[t] \in Chains BY <1>6, <1>i DEF ReleaseRetired, LocalShape, TypeInv
  <2>2. /\ Count(work, c) \in Nat /\ Count(retired, c) \in Nat
        /\ Count(retired', c) = Count(retired, c) + Is(None, c) - Is(retired[t], c)
        /\ work' = work
    BY <1>6, <1>i, HandsMove DEF ReleaseRetired
  <2> QED BY <1>6, <1>h, <1>n, <1>i, <2>1, <2>2 DEF ReleaseRetired, Is, Busy
<1>7. ASSUME NEW t \in Callbacks, ReleaseStopped(t) PROVE refs'[c] = Holders(c)'
  <2>1. work[t] \in Chains BY <1>7, <1>i DEF ReleaseStopped, LocalShape, TypeInv, Stopping
  <2>2. /\ Count(work, c) \in Nat /\ Count(retired, c) \in Nat
        /\ Count(work', c) = Count(work, c) + Is(None, c) - Is(work[t], c)
        /\ retired' = retired
    BY <1>7, <1>i, HandsMove DEF ReleaseStopped
  <2> QED BY <1>7, <1>h, <1>n, <1>i, <2>1, <2>2 DEF ReleaseStopped, Is, Busy
<1>8. ASSUME NEW d \in Chains, RunRelease(d) PROVE refs'[c] = Holders(c)'
  <2>1. Count(work, c) \in Nat /\ Count(retired, c) \in Nat
    BY <1>h, <1>i, CountMoves, FS_Subset, FS_CardinalityType, SwapChainAssumption DEF TypeInv, Count
  <2>2. Busy(c)' = IF c = d THEN 0 ELSE Busy(c)
    BY <1>8, <1>i DEF RunRelease, Goto, Busy, TypeInv
  <2>3. c = d => Busy(c) = 1
    BY <1>8 DEF RunRelease, Goto, Busy
  <2>4. refs'[c] = IF c = d THEN refs[c] - 1 ELSE refs[c]
    BY <1>8, <1>h DEF RunRelease
  <2>5. UNCHANGED <<current, work, retired>>
    BY <1>8 DEF RunRelease, cbVars
  <2> QED BY <1>h, <2>1, <2>2, <2>3, <2>4, <2>5 DEF Is, Busy
<1>9. ASSUME NEW d \in Chains, WorkerStep(d) \/ WorkerFate(d), ~RunRelease(d)
      PROVE  refs'[c] = Holders(c)'
  <2>1. UNCHANGED <<current, refs, work, retired>>
    BY <1>9 DEF WorkerStep, WorkerFate, RunCommitted, Poll, EnterProcessing, CoreStopped,
       RunDelete, ClaimDeletion, RunDeleting, RunFinished, RunExit, RunWaitFailed, DeviceReady, CoreError,
       procVars, cbVars
  <2>2. Busy(c)' = Busy(c)
    BY <1>9, <1>i DEF WorkerStep, WorkerFate, RunCommitted, Poll, EnterProcessing, CoreStopped,
       RunDelete, ClaimDeletion, RunDeleting, RunFinished, RunExit, RunWaitFailed, DeviceReady, CoreError,
       Goto, Busy, TypeInv
  <2> QED BY <1>h, <2>1, <2>2
<1>10. ASSUME NEW t \in Callbacks,
              \/ \E d \in Chains : Offer(t, d)
              \/ StopSignal(t) \/ StopClaim(t) \/ StopDelete(t) \/ StopDeleting(t) \/ Return(t)
       PROVE  refs'[c] = Holders(c)'
  <2>1. UNCHANGED <<current, refs, worker, work, retired>>
    BY <1>10 DEF Offer, StopSignal, StopClaim, StopDelete, ClaimDeletion, StopDeleting, Return, procVars
  <2> QED BY <1>1, <2>1
<1>11. CASE UNCHANGED vars
  BY <1>1, <1>11 DEF vars, procVars, cbVars
<1> QED
  BY <1>2, <1>3, <1>4, <1>5, <1>6, <1>7, <1>8, <1>9, <1>10, <1>11
  DEF Next, CallbackStep, Unassign, Cleanup

-----------------------------------------------------------------------------
(* The theorems.                                                            *)

LEMMA IInvInit == Init => IInv
<1> SUFFICES ASSUME Init PROVE IInv
  OBVIOUS
<1>1. TypeInv /\ LocalShape /\ StartedShape /\ PhaseShape /\ DeletionShape /\ NoRunaway
  BY SwapChainAssumption
  DEF Init, TypeInv, Phases, WorkerPcs, CallbackPcs, LocalShape, Stopping, StartedShape, Started,
      PhaseShape, DeletionShape, NoRunaway
<1>2. ASSUME NEW c \in Chains PROVE refs[c] = Holders(c)
  <2>1. /\ {t \in Callbacks : work[t] = c} = {} /\ {t \in Callbacks : retired[t] = c} = {}
        /\ refs[c] = 0 /\ current # c /\ worker[c] = "none"
    BY SwapChainAssumption DEF Init
  <2> QED BY <2>1, FS_EmptySet DEF Holders
<1> QED BY <1>1, <1>2 DEF IInv, RefsAreHolders

LEMMA ShapeStep == IInv /\ [Next]_vars => Shape'
<1> SUFFICES ASSUME IInv, [Next]_vars PROVE Shape'
  OBVIOUS
<1>i. Shape BY DEF IInv, Shape
<1>1. ASSUME NEW t \in Callbacks, ReleaseRetired(t) PROVE Shape'
  <2>1. retired[t] \in Chains BY <1>1, <1>i DEF ReleaseRetired, Shape, LocalShape, TypeInv
  <2>2. refs[retired[t]] >= 1 BY <2>1, HeldCounts
  <2> QED BY <1>1, <1>i, <2>2, ReleaseRetiredStep
<1>2. ASSUME NEW t \in Callbacks, ReleaseStopped(t) PROVE Shape'
  <2>1. work[t] \in Chains BY <1>2, <1>i DEF ReleaseStopped, Shape, LocalShape, TypeInv, Stopping
  <2>2. refs[work[t]] >= 1 BY <2>1, HeldCounts
  <2> QED BY <1>2, <1>i, <2>2, ReleaseStoppedStep
<1>3. ASSUME NEW d \in Chains, RunFinished(d) \/ RunRelease(d) \/ RunExit(d) PROVE Shape'
  <2>1. CASE RunExit(d)
    BY <2>1, <1>i, SwapChainAssumption
    DEF RunExit, Goto, cbVars, Shape, TypeInv, WorkerPcs, LocalShape, StartedShape, Started, PhaseShape,
        DeletionShape, NoRunaway
  <2>2. CASE RunFinished(d) \/ RunRelease(d)
    <3>1. Busy(d) = 1 BY <2>2 DEF RunFinished, RunRelease, Goto, Busy
    <3>2. refs[d] >= 1 BY <3>1, HeldCounts
    <3> QED BY <1>3, <1>i, <3>2, RunEndStep
  <2> QED BY <1>3, <2>1, <2>2
<1>4. ASSUME NEW d \in Chains, WorkerStep(d) \/ WorkerFate(d) PROVE Shape'
  BY <1>3, <1>4, <1>i, RunCommittedStep, RunMovesStep, EnterProcessingStep, RunDeleteStep, RunDeletingStep
  DEF WorkerStep, WorkerFate, RunMoves
<1>5. ASSUME NEW t \in Callbacks, CallbackStep(t) PROVE Shape'
  BY <1>1, <1>2, <1>5, <1>i, AssignBusyStep, AssignStartedStep, AssignFailedStep, StopSignalStep,
     StopClaimStep, StopDeleteStep, StopDeletingStep, ReturnStep
  DEF CallbackStep
<1>6. CASE UNCHANGED vars
  BY <1>6, <1>i DEF vars, procVars, cbVars, Shape, TypeInv, LocalShape, StartedShape, Started,
     PhaseShape, DeletionShape, NoRunaway
<1> QED BY <1>4, <1>5, <1>6, <1>i, OfferStep, TakeCurrentStep DEF Next

LEMMA IInvStep == IInv /\ [Next]_vars => IInv'
  BY ShapeStep, RefsStep DEF IInv, Shape

LEMMA IInvAlways == Spec => []IInv
  BY IInvInit, IInvStep, PTL DEF Spec

\* Every variable keeps its type, and no processor ever has more references
\* than it can have holders.
THEOREM TypeCorrect == Spec => []TypeOK
<1>1. IInv => TypeOK
  <2> SUFFICES ASSUME IInv PROVE TypeOK
    OBVIOUS
  <2>1. TypeInv /\ \A c \in Chains : refs[c] \in 0 .. Max2
    BY RefsBounded DEF IInv, RefsAreHolders
  <2>2. refs \in [Chains -> 0 .. Max2]
    BY <2>1 DEF TypeInv
  <2> QED BY <2>1, <2>2 DEF TypeInv, TypeOK
<1> QED BY <1>1, IInvAlways, PTL

\* RunCore calls IddCx with a chain that nobody can delete under it: Stop takes
\* the deletion over only from a worker that has not got there.
THEOREM CoreIsSafe == Spec => []CoreOwnsItsChain
<1>1. IInv => CoreOwnsItsChain
  BY DEF IInv, TypeInv, PhaseShape, DeletionShape, StartedShape, Started, CoreOwnsItsChain, WorkerPcs
<1> QED BY <1>1, IInvAlways, PTL

\* The reference count of a processor is the number of those that can still
\* touch it.
THEOREM RefsAreExact == Spec => []RefsAreHolders
<1>1. IInv => RefsAreHolders BY DEF IInv
<1> QED BY <1>1, IInvAlways, PTL

\* A worker that is at work is the current one, or is told to stop.
THEOREM WorkersAreStopped == Spec => []NoRunaway
<1>1. IInv => NoRunaway BY DEF IInv
<1> QED BY <1>1, IInvAlways, PTL

-----------------------------------------------------------------------------
(* The refinement.                                                          *)

LEMMA OwnershipStep == IInv /\ [Next]_vars => [Ownership!OwnershipNext]_chain
<1> SUFFICES ASSUME IInv, Next PROVE Ownership!OwnershipNext \/ UNCHANGED chain
  BY DEF vars
<1>i. TypeInv /\ LocalShape /\ StartedShape /\ DeletionShape BY DEF IInv
<1>1. ASSUME NEW t \in Callbacks, NEW c \in Chains, Offer(t, c) PROVE Ownership!Offer(c)
  BY <1>1 DEF Offer, Ownership!Offer, Ownership!Move
<1>2. ASSUME NEW t \in Callbacks, AssignStarted(t)
      PROVE  \E c \in Chains : Ownership!Accept(c)
  <2>1. arg[t] \in Chains /\ chain[arg[t]] = "offered"
    BY <1>2, <1>i DEF AssignStarted, TypeInv, LocalShape
  <2>2. Ownership!Accept(arg[t]) BY <1>2, <2>1 DEF AssignStarted, Ownership!Accept, Ownership!Move
  <2> QED BY <2>1, <2>2
<1>3. ASSUME NEW t \in Callbacks, AssignBusy(t) \/ AssignFailed(t)
      PROVE  \E c \in Chains : Ownership!Refuse(c)
  <2>1. arg[t] \in Chains /\ chain[arg[t]] = "offered"
    BY <1>3, <1>i DEF AssignBusy, AssignFailed, TypeInv, LocalShape
  <2>2. Ownership!Refuse(arg[t])
    BY <1>3, <2>1 DEF AssignBusy, AssignFailed, Ownership!Refuse, Ownership!Move
  <2> QED BY <2>1, <2>2
<1>4. ASSUME NEW t \in Callbacks, StopDeleting(t)
      PROVE  \E c \in Chains : Ownership!Delete(c)
  <2>1. work[t] \in Chains /\ chain[work[t]] = "owned"
    BY <1>4, <1>i DEF StopDeleting, TypeInv, LocalShape, DeletionShape, Stopping
  <2>2. Ownership!Delete(work[t])
    BY <1>4, <2>1 DEF StopDeleting, WdfDelete, Ownership!Delete, Ownership!Move
  <2> QED BY <2>1, <2>2
<1>5. ASSUME NEW c \in Chains, RunDeleting(c) PROVE Ownership!Delete(c)
  <2>1. chain[c] = "owned" BY <1>5, <1>i DEF RunDeleting, Goto, DeletionShape
  <2> QED BY <1>5, <2>1 DEF RunDeleting, WdfDelete, Ownership!Delete, Ownership!Move
<1>6. ASSUME NEW t \in Callbacks,
             \/ Unassign(t) \/ Cleanup(t) \/ ReleaseRetired(t) \/ StopSignal(t) \/ StopClaim(t)
             \/ StopDelete(t) \/ ReleaseStopped(t) \/ Return(t)
      PROVE  UNCHANGED chain
  BY <1>6 DEF Unassign, Cleanup, TakeCurrent, ReleaseRetired, StopSignal, StopClaim, StopDelete,
     ReleaseStopped, Return
<1>7. ASSUME NEW c \in Chains, WorkerStep(c) \/ WorkerFate(c), ~RunDeleting(c)
      PROVE  UNCHANGED chain
  BY <1>7 DEF WorkerStep, WorkerFate, RunCommitted, Poll, EnterProcessing, CoreStopped, RunDelete,
     RunFinished, RunRelease, RunExit, RunWaitFailed, DeviceReady, CoreError
<1> QED
  BY <1>1, <1>2, <1>3, <1>4, <1>5, <1>6, <1>7 DEF Next, CallbackStep, Ownership!OwnershipNext

\* The driver keeps its contract with IddCx about swap-chain objects: each is
\* deleted at most once, by the callback or by the worker, and never unless it
\* was accepted.
THEOREM OwnershipIsKept == Spec => ImplementsOwnership
<1>1. Init => Ownership!OwnershipInit BY DEF Init, Ownership!OwnershipInit
<1> QED
  BY <1>1, OwnershipStep, IInvAlways, PTL DEF Spec, ImplementsOwnership, Ownership!OwnershipSpec
=============================================================================
