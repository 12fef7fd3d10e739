------------------------ MODULE CaptureChannelProofs ------------------------
(***************************************************************************)
(* The safety properties of CaptureChannel, for any number of handles,     *)
(* workers, plugs and channels.                                            *)
(***************************************************************************)
EXTENDS CaptureChannel, TLAPS

-----------------------------------------------------------------------------
(* The inductive invariant.                                                *)

\* What holds m_Lock across a Stop, and what it has done to the slot so far.
ControlShape ==
  /\ op = "none" => Ended(Control)
  /\ op = "none" /\ owner # None => channelOf[bound] # None
  /\ op # "none" => bound # None
  /\ op = "close" => owner # None /\ channelOf[bound] = None
  /\ op = "unplug" => channelOf[bound] = None \/ stopped[channelOf[bound]]

\* A thread that is in Stop or Fail has marked its channel; past the first
\* compare-exchange the channel can no longer be announced.
EndShape ==
  \A t \in Threads :
    /\ target[t] = None <=> ending[t] = "none"
    /\ target[t] # None => stopped[target[t]]
    /\ ending[t] = "cas2" => mstate[target[t]] # "waiting"

\* Where a worker is with its ring.
WorkerShape ==
  \A w \in Workers :
    /\ pc[w] # "none" => home[w] # None
    /\ pc[w] \in {"init", "describe", "announce"} => chan[w] # None
    /\ pc[w] \in {"describe", "announce"} => names[chan[w]] = w
    /\ pc[w] = "announce" => desc[chan[w]] = w

\* A ring belongs to the channel its worker serves, or is about to be freed;
\* who is about to free it ends its channel first.
RingShape ==
  \A w \in Workers, c \in Channels : names[c] = w =>
    /\ pc[w] = "reset" \/ chan[w] = c
    /\ pc[w] \in {"reset", "quit"} => target[w] = c \/ mstate[c] \in {"stopped", "failed"}

\* A reader has seen READY, which comes once.
ReaderShape ==
  /\ reader = None => got = {}
  /\ reader # None => mstate[reader] # "waiting"

Shape == TypeOK /\ ControlShape /\ EndShape /\ WorkerShape /\ RingShape

IInv ==
  /\ Shape /\ ReaderShape
  /\ EndIsVisible /\ ActiveIsOwned /\ ImportedIsServed

-----------------------------------------------------------------------------
(* Every action of the driver keeps the invariant.                          *)

LEMMA OpenCaptureStep ==
  ASSUME IInv, NEW f \in Files, OpenCapture(f), UNCHANGED readVars
  PROVE  IInv'
<1> USE CaptureAssumption DEF IInv, Shape, slotVars, bindVars, chanVars, readVars, endVars,
    lifeVars, workVars, OpenCapture, CanOpen, Active, Closing, WithinBound
<1>1. TypeOK'
  BY DEF TypeOK, Bindings, Channels, Threads
<1>2. ControlShape'
  BY DEF TypeOK, ControlShape, Bindings, Channels, Threads, Ended
<1>3. EndShape'
  BY DEF TypeOK, EndShape, ControlShape, Channels, Threads, Ended
<1>4. WorkerShape'
  BY DEF TypeOK, WorkerShape, Channels, Threads
<1>5. RingShape'
  BY DEF TypeOK, WorkerShape, RingShape, EndShape, Channels, Threads, Ended
<1>6. ReaderShape'
  BY DEF TypeOK, ReaderShape, Channels
<1>7. EndIsVisible'
  BY DEF TypeOK, EndShape, EndIsVisible, Channels, Threads, Ended, ControlShape, Bindings
<1>8. ActiveIsOwned'
  BY DEF TypeOK, ControlShape, ActiveIsOwned, Channels, Bindings
<1>9. ImportedIsServed'
    BY DEF TypeOK, WorkerShape, RingShape, ReaderShape, ImportedIsServed, Channels, Threads,
      Ended, EndShape
<1> QED BY <1>1, <1>2, <1>3, <1>4, <1>5, <1>6, <1>7, <1>8, <1>9

LEMMA FileOnlyStep ==
  ASSUME IInv, NEW f \in Files, FileCleanup(f) \/ CloseOther(f), UNCHANGED readVars
  PROVE  IInv'
<1> USE CaptureAssumption DEF IInv, Shape, slotVars, bindVars, chanVars, readVars, endVars,
    lifeVars, workVars, FileCleanup, CloseOther
<1>1. TypeOK'
  BY DEF TypeOK, Bindings, Channels, Threads
<1>2. ControlShape'
  BY DEF TypeOK, ControlShape, Bindings, Channels, Threads, Ended
<1>3. EndShape'
  BY DEF TypeOK, EndShape, ControlShape, Channels, Threads, Ended
<1>4. WorkerShape'
  BY DEF TypeOK, WorkerShape, Channels, Threads
<1>5. RingShape'
  BY DEF TypeOK, WorkerShape, RingShape, EndShape, Channels, Threads, Ended
<1>6. ReaderShape'
  BY DEF TypeOK, ReaderShape, Channels
<1>7. EndIsVisible'
  BY DEF TypeOK, EndShape, EndIsVisible, Channels, Threads, Ended, ControlShape, Bindings
<1>8. ActiveIsOwned'
  BY DEF TypeOK, ControlShape, ActiveIsOwned, Channels, Bindings
<1>9. ImportedIsServed'
    BY DEF TypeOK, WorkerShape, RingShape, ReaderShape, ImportedIsServed, Channels, Threads,
      Ended, EndShape
<1> QED BY <1>1, <1>2, <1>3, <1>4, <1>5, <1>6, <1>7, <1>8, <1>9

LEMMA CloseCaptureStep ==
  ASSUME IInv, NEW f \in Files, CloseCapture(f), UNCHANGED readVars
  PROVE  IInv'
<1> USE CaptureAssumption DEF IInv, Shape, slotVars, bindVars, chanVars, readVars, endVars,
    lifeVars, workVars, CloseCapture, End
<1>1. TypeOK'
  BY DEF TypeOK, Bindings, Channels, Threads
<1>2. ControlShape'
  BY DEF TypeOK, ControlShape, Bindings, Channels, Threads, Ended
<1>3. EndShape'
  BY DEF TypeOK, EndShape, ControlShape, Channels, Threads, Ended
<1>4. WorkerShape'
  BY DEF TypeOK, WorkerShape, Channels, Threads
<1>5. RingShape'
  BY DEF TypeOK, WorkerShape, RingShape, EndShape, Channels, Threads, Ended
<1>6. ReaderShape'
  BY DEF TypeOK, ReaderShape, Channels
<1>7. EndIsVisible'
  BY DEF TypeOK, EndShape, EndIsVisible, Channels, Threads, Ended, ControlShape, Bindings
<1>8. ActiveIsOwned'
  BY DEF TypeOK, ControlShape, ActiveIsOwned, Channels, Bindings
<1>9. ImportedIsServed'
    BY DEF TypeOK, WorkerShape, RingShape, ReaderShape, ImportedIsServed, Channels, Threads,
      Ended, EndShape
<1> QED BY <1>1, <1>2, <1>3, <1>4, <1>5, <1>6, <1>7, <1>8, <1>9

LEMMA CloseDoneStep ==
  ASSUME IInv, CloseDone, UNCHANGED readVars
  PROVE  IInv'
<1> USE CaptureAssumption DEF IInv, Shape, slotVars, bindVars, chanVars, readVars, endVars,
    lifeVars, workVars, CloseDone
<1>1. TypeOK'
  BY DEF TypeOK, Bindings, Channels, Threads
<1>2. ControlShape'
  BY DEF TypeOK, ControlShape, Bindings, Channels, Threads, Ended
<1>3. EndShape'
  BY DEF TypeOK, EndShape, ControlShape, Channels, Threads, Ended
<1>4. WorkerShape'
  BY DEF TypeOK, WorkerShape, Channels, Threads
<1>5. RingShape'
  BY DEF TypeOK, WorkerShape, RingShape, EndShape, Channels, Threads, Ended
<1>6. ReaderShape'
  BY DEF TypeOK, ReaderShape, Channels
<1>7. EndIsVisible'
  BY DEF TypeOK, EndShape, EndIsVisible, Channels, Threads, Ended, ControlShape, Bindings
<1>8. ActiveIsOwned'
  BY DEF TypeOK, ControlShape, ActiveIsOwned, Channels, Bindings
<1>9. ImportedIsServed'
    BY DEF TypeOK, WorkerShape, RingShape, ReaderShape, ImportedIsServed, Channels, Threads,
      Ended, EndShape
<1> QED BY <1>1, <1>2, <1>3, <1>4, <1>5, <1>6, <1>7, <1>8, <1>9

LEMMA PlugStep ==
  ASSUME IInv, Plug, UNCHANGED readVars
  PROVE  IInv'
<1> USE CaptureAssumption DEF IInv, Shape, slotVars, bindVars, chanVars, readVars, endVars,
    lifeVars, workVars, Plug, WithinBound
<1>1. TypeOK'
  BY DEF TypeOK, Bindings, Channels, Threads
<1>2. ControlShape'
  BY DEF TypeOK, ControlShape, Bindings, Channels, Threads, Ended
<1>3. EndShape'
  BY DEF TypeOK, EndShape, ControlShape, Channels, Threads, Ended
<1>4. WorkerShape'
  BY DEF TypeOK, WorkerShape, Channels, Threads
<1>5. RingShape'
  BY DEF TypeOK, WorkerShape, RingShape, EndShape, Channels, Threads, Ended
<1>6. ReaderShape'
  BY DEF TypeOK, ReaderShape, Channels
<1>7. EndIsVisible'
  BY DEF TypeOK, EndShape, EndIsVisible, Channels, Threads, Ended, ControlShape, Bindings
<1>8. ActiveIsOwned'
  BY DEF TypeOK, ControlShape, ActiveIsOwned, Channels, Bindings
<1>9. ImportedIsServed'
    BY DEF TypeOK, WorkerShape, RingShape, ReaderShape, ImportedIsServed, Channels, Threads,
      Ended, EndShape
<1> QED BY <1>1, <1>2, <1>3, <1>4, <1>5, <1>6, <1>7, <1>8, <1>9

LEMMA UnplugStep ==
  ASSUME IInv, Unplug, UNCHANGED readVars
  PROVE  IInv'
<1> USE CaptureAssumption DEF IInv, Shape, slotVars, bindVars, chanVars, readVars, endVars,
    lifeVars, workVars, Unplug, UnplugStops, End
<1>1. TypeOK'
  BY DEF TypeOK, Bindings, Channels, Threads
<1>2. ControlShape'
  BY DEF TypeOK, ControlShape, Bindings, Channels, Threads, Ended
<1>3. EndShape'
  BY DEF TypeOK, EndShape, ControlShape, Channels, Threads, Ended, Bindings
<1>4. WorkerShape'
  BY DEF TypeOK, WorkerShape, Channels, Threads
<1>5. RingShape'
  BY DEF TypeOK, WorkerShape, RingShape, EndShape, Channels, Threads, Ended
<1>6. ReaderShape'
  BY DEF TypeOK, ReaderShape, Channels
<1>7. EndIsVisible'
  BY DEF TypeOK, EndShape, EndIsVisible, Channels, Threads, Ended, ControlShape, Bindings
<1>8. ActiveIsOwned'
  BY DEF TypeOK, ControlShape, ActiveIsOwned, Channels, Bindings
<1>9. ImportedIsServed'
    BY DEF TypeOK, WorkerShape, RingShape, ReaderShape, ImportedIsServed, Channels, Threads,
      Ended, EndShape
<1> QED BY <1>1, <1>2, <1>3, <1>4, <1>5, <1>6, <1>7, <1>8, <1>9

LEMMA UnplugClearedStep ==
  ASSUME IInv, UnplugCleared, UNCHANGED readVars
  PROVE  IInv'
<1> USE CaptureAssumption DEF IInv, Shape, slotVars, bindVars, chanVars, readVars, endVars,
    lifeVars, workVars, UnplugCleared, OwnerAfterUnplug
<1>1. TypeOK'
  BY DEF TypeOK, Bindings, Channels, Threads
<1>2. ControlShape'
  BY DEF TypeOK, ControlShape, Bindings, Channels, Threads, Ended
<1>3. EndShape'
  BY DEF TypeOK, EndShape, ControlShape, Channels, Threads, Ended
<1>4. WorkerShape'
  BY DEF TypeOK, WorkerShape, Channels, Threads
<1>5. RingShape'
  BY DEF TypeOK, WorkerShape, RingShape, EndShape, Channels, Threads, Ended
<1>6. ReaderShape'
  BY DEF TypeOK, ReaderShape, Channels
<1>7. EndIsVisible'
  BY DEF TypeOK, EndShape, EndIsVisible, Channels, Threads, Ended, ControlShape, Bindings
<1>8. ActiveIsOwned'
  BY DEF TypeOK, ControlShape, ActiveIsOwned, Channels, Bindings
<1>9. ImportedIsServed'
    BY DEF TypeOK, WorkerShape, RingShape, ReaderShape, ImportedIsServed, Channels, Threads,
      Ended, EndShape
<1> QED BY <1>1, <1>2, <1>3, <1>4, <1>5, <1>6, <1>7, <1>8, <1>9

LEMMA DepartureStep ==
  ASSUME IInv, NEW b \in Bindings, Departure(b), UNCHANGED readVars
  PROVE  IInv'
<1> USE CaptureAssumption DEF IInv, Shape, slotVars, bindVars, chanVars, readVars, endVars,
    lifeVars, workVars, Departure
<1>1. TypeOK'
  BY DEF TypeOK, Bindings, Channels, Threads
<1>2. ControlShape'
  BY DEF TypeOK, ControlShape, Bindings, Channels, Threads, Ended
<1>3. EndShape'
  BY DEF TypeOK, EndShape, ControlShape, Channels, Threads, Ended
<1>4. WorkerShape'
  BY DEF TypeOK, WorkerShape, Channels, Threads
<1>5. RingShape'
  BY DEF TypeOK, WorkerShape, RingShape, EndShape, Channels, Threads, Ended
<1>6. ReaderShape'
  BY DEF TypeOK, ReaderShape, Channels
<1>7. EndIsVisible'
  BY DEF TypeOK, EndShape, EndIsVisible, Channels, Threads, Ended, ControlShape, Bindings
<1>8. ActiveIsOwned'
  BY DEF TypeOK, ControlShape, ActiveIsOwned, Channels, Bindings
<1>9. ImportedIsServed'
    BY DEF TypeOK, WorkerShape, RingShape, ReaderShape, ImportedIsServed, Channels, Threads,
      Ended, EndShape
<1> QED BY <1>1, <1>2, <1>3, <1>4, <1>5, <1>6, <1>7, <1>8, <1>9

LEMMA AssignStep ==
  ASSUME IInv, NEW w \in Workers, NEW b \in Bindings, AssignSwapChain(w, b), UNCHANGED readVars
  PROVE  IInv'
<1> USE CaptureAssumption DEF IInv, Shape, slotVars, bindVars, chanVars, readVars, endVars,
    lifeVars, workVars, AssignSwapChain, WithinBound
<1>1. TypeOK'
  BY DEF TypeOK, Bindings, Channels, Threads
<1>2. ControlShape'
  BY DEF TypeOK, ControlShape, Bindings, Channels, Threads, Ended
<1>3. EndShape'
  BY DEF TypeOK, EndShape, ControlShape, Channels, Threads, Ended, Bindings
<1>4. WorkerShape'
  BY DEF TypeOK, WorkerShape, Channels, Threads, Bindings
<1>5. RingShape'
  BY DEF TypeOK, WorkerShape, RingShape, EndShape, Channels, Threads, Ended, Bindings
<1>6. ReaderShape'
  BY DEF TypeOK, ReaderShape, Channels, Bindings
<1>7. EndIsVisible'
  BY DEF TypeOK, EndShape, EndIsVisible, Channels, Threads, Ended, ControlShape, Bindings
<1>8. ActiveIsOwned'
  BY DEF TypeOK, ControlShape, ActiveIsOwned, Channels, Bindings
<1>9. ImportedIsServed'
    BY DEF TypeOK, WorkerShape, RingShape, ReaderShape, ImportedIsServed, Channels, Threads,
      Ended, EndShape, Bindings
<1> QED BY <1>1, <1>2, <1>3, <1>4, <1>5, <1>6, <1>7, <1>8, <1>9

LEMMA UnassignStep ==
  ASSUME IInv, NEW w \in Workers, UnassignSwapChain(w), UNCHANGED readVars
  PROVE  IInv'
<1> USE CaptureAssumption DEF IInv, Shape, slotVars, bindVars, chanVars, readVars, endVars,
    lifeVars, workVars, UnassignSwapChain
<1>1. TypeOK'
  BY DEF TypeOK, Bindings, Channels, Threads
<1>2. ControlShape'
  BY DEF TypeOK, ControlShape, Bindings, Channels, Threads, Ended
<1>3. EndShape'
  BY DEF TypeOK, EndShape, ControlShape, Channels, Threads, Ended
<1>4. WorkerShape'
  BY DEF TypeOK, WorkerShape, Channels, Threads
<1>5. RingShape'
  BY DEF TypeOK, WorkerShape, RingShape, EndShape, Channels, Threads, Ended
<1>6. ReaderShape'
  BY DEF TypeOK, ReaderShape, Channels
<1>7. EndIsVisible'
  BY DEF TypeOK, EndShape, EndIsVisible, Channels, Threads, Ended, ControlShape, Bindings
<1>8. ActiveIsOwned'
  BY DEF TypeOK, ControlShape, ActiveIsOwned, Channels, Bindings
<1>9. ImportedIsServed'
    BY DEF TypeOK, WorkerShape, RingShape, ReaderShape, ImportedIsServed, Channels, Threads,
      Ended, EndShape
<1> QED BY <1>1, <1>2, <1>3, <1>4, <1>5, <1>6, <1>7, <1>8, <1>9

LEMMA LoopEndsStep ==
  ASSUME IInv, NEW w \in Workers, LoopEnds(w), UNCHANGED readVars
  PROVE  IInv'
<1> USE CaptureAssumption DEF IInv, Shape, slotVars, bindVars, chanVars, readVars, endVars,
    lifeVars, workVars, LoopEnds, Running, Goto, ControlSame
<1>1. TypeOK'
  BY DEF TypeOK, Bindings, Channels, Threads
<1>2. ControlShape'
  BY DEF TypeOK, ControlShape, Bindings, Channels, Threads, Ended
<1>3. EndShape'
  BY DEF TypeOK, EndShape, ControlShape, Channels, Threads, Ended
<1>4. WorkerShape'
  BY DEF TypeOK, WorkerShape, Channels, Threads
<1>5. RingShape'
  BY DEF TypeOK, WorkerShape, RingShape, EndShape, Channels, Threads, Ended
<1>6. ReaderShape'
  BY DEF TypeOK, ReaderShape, Channels
<1>7. EndIsVisible'
  BY DEF TypeOK, EndShape, EndIsVisible, Channels, Threads, Ended, ControlShape, Bindings
<1>8. ActiveIsOwned'
  BY DEF TypeOK, ControlShape, ActiveIsOwned, Channels, Bindings
<1>9. ImportedIsServed'
    BY DEF TypeOK, WorkerShape, RingShape, ReaderShape, ImportedIsServed, Channels, Threads,
      Ended, EndShape
<1> QED BY <1>1, <1>2, <1>3, <1>4, <1>5, <1>6, <1>7, <1>8, <1>9

LEMMA TurnStep ==
  ASSUME IInv, NEW w \in Workers, NoFrame(w) \/ FirstFrame(w), UNCHANGED readVars
  PROVE  IInv'
<1> USE CaptureAssumption DEF IInv, Shape, slotVars, bindVars, chanVars, readVars, endVars,
    lifeVars, workVars, NoFrame, FirstFrame, Turn, Replaced, Requested, Active, Publishing,
    Running, Goto, ControlSame
<1>1. TypeOK'
  <2>1. home[w] \in Bindings BY DEF TypeOK, WorkerShape
  <2>2. Requested(w) \in 1 .. opened \cup {None} BY <2>1 DEF TypeOK
  <2>3. chan' \in [Workers -> 1 .. opened \cup {None}] BY <2>2 DEF TypeOK
  <2>4. pc' \in {pc, [pc EXCEPT ![w] = "init"]} /\ pc[w] = "top"
    OBVIOUS
  <2> HIDE DEF Requested
  <2> QED BY <2>3, <2>4 DEF TypeOK
<1>2. ControlShape'
  BY DEF TypeOK, ControlShape, Bindings, Channels, Threads, Ended
<1>3. EndShape'
  BY DEF TypeOK, EndShape, ControlShape, Channels, Threads, Ended
<1>4. WorkerShape'
  BY DEF TypeOK, WorkerShape, Channels, Threads
<1>5. RingShape'
  BY DEF TypeOK, WorkerShape, RingShape, EndShape, Channels, Threads, Ended
<1>6. ReaderShape'
  BY DEF TypeOK, ReaderShape, Channels
<1>7. EndIsVisible'
  BY DEF TypeOK, EndShape, EndIsVisible, Channels, Threads, Ended, ControlShape, Bindings
<1>8. ActiveIsOwned'
  BY DEF TypeOK, ControlShape, ActiveIsOwned, Channels, Bindings
<1>9. ImportedIsServed'
    BY DEF TypeOK, WorkerShape, RingShape, ReaderShape, ImportedIsServed, Channels, Threads,
      Ended, EndShape
<1> QED BY <1>1, <1>2, <1>3, <1>4, <1>5, <1>6, <1>7, <1>8, <1>9

LEMMA FrameRefusedStep ==
  ASSUME IInv, NEW w \in Workers, FrameRefused(w), UNCHANGED readVars
  PROVE  IInv'
<1> USE CaptureAssumption DEF IInv, Shape, slotVars, bindVars, chanVars, readVars, endVars,
    lifeVars, workVars, FrameRefused, End, Turn, Replaced, Requested, Active, Publishing,
    Running, Goto, ControlSame
<1>1. TypeOK'
  BY DEF TypeOK, Bindings, Channels, Threads, WorkerShape, RingShape
<1>2. ControlShape'
  BY DEF TypeOK, ControlShape, Bindings, Channels, Threads, Ended
<1>3. EndShape'
    BY DEF TypeOK, EndShape, ControlShape, Channels, Threads, Ended, WorkerShape, RingShape,
      Bindings
<1>4. WorkerShape'
  BY DEF TypeOK, WorkerShape, Channels, Threads
<1>5. RingShape'
  BY DEF TypeOK, WorkerShape, RingShape, EndShape, Channels, Threads, Ended
<1>6. ReaderShape'
  BY DEF TypeOK, ReaderShape, Channels
<1>7. EndIsVisible'
  BY DEF TypeOK, EndShape, EndIsVisible, Channels, Threads, Ended, ControlShape, Bindings
<1>8. ActiveIsOwned'
  BY DEF TypeOK, ControlShape, ActiveIsOwned, Channels, Bindings
<1>9. ImportedIsServed'
    BY DEF TypeOK, WorkerShape, RingShape, ReaderShape, ImportedIsServed, Channels, Threads,
      Ended, EndShape
<1> QED BY <1>1, <1>2, <1>3, <1>4, <1>5, <1>6, <1>7, <1>8, <1>9

LEMMA DropPublisherStep ==
  ASSUME IInv, NEW w \in Workers, DropPublisher(w), UNCHANGED readVars
  PROVE  IInv'
<1> USE CaptureAssumption DEF IInv, Shape, slotVars, bindVars, chanVars, readVars, endVars,
    lifeVars, workVars, DropPublisher, End, Replaced, Requested, Active, Publishing,
    NamesWhileStopping, Running, Goto, ControlSame
<1>1. TypeOK'
  BY DEF TypeOK, Bindings, Channels, Threads, WorkerShape, RingShape
<1>2. ControlShape'
  BY DEF TypeOK, ControlShape, Bindings, Channels, Threads, Ended
<1>3. EndShape'
    BY DEF TypeOK, EndShape, ControlShape, Channels, Threads, Ended, WorkerShape, RingShape,
      Bindings
<1>4. WorkerShape'
  BY DEF TypeOK, WorkerShape, Channels, Threads
<1>5. RingShape'
  BY DEF TypeOK, WorkerShape, RingShape, EndShape, Channels, Threads, Ended
<1>6. ReaderShape'
  BY DEF TypeOK, ReaderShape, Channels
<1>7. EndIsVisible'
  BY DEF TypeOK, EndShape, EndIsVisible, Channels, Threads, Ended, ControlShape, Bindings
<1>8. ActiveIsOwned'
  BY DEF TypeOK, ControlShape, ActiveIsOwned, Channels, Bindings
<1>9. ImportedIsServed'
    BY DEF TypeOK, WorkerShape, RingShape, ReaderShape, ImportedIsServed, Channels, Threads,
      Ended, EndShape
<1> QED BY <1>1, <1>2, <1>3, <1>4, <1>5, <1>6, <1>7, <1>8, <1>9

LEMMA PublisherDroppedStep ==
  ASSUME IInv, NEW w \in Workers, PublisherDropped(w), UNCHANGED readVars
  PROVE  IInv'
<1> USE CaptureAssumption DEF IInv, Shape, slotVars, bindVars, chanVars, readVars, endVars,
    lifeVars, workVars, PublisherDropped, Freed, Running, Goto, ControlSame
<1>1. TypeOK'
  BY DEF TypeOK, Bindings, Channels, Threads
<1>2. ControlShape'
  BY DEF TypeOK, ControlShape, Bindings, Channels, Threads, Ended
<1>3. EndShape'
  BY DEF TypeOK, EndShape, ControlShape, Channels, Threads, Ended
<1>4. WorkerShape'
  BY DEF TypeOK, WorkerShape, Channels, Threads
<1>5. RingShape'
  BY DEF TypeOK, WorkerShape, RingShape, EndShape, Channels, Threads, Ended
<1>6. ReaderShape'
  BY DEF TypeOK, ReaderShape, Channels
<1>7. EndIsVisible'
  BY DEF TypeOK, EndShape, EndIsVisible, Channels, Threads, Ended, ControlShape, Bindings
<1>8. ActiveIsOwned'
  BY DEF TypeOK, ControlShape, ActiveIsOwned, Channels, Bindings
<1>9. ImportedIsServed'
  <2>1. target[w] = None BY DEF EndShape, Threads, Ended
  <2>2. \A c \in Channels : names[c] = w => mstate[c] \in {"stopped", "failed"}
    BY <2>1 DEF RingShape, Channels
  <2>3. \A c \in Channels : mstate[c] = "ready" => names'[c] = names[c]
    BY <2>2 DEF TypeOK
  <2> QED BY <2>3 DEF TypeOK, ImportedIsServed
<1> QED BY <1>1, <1>2, <1>3, <1>4, <1>5, <1>6, <1>7, <1>8, <1>9

LEMMA CreateRingStep ==
  ASSUME IInv, NEW w \in Workers, CreateRing(w), UNCHANGED readVars
  PROVE  IInv'
<1> USE CaptureAssumption DEF IInv, Shape, slotVars, bindVars, chanVars, readVars, endVars,
    lifeVars, workVars, CreateRing, NameFree, Running, Goto, ControlSame
<1>1. TypeOK'
  BY DEF TypeOK, Bindings, Channels, Threads
<1>2. ControlShape'
  BY DEF TypeOK, ControlShape, Bindings, Channels, Threads, Ended
<1>3. EndShape'
  BY DEF TypeOK, EndShape, ControlShape, Channels, Threads, Ended
<1>4. WorkerShape'
  BY DEF TypeOK, WorkerShape, Channels, Threads
<1>5. RingShape'
  BY DEF TypeOK, WorkerShape, RingShape, EndShape, Channels, Threads, Ended
<1>6. ReaderShape'
  BY DEF TypeOK, ReaderShape, Channels
<1>7. EndIsVisible'
  BY DEF TypeOK, EndShape, EndIsVisible, Channels, Threads, Ended, ControlShape, Bindings
<1>8. ActiveIsOwned'
  BY DEF TypeOK, ControlShape, ActiveIsOwned, Channels, Bindings
<1>9. ImportedIsServed'
    BY DEF TypeOK, WorkerShape, RingShape, ReaderShape, ImportedIsServed, Channels, Threads,
      Ended, EndShape
<1> QED BY <1>1, <1>2, <1>3, <1>4, <1>5, <1>6, <1>7, <1>8, <1>9

LEMMA InitFailsStep ==
  ASSUME IInv, NEW w \in Workers, InitFails(w), UNCHANGED readVars
  PROVE  IInv'
<1> USE CaptureAssumption DEF IInv, Shape, slotVars, bindVars, chanVars, readVars, endVars,
    lifeVars, workVars, InitFails, End, NameFree, Running, Goto, ControlSame
<1>1. TypeOK'
  <2>1. chan[w] \in 1 .. opened /\ chan[w] \in Channels
    BY DEF TypeOK, WorkerShape, Channels
  <2>2. names' \in [Channels -> Workers \cup {None}]
    BY <2>1 DEF TypeOK
  <2>3. stopped' \in [Channels -> BOOLEAN] /\ ending' = [ending EXCEPT ![w] = "exchange"]
        /\ target' = [target EXCEPT ![w] = chan[w]]
    BY <2>1 DEF TypeOK
  <2> QED BY <2>1, <2>2, <2>3 DEF TypeOK, Threads
<1>2. ControlShape'
  BY DEF TypeOK, ControlShape, Bindings, Channels, Threads, Ended
<1>3. EndShape'
    BY DEF TypeOK, EndShape, ControlShape, Channels, Threads, Ended, WorkerShape, RingShape,
      Bindings
<1>4. WorkerShape'
  BY DEF TypeOK, WorkerShape, Channels, Threads
<1>5. RingShape'
  BY DEF TypeOK, WorkerShape, RingShape, EndShape, Channels, Threads, Ended
<1>6. ReaderShape'
  BY DEF TypeOK, ReaderShape, Channels
<1>7. EndIsVisible'
  BY DEF TypeOK, EndShape, EndIsVisible, Channels, Threads, Ended, ControlShape, Bindings
<1>8. ActiveIsOwned'
  BY DEF TypeOK, ControlShape, ActiveIsOwned, Channels, Bindings
<1>9. ImportedIsServed'
    BY DEF TypeOK, WorkerShape, RingShape, ReaderShape, ImportedIsServed, Channels, Threads,
      Ended, EndShape
<1> QED BY <1>1, <1>2, <1>3, <1>4, <1>5, <1>6, <1>7, <1>8, <1>9

LEMMA DescribeStep ==
  ASSUME IInv, NEW w \in Workers, Describe(w), UNCHANGED readVars
  PROVE  IInv'
<1> USE CaptureAssumption DEF IInv, Shape, slotVars, bindVars, chanVars, readVars, endVars,
    lifeVars, workVars, Describe, Running, Goto, ControlSame
<1>1. TypeOK'
  BY DEF TypeOK, Bindings, Channels, Threads
<1>2. ControlShape'
  BY DEF TypeOK, ControlShape, Bindings, Channels, Threads, Ended
<1>3. EndShape'
  BY DEF TypeOK, EndShape, ControlShape, Channels, Threads, Ended
<1>4. WorkerShape'
  BY DEF TypeOK, WorkerShape, Channels, Threads
<1>5. RingShape'
  BY DEF TypeOK, WorkerShape, RingShape, EndShape, Channels, Threads, Ended
<1>6. ReaderShape'
  BY DEF TypeOK, ReaderShape, Channels
<1>7. EndIsVisible'
  BY DEF TypeOK, EndShape, EndIsVisible, Channels, Threads, Ended, ControlShape, Bindings
<1>8. ActiveIsOwned'
  BY DEF TypeOK, ControlShape, ActiveIsOwned, Channels, Bindings
<1>9. ImportedIsServed'
    BY DEF TypeOK, WorkerShape, RingShape, ReaderShape, ImportedIsServed, Channels, Threads,
      Ended, EndShape
<1> QED BY <1>1, <1>2, <1>3, <1>4, <1>5, <1>6, <1>7, <1>8, <1>9

LEMMA AnnounceStep ==
  ASSUME IInv, NEW w \in Workers, Announce(w), UNCHANGED readVars
  PROVE  IInv'
<1> USE CaptureAssumption DEF IInv, Shape, slotVars, bindVars, chanVars, readVars, endVars,
    lifeVars, workVars, Announce, Cas, Running, Goto, ControlSame
<1>1. TypeOK'
  BY DEF TypeOK, Bindings, Channels, Threads
<1>2. ControlShape'
  BY DEF TypeOK, ControlShape, Bindings, Channels, Threads, Ended
<1>3. EndShape'
  BY DEF TypeOK, EndShape, ControlShape, Channels, Threads, Ended
<1>4. WorkerShape'
  BY DEF TypeOK, WorkerShape, Channels, Threads
<1>5. RingShape'
  BY DEF TypeOK, WorkerShape, RingShape, EndShape, Channels, Threads, Ended
<1>6. ReaderShape'
  BY DEF TypeOK, ReaderShape, Channels
<1>7. EndIsVisible'
  BY DEF TypeOK, EndShape, EndIsVisible, Channels, Threads, Ended, ControlShape, Bindings
<1>8. ActiveIsOwned'
  BY DEF TypeOK, ControlShape, ActiveIsOwned, Channels, Bindings
<1>9. ImportedIsServed'
    BY DEF TypeOK, WorkerShape, RingShape, ReaderShape, ImportedIsServed, Channels, Threads,
      Ended, EndShape
<1> QED BY <1>1, <1>2, <1>3, <1>4, <1>5, <1>6, <1>7, <1>8, <1>9

LEMMA LeaveStep ==
  ASSUME IInv, NEW w \in Workers, Leave(w), UNCHANGED readVars
  PROVE  IInv'
<1> USE CaptureAssumption DEF IInv, Shape, slotVars, bindVars, chanVars, readVars, endVars,
    lifeVars, workVars, Leave, End, Running, Goto, ControlSame
<1>c. /\ UNCHANGED <<slotVars, file, bindVars, lifeVars, mstate, desc, names, chan>>
      /\ pc' = [pc EXCEPT ![w] = "quit"] /\ Ended(w) /\ w \in Threads /\ w # Control
  BY DEF TypeOK, Threads
<1>e. \/ chan[w] = None /\ UNCHANGED <<stopped, endVars>>
      \/ /\ chan[w] \in 1 .. opened /\ chan[w] \in Channels
         /\ stopped' = [stopped EXCEPT ![chan[w]] = TRUE]
         /\ ending' = [ending EXCEPT ![w] = "cas1"] /\ target' = [target EXCEPT ![w] = chan[w]]
  BY DEF TypeOK, Channels
<1>g. \A c \in Channels : stopped[c] => stopped'[c]
  BY <1>e DEF TypeOK
<1>1. TypeOK'
  <2>1. /\ stopped' \in [Channels -> BOOLEAN]
        /\ ending' \in [Threads -> {"none", "cas1", "cas2", "exchange"}]
        /\ target' \in [Threads -> 1 .. opened \cup {None}]
    <3>1. CASE chan[w] = None BY <1>e, <3>1 DEF TypeOK
    <3>2. CASE chan[w] # None BY <1>e, <3>2 DEF TypeOK
    <3> QED BY <3>1, <3>2
  <2> HIDE DEF Leave, End, Goto, ControlSame
  <2> QED BY <1>c, <2>1 DEF TypeOK
<1>2. ControlShape'
  BY <1>g, <1>e DEF TypeOK, ControlShape, Bindings, Channels, Threads, Ended
<1>3. EndShape'
  BY DEF TypeOK, EndShape, ControlShape, Channels, Threads, Ended
<1>4. WorkerShape'
  BY DEF TypeOK, WorkerShape, Channels, Threads
<1>5. RingShape'
  BY DEF TypeOK, WorkerShape, RingShape, EndShape, Channels, Threads, Ended
<1>6. ReaderShape'
  BY DEF TypeOK, ReaderShape, Channels
<1>7. EndIsVisible'
  <2>1. ASSUME NEW c \in Channels, stopped'[c], \A t \in Threads : target'[t] # c
        PROVE  mstate'[c] \in {"stopped", "failed"}
    <3>0. w \in Threads /\ target \in [Threads -> 1 .. opened \cup {None}] BY <1>c DEF TypeOK
    <3>n. None \notin Channels BY DEF Channels
    <3>1. c # chan[w]
      <4>1. CASE chan[w] = None BY <2>1, <3>n, <4>1
      <4>2. CASE chan[w] # None
        <5>1. target'[w] = chan[w] BY <1>e, <3>0, <4>2
        <5> QED BY <2>1, <3>0, <5>1
      <4> QED BY <4>1, <4>2
    <3>2. \A t \in Threads : target[t] # c
      BY <1>e, <2>1 DEF TypeOK, EndShape, Ended, Channels, Threads
    <3> QED BY <1>c, <1>e, <2>1, <3>1, <3>2 DEF TypeOK, EndIsVisible
  <2> QED BY <2>1 DEF EndIsVisible
<1>8. ActiveIsOwned'
  BY <1>g DEF TypeOK, ActiveIsOwned, Channels
<1>9. ImportedIsServed'
    BY DEF TypeOK, WorkerShape, RingShape, ReaderShape, ImportedIsServed, Channels, Threads,
      Ended, EndShape
<1> QED BY <1>1, <1>2, <1>3, <1>4, <1>5, <1>6, <1>7, <1>8, <1>9

LEMMA QuitStep ==
  ASSUME IInv, NEW w \in Workers, Quit(w), UNCHANGED readVars
  PROVE  IInv'
<1> USE CaptureAssumption DEF IInv, Shape, slotVars, bindVars, chanVars, readVars, endVars,
    lifeVars, workVars, Quit, Freed, Running, Goto, ControlSame
<1>1. TypeOK'
  BY DEF TypeOK, Bindings, Channels, Threads
<1>2. ControlShape'
  BY DEF TypeOK, ControlShape, Bindings, Channels, Threads, Ended
<1>3. EndShape'
  BY DEF TypeOK, EndShape, ControlShape, Channels, Threads, Ended
<1>4. WorkerShape'
  BY DEF TypeOK, WorkerShape, Channels, Threads
<1>5. RingShape'
  BY DEF TypeOK, WorkerShape, RingShape, EndShape, Channels, Threads, Ended
<1>6. ReaderShape'
  BY DEF TypeOK, ReaderShape, Channels
<1>7. EndIsVisible'
  BY DEF TypeOK, EndShape, EndIsVisible, Channels, Threads, Ended, ControlShape, Bindings
<1>8. ActiveIsOwned'
  BY DEF TypeOK, ControlShape, ActiveIsOwned, Channels, Bindings
<1>9. ImportedIsServed'
    BY DEF TypeOK, WorkerShape, RingShape, ReaderShape, ImportedIsServed, Channels, Threads,
      Ended, EndShape
<1> QED BY <1>1, <1>2, <1>3, <1>4, <1>5, <1>6, <1>7, <1>8, <1>9

LEMMA StopFirstStep ==
  ASSUME IInv, NEW t \in Threads, StopFirst(t), UNCHANGED readVars
  PROVE  IInv'
<1> USE CaptureAssumption DEF IInv, Shape, slotVars, bindVars, chanVars, readVars, endVars,
    lifeVars, workVars, StopFirst, Cas, StopOrder
<1>1. TypeOK'
  BY DEF TypeOK, Bindings, Channels, Threads
<1>2. ControlShape'
  BY DEF TypeOK, ControlShape, Bindings, Channels, Threads, Ended
<1>3. EndShape'
  BY DEF TypeOK, EndShape, ControlShape, Channels, Threads, Ended
<1>4. WorkerShape'
  BY DEF TypeOK, WorkerShape, Channels, Threads
<1>5. RingShape'
  BY DEF TypeOK, WorkerShape, RingShape, EndShape, Channels, Threads, Ended
<1>6. ReaderShape'
  BY DEF TypeOK, ReaderShape, Channels
<1>7. EndIsVisible'
  BY DEF TypeOK, EndShape, EndIsVisible, Channels, Threads, Ended, ControlShape, Bindings
<1>8. ActiveIsOwned'
  BY DEF TypeOK, ControlShape, ActiveIsOwned, Channels, Bindings
<1>9. ImportedIsServed'
    BY DEF TypeOK, WorkerShape, RingShape, ReaderShape, ImportedIsServed, Channels, Threads,
      Ended, EndShape
<1> QED BY <1>1, <1>2, <1>3, <1>4, <1>5, <1>6, <1>7, <1>8, <1>9

LEMMA StopSecondStep ==
  ASSUME IInv, NEW t \in Threads, StopSecond(t), UNCHANGED readVars
  PROVE  IInv'
<1> USE CaptureAssumption DEF IInv, Shape, slotVars, bindVars, chanVars, readVars, endVars,
    lifeVars, workVars, StopSecond, Cas, StopOrder
<1>1. TypeOK'
  BY DEF TypeOK, Bindings, Channels, Threads
<1>2. ControlShape'
  BY DEF TypeOK, ControlShape, Bindings, Channels, Threads, Ended
<1>3. EndShape'
  BY DEF TypeOK, EndShape, ControlShape, Channels, Threads, Ended
<1>4. WorkerShape'
  BY DEF TypeOK, WorkerShape, Channels, Threads
<1>5. RingShape'
  BY DEF TypeOK, WorkerShape, RingShape, EndShape, Channels, Threads, Ended
<1>6. ReaderShape'
  BY DEF TypeOK, ReaderShape, Channels
<1>7. EndIsVisible'
  BY DEF TypeOK, EndShape, EndIsVisible, Channels, Threads, Ended, ControlShape, Bindings
<1>8. ActiveIsOwned'
  BY DEF TypeOK, ControlShape, ActiveIsOwned, Channels, Bindings
<1>9. ImportedIsServed'
    BY DEF TypeOK, WorkerShape, RingShape, ReaderShape, ImportedIsServed, Channels, Threads,
      Ended, EndShape
<1> QED BY <1>1, <1>2, <1>3, <1>4, <1>5, <1>6, <1>7, <1>8, <1>9

LEMMA FailExchangeStep ==
  ASSUME IInv, NEW t \in Threads, FailExchange(t), UNCHANGED readVars
  PROVE  IInv'
<1> USE CaptureAssumption DEF IInv, Shape, slotVars, bindVars, chanVars, readVars, endVars,
    lifeVars, workVars, FailExchange
<1>1. TypeOK'
  BY DEF TypeOK, Bindings, Channels, Threads
<1>2. ControlShape'
  BY DEF TypeOK, ControlShape, Bindings, Channels, Threads, Ended
<1>3. EndShape'
  BY DEF TypeOK, EndShape, ControlShape, Channels, Threads, Ended
<1>4. WorkerShape'
  BY DEF TypeOK, WorkerShape, Channels, Threads
<1>5. RingShape'
  BY DEF TypeOK, WorkerShape, RingShape, EndShape, Channels, Threads, Ended
<1>6. ReaderShape'
  BY DEF TypeOK, ReaderShape, Channels
<1>7. EndIsVisible'
  BY DEF TypeOK, EndShape, EndIsVisible, Channels, Threads, Ended, ControlShape, Bindings
<1>8. ActiveIsOwned'
  BY DEF TypeOK, ControlShape, ActiveIsOwned, Channels, Bindings
<1>9. ImportedIsServed'
    BY DEF TypeOK, WorkerShape, RingShape, ReaderShape, ImportedIsServed, Channels, Threads,
      Ended, EndShape
<1> QED BY <1>1, <1>2, <1>3, <1>4, <1>5, <1>6, <1>7, <1>8, <1>9

-----------------------------------------------------------------------------
(* So do the reader's steps, which leave the driver's state alone.          *)

LEMMA ReaderStep ==
  ASSUME IInv, (\E c \in Channels : OpenTexture(c)) \/ ImportOver
  PROVE  IInv'
<1> USE CaptureAssumption DEF IInv, Shape, DriverSame, slotVars, bindVars, chanVars, endVars,
    lifeVars, workVars
<1>s. DriverSame
  BY DEF OpenTexture, ImportOver
<1>1. TypeOK'
  <2>1. reader' \in Channels \cup {None} /\ got' \subseteq Workers
    BY DEF TypeOK, OpenTexture, ImportOver
  <2> QED BY <1>s, <2>1 DEF TypeOK
<1>2. ControlShape' /\ EndShape' /\ WorkerShape' /\ RingShape'
  BY <1>s DEF ControlShape, EndShape, WorkerShape, RingShape, Ended
<1>3. ReaderShape'
  BY DEF ReaderShape, OpenTexture, ImportOver, Channels
<1>4. EndIsVisible' /\ ActiveIsOwned'
  BY <1>s DEF EndIsVisible, ActiveIsOwned
<1>5. ImportedIsServed'
  BY <1>s DEF ImportedIsServed, ReaderShape, OpenTexture, ImportOver, Channels
<1> QED BY <1>1, <1>2, <1>3, <1>4, <1>5

LEMMA StutterStep ==
  ASSUME IInv, UNCHANGED vars
  PROVE  IInv'
BY DEF IInv, Shape, TypeOK, ControlShape, EndShape, WorkerShape, RingShape, ReaderShape,
       EndIsVisible, ActiveIsOwned, ImportedIsServed, Ended, vars, slotVars, bindVars,
       chanVars, readVars, endVars, lifeVars, workVars

-----------------------------------------------------------------------------
(* The theorems.                                                            *)

LEMMA IInvInit == Init => IInv
<1> SUFFICES ASSUME Init PROVE IInv OBVIOUS
<1> USE CaptureAssumption DEF Init
<1>1. TypeOK
  BY DEF TypeOK, Bindings, Channels, Threads
<1>2. ControlShape /\ EndShape /\ WorkerShape /\ RingShape
  BY DEF ControlShape, EndShape, WorkerShape, RingShape, Ended, Channels, Threads
<1>3. ReaderShape /\ EndIsVisible /\ ActiveIsOwned /\ ImportedIsServed
  BY DEF ReaderShape, EndIsVisible, ActiveIsOwned, ImportedIsServed, Channels
<1> QED BY <1>1, <1>2, <1>3 DEF IInv, Shape

LEMMA DriverStepKeeps ==
  ASSUME IInv, DriverStep, UNCHANGED readVars
  PROVE  IInv'
<1>1. ASSUME NEW f \in Files,
             OpenCapture(f) \/ FileCleanup(f) \/ CloseOther(f) \/ CloseCapture(f)
      PROVE  IInv'
  BY <1>1, OpenCaptureStep, FileOnlyStep, CloseCaptureStep
<1>2. ASSUME CloseDone \/ Plug \/ Unplug \/ UnplugCleared
      PROVE  IInv'
  BY <1>2, CloseDoneStep, PlugStep, UnplugStep, UnplugClearedStep
<1>3. ASSUME NEW b \in Bindings, Departure(b)
      PROVE  IInv'
  BY <1>3, DepartureStep
<1>4. ASSUME NEW w \in Workers, (\E b \in Bindings : AssignSwapChain(w, b)) \/
    UnassignSwapChain(w)
      PROVE  IInv'
  BY <1>4, AssignStep, UnassignStep
<1>5. ASSUME NEW w \in Workers, FrameStep(w)
      PROVE  IInv'
  BY <1>5, LoopEndsStep, TurnStep, FrameRefusedStep DEF FrameStep
<1>6. ASSUME NEW w \in Workers, WorkerStep(w)
      PROVE  IInv'
  BY <1>6, DropPublisherStep, PublisherDroppedStep, CreateRingStep, InitFailsStep,
     DescribeStep, AnnounceStep, LeaveStep, QuitStep DEF WorkerStep
<1>7. ASSUME NEW t \in Threads, EndStep(t)
      PROVE  IInv'
  BY <1>7, StopFirstStep, StopSecondStep, FailExchangeStep DEF EndStep
<1> QED BY <1>1, <1>2, <1>3, <1>4, <1>5, <1>6, <1>7 DEF DriverStep

LEMMA IInvStep == IInv /\ [Next]_vars => IInv'
<1> SUFFICES ASSUME IInv, [Next]_vars PROVE IInv' OBVIOUS
<1>1. CASE DriverStep /\ UNCHANGED readVars BY <1>1, DriverStepKeeps
<1>2. CASE (\E c \in Channels : OpenTexture(c)) \/ ImportOver BY <1>2, ReaderStep
<1>3. CASE UNCHANGED vars BY <1>3, StutterStep
<1> QED BY <1>1, <1>2, <1>3 DEF Next

LEMMA IInvAlways == Spec => []IInv
BY IInvInit, IInvStep, PTL DEF Spec

\* Every variable keeps to its type: no channel or binding is numbered beyond
\* those created, whichever of request, cleanup, unplug and worker comes first.
THEOREM TypeCorrect == Spec => []TypeOK
<1>1. IInv => TypeOK BY DEF IInv, Shape
<1> QED BY <1>1, IInvAlways, PTL

\* A channel whose Stop or Fail has run to its end says "stopped" or "failed":
\* neither the worker that announces its ring nor a second end overwrites it.
THEOREM EndsAreVisible == Spec => []EndIsVisible
<1>1. IInv => EndIsVisible BY DEF IInv
<1> QED BY <1>1, IInvAlways, PTL

\* A channel nobody has ended is the one of the plugged monitor, and its handle
\* has not been cleaned up: OpenCapture, CloseCapture and Unplug leave no orphan.
THEOREM ActiveChannelsAreOwned == Spec => []ActiveIsOwned
<1>1. IInv => ActiveIsOwned BY DEF IInv
<1> QED BY <1>1, IInvAlways, PTL

\* What a reader opens by name while the state is READY is the ring that Meta
\* describes, with any number of workers created and retired on the channel.
THEOREM ImportsAreServed == Spec => []ImportedIsServed
<1>1. IInv => ImportedIsServed BY DEF IInv
<1> QED BY <1>1, IInvAlways, PTL

=============================================================================
