--------------------------- MODULE CaptureChannel ---------------------------
(***************************************************************************)
(* The life of capture channels: who may open one, who ends it, and what   *)
(* the reader sees of it.                                                  *)
(*                                                                         *)
(* One cookie's slot, plugged and unplugged.  Every plug brings a new      *)
(* CaptureBinding, shared by the slot and by the swap-chain workers of its *)
(* monitor.  OPEN_CAPTURE puts a new FrameChannel into the binding; the    *)
(* workers find it there, create its ring of named textures and fill it    *)
(* (FrameRing).  It ends when its file is cleaned up, the monitor is       *)
(* unplugged, publishing fails, or a worker leaves its frame loop - and    *)
(* none of these takes a lock the others hold.  A reader that has seen     *)
(* READY opens the textures by name, one after the other.                  *)
(*                                                                         *)
(* Stop and Fail are sequences of atomic accesses, so they are steps here; *)
(* what runs under m_Lock is one step up to a Stop it makes.  The monitor  *)
(* that arrives for a plug is taken to carry the slot's binding; the race  *)
(* in which it does not is VddSlots's.                                     *)
(***************************************************************************)
EXTENDS Naturals

CONSTANTS
  Files,      \* open handles of the device
  Workers,    \* swap-chain workers
  Control,    \* the thread holding m_Lock
  MaxPlugs,   \* bound: plugs of the cookie, each with its binding
  MaxOpens,   \* bound: channels created
  MaxEvents,  \* bound: plugs, channels and workers together
  None

Bindings == 1 .. MaxPlugs
Channels == 1 .. MaxOpens
Threads == Workers \cup {Control}

ASSUME CaptureAssumption ==
  /\ MaxPlugs \in Nat /\ MaxOpens \in Nat /\ MaxEvents \in Nat
  /\ Control \notin Workers
  /\ None \notin Files \cup Workers \cup {Control} \cup Nat

VARIABLES
  bound,      \* the slot's binding, None when it is empty
  owner,      \* Slot.CaptureOwner
  op,         \* what holds m_Lock across a Stop
  monitors,   \* bindings of the monitors the OS has
  plugs,      \* number of plugs so far
  file,       \* life of each handle: its Closing flag is set in "closing"
  channelOf,  \* CaptureBinding::Channel of each binding
  opened,     \* number of channels created
  stopped,    \* FrameChannel::Stopped
  mstate,     \* Meta.State
  desc,       \* the worker whose ring Meta describes
  names,      \* the worker that holds the named textures
  reader,     \* the channel whose textures a reader opens, one by one
  got,        \* the workers whose textures it has opened
  ending,     \* the Stop or Fail each thread is in
  target,     \* and the channel it ends
  pc,         \* where each worker is
  home,       \* its binding
  starts,     \* number of workers started so far
  attached,   \* it is its monitor's m_ProcessingThread
  chan        \* RunCore's Channel

slotVars == <<bound, owner, op, monitors, plugs>>
bindVars == <<channelOf, opened>>
chanVars == <<stopped, mstate, desc, names>>
readVars == <<reader, got>>
endVars == <<ending, target>>
lifeVars == <<home, starts, attached>>
workVars == <<pc, lifeVars, chan>>
vars == <<slotVars, file, bindVars, chanVars, endVars, workVars, readVars>>

TypeOK ==
  /\ bound \in Bindings \cup {None} /\ owner \in Files \cup {None}
  /\ owner # None => bound # None
  /\ op \in {"none", "close", "unplug"}
  /\ monitors \subseteq Bindings /\ plugs \in 0 .. MaxPlugs
  /\ file \in [Files -> {"open", "closing", "closed"}]
  /\ channelOf \in [Bindings -> 1 .. opened \cup {None}]
  /\ opened \in 0 .. MaxOpens
  /\ stopped \in [Channels -> BOOLEAN]
  /\ mstate \in [Channels -> {"waiting", "ready", "stopped", "failed"}]
  /\ desc \in [Channels -> Workers \cup {None}]
  /\ names \in [Channels -> Workers \cup {None}]
  /\ reader \in Channels \cup {None} /\ got \subseteq Workers
  /\ ending \in [Threads -> {"none", "cas1", "cas2", "exchange"}]
  /\ target \in [Threads -> 1 .. opened \cup {None}]
  /\ pc \in [Workers -> {"none", "top", "reset", "init", "describe", "announce",
                         "leave", "quit"}]
  /\ home \in [Workers -> Bindings \cup {None}]
  /\ starts \in 0 .. MaxEvents
  /\ attached \in [Workers -> BOOLEAN]
  /\ chan \in [Workers -> 1 .. opened \cup {None}]

Init ==
  /\ bound = None /\ owner = None /\ op = "none" /\ monitors = {} /\ plugs = 0
  /\ file = [f \in Files |-> "open"]
  /\ channelOf = [b \in Bindings |-> None] /\ opened = 0
  /\ stopped = [c \in Channels |-> FALSE]
  /\ mstate = [c \in Channels |-> "waiting"]
  /\ desc = [c \in Channels |-> None] /\ names = [c \in Channels |-> None]
  /\ reader = None /\ got = {}
  /\ ending = [t \in Threads |-> "none"] /\ target = [t \in Threads |-> None]
  /\ pc = [w \in Workers |-> "none"] /\ home = [w \in Workers |-> None]
  /\ starts = 0
  /\ attached = [w \in Workers |-> FALSE]
  /\ chan = [w \in Workers |-> None]

WithinBound == plugs + opened + starts < MaxEvents

Active(c) == c # None /\ ~stopped[c]

-----------------------------------------------------------------------------
(* FrameChannel::Stop and FrameChannel::Fail, by any thread.                *)

\* Thread t enters Stop (how = "cas1") or Fail (how = "exchange").
End(t, c, how) ==
  /\ stopped' = [stopped EXCEPT ![c] = TRUE]
  /\ ending' = [ending EXCEPT ![t] = how]
  /\ target' = [target EXCEPT ![t] = c]

Ended(t) == ending[t] = "none"

\* Mutant: READY is looked for first.
StopOrder_ReadyFirst == <<"ready", "waiting">>

\* What the two compare-exchanges of Stop expect.
StopOrder == <<"waiting", "ready">>

Cas(c, from, to) ==
  mstate' = IF mstate[c] = from THEN [mstate EXCEPT ![c] = to] ELSE mstate

StopFirst(t) ==
  /\ ending[t] = "cas1"
  /\ Cas(target[t], StopOrder[1], "stopped")
  /\ ending' = [ending EXCEPT ![t] = "cas2"]
  /\ UNCHANGED <<slotVars, file, bindVars, stopped, desc, names, target, workVars>>

StopSecond(t) ==
  /\ ending[t] = "cas2"
  /\ Cas(target[t], StopOrder[2], "stopped")
  /\ ending' = [ending EXCEPT ![t] = "none"]
  /\ target' = [target EXCEPT ![t] = None]
  /\ UNCHANGED <<slotVars, file, bindVars, stopped, desc, names, workVars>>

FailExchange(t) ==
  /\ ending[t] = "exchange"
  /\ mstate' = [mstate EXCEPT ![target[t]] = "failed"]
  /\ ending' = [ending EXCEPT ![t] = "none"]
  /\ target' = [target EXCEPT ![t] = None]
  /\ UNCHANGED <<slotVars, file, bindVars, stopped, desc, names, workVars>>

EndStep(t) == StopFirst(t) \/ StopSecond(t) \/ FailExchange(t)

-----------------------------------------------------------------------------
(* The control side: requests, file cleanup, plug and unplug.               *)

\* Mutant: OpenCapture does not look at the Closing flag.
Closing_Unread(f) == FALSE

Closing(f) == file[f] # "open"

CanOpen(f) ==
  /\ ~Closing(f)
  /\ owner # f
  /\ bound # None
  /\ ~Active(channelOf[bound])

\* OpenCapture succeeds: the slot gets a new channel and owner.  (A request that
\* is refused changes nothing; one that was sent before the handle's cleanup can
\* be served after it.)
OpenCapture(f) ==
  /\ op = "none"
  /\ CanOpen(f)
  /\ opened < MaxOpens /\ WithinBound
  /\ opened' = opened + 1
  /\ channelOf' = [channelOf EXCEPT ![bound] = opened + 1]
  /\ owner' = f
  /\ UNCHANGED <<bound, op, monitors, plugs, file, chanVars, endVars, workVars>>

\* CaptureFileCleanup sets Closing, then calls CloseCapture.
FileCleanup(f) ==
  /\ file[f] = "open"
  /\ file' = [file EXCEPT ![f] = "closing"]
  /\ UNCHANGED <<slotVars, bindVars, chanVars, endVars, workVars>>

CloseOther(f) ==
  /\ op = "none" /\ file[f] = "closing" /\ owner # f
  /\ file' = [file EXCEPT ![f] = "closed"]
  /\ UNCHANGED <<slotVars, bindVars, chanVars, endVars, workVars>>

CloseCapture(f) ==
  /\ op = "none" /\ file[f] = "closing" /\ owner = f
  /\ channelOf' = [channelOf EXCEPT ![bound] = None]
  /\ End(Control, channelOf[bound], "cas1")
  /\ op' = "close"
  /\ UNCHANGED <<bound, owner, monitors, plugs, file, opened, mstate, desc, names, workVars>>

CloseDone ==
  /\ op = "close" /\ Ended(Control)
  /\ file' = [file EXCEPT ![owner] = "closed"]
  /\ owner' = None
  /\ op' = "none"
  /\ UNCHANGED <<bound, monitors, plugs, bindVars, chanVars, endVars, workVars>>

\* Plug, up to the recorded arrival: a new binding and a monitor that has it.
Plug ==
  /\ op = "none" /\ bound = None
  /\ plugs < MaxPlugs /\ WithinBound
  /\ plugs' = plugs + 1
  /\ bound' = plugs + 1
  /\ monitors' = monitors \cup {plugs + 1}
  /\ UNCHANGED <<owner, op, file, bindVars, chanVars, endVars, workVars>>

UnplugStops(c) == c # None

\* Unplug's locked block: stop the channel, if any, and clear the slot.
Unplug ==
  /\ op = "none" /\ bound # None
  /\ IF UnplugStops(channelOf[bound])
     THEN End(Control, channelOf[bound], "cas1")
     ELSE UNCHANGED <<stopped, endVars>>
  /\ op' = "unplug"
  /\ UNCHANGED <<bound, owner, monitors, plugs, file, bindVars, mstate, desc, names, workVars>>

\* Mutant: clearing the slot keeps its owner.
OwnerAfterUnplug_Kept == owner

OwnerAfterUnplug == None

UnplugCleared ==
  /\ op = "unplug" /\ Ended(Control)
  /\ bound' = None /\ owner' = OwnerAfterUnplug
  /\ op' = "none"
  /\ UNCHANGED <<monitors, plugs, file, bindVars, chanVars, endVars, workVars>>

\* The departure of an unplugged monitor: Cleanup detaches its worker.
Departure(b) ==
  /\ b \in monitors /\ bound # b
  /\ monitors' = monitors \ {b}
  /\ attached' = [w \in Workers |-> attached[w] /\ home[w] # b]
  /\ UNCHANGED <<bound, owner, op, plugs, file, bindVars, chanVars, endVars,
                 pc, home, starts, chan>>

-----------------------------------------------------------------------------
(* SwapChainProcessor::RunCore.                                             *)

\* Assign with a committed mode: no worker is attached to the monitor, or the
\* one that is has finished.
AssignSwapChain(w, b) ==
  /\ pc[w] = "none" /\ b \in monitors
  /\ WithinBound
  /\ starts' = starts + 1
  /\ \A v \in Workers : attached[v] => home[v] # b
  /\ pc' = [pc EXCEPT ![w] = "top"]
  /\ home' = [home EXCEPT ![w] = b]
  /\ attached' = [attached EXCEPT ![w] = TRUE]
  /\ UNCHANGED <<slotVars, file, bindVars, chanVars, endVars, chan>>

\* UnassignSwapChain: a successor may start before this worker has noticed.
UnassignSwapChain(w) ==
  /\ attached[w]
  /\ attached' = [attached EXCEPT ![w] = FALSE]
  /\ UNCHANGED <<slotVars, file, bindVars, chanVars, endVars, pc, home, starts, chan>>

Running(w, at) == pc[w] = at /\ Ended(w)
Goto(w, at) == pc' = [pc EXCEPT ![w] = at]
ControlSame == UNCHANGED <<slotVars, file, bindVars, lifeVars>>

\* The loop ends: the terminate event is set - by Unassign, by a second Assign,
\* or by a Stop that is still on its way - or IddCx has abandoned the chain.
LoopEnds(w) ==
  /\ Running(w, "top")
  /\ Goto(w, "leave")
  /\ ControlSame /\ UNCHANGED <<chanVars, endVars, chan>>

Requested(w) ==
  IF Active(channelOf[home[w]]) THEN channelOf[home[w]] ELSE None

\* Mutant: the publisher is replaced only when there is another channel.
Replaced_OnlyByNew(w) == Requested(w) \notin {chan[w], None}

Replaced(w) == Requested(w) # chan[w]

\* The publisher has a ring.  (One whose Init failed has none, and its channel
\* has failed.)
Publishing(w) == \E c \in Channels : names[c] = w

Freed(w) == [c \in Channels |-> IF names[c] = w THEN None ELSE names[c]]

\* Mutant: the destructor closes the handles before it stops the channel.
NamesWhileStopping_Closed(w) == Freed(w)

NamesWhileStopping(w) == names

\* Publisher.reset(): ~FramePublisher stops its channel, then closes handles.
DropPublisher(w) ==
  /\ Running(w, "top")
  /\ Replaced(w) /\ Publishing(w)
  /\ End(w, chan[w], "cas1")
  /\ names' = NamesWhileStopping(w)
  /\ chan' = [chan EXCEPT ![w] = Requested(w)]
  /\ Goto(w, "reset")
  /\ ControlSame /\ UNCHANGED <<mstate, desc>>

PublisherDropped(w) ==
  /\ Running(w, "reset")
  /\ names' = Freed(w)
  /\ Goto(w, "top")
  /\ ControlSame /\ UNCHANGED <<stopped, mstate, desc, endVars, chan>>

\* One turn of the loop up to the frame: Channel is the one requested.  A frame
\* that finds it stopped in between is skipped, as if it had not come.
Turn(w) ==
  /\ Running(w, "top")
  /\ ~(Replaced(w) /\ Publishing(w))
  /\ chan' = [chan EXCEPT ![w] = IF Replaced(w) THEN Requested(w) ELSE @]

\* No frame, or one that is published or skipped.
NoFrame(w) ==
  /\ Turn(w)
  /\ ControlSame /\ UNCHANGED <<chanVars, endVars, pc>>

\* The first frame for this channel.
FirstFrame(w) ==
  /\ Turn(w)
  /\ Requested(w) # None /\ ~Publishing(w)
  /\ Goto(w, "init")
  /\ ControlSame /\ UNCHANGED <<chanVars, endVars>>

\* The frame is protected, no texture, or not of the ring's mode: Fail.
FrameRefused(w) ==
  /\ Turn(w)
  /\ Requested(w) # None
  /\ End(w, Requested(w), "exchange")
  /\ ControlSame /\ UNCHANGED <<mstate, desc, names, pc>>

NameFree(c) == names[c] = None

\* Init creates the textures under the channel's names.
CreateRing(w) ==
  /\ Running(w, "init")
  /\ NameFree(chan[w])
  /\ names' = [names EXCEPT ![chan[w]] = w]
  /\ Goto(w, "describe")
  /\ ControlSame /\ UNCHANGED <<stopped, mstate, desc, endVars, chan>>

\* Init fails - the format, a texture, or a name that another worker's ring
\* has - with some or none of the textures created.
InitFails(w) ==
  /\ Running(w, "init")
  /\ names' \in {names} \cup IF NameFree(chan[w]) THEN {[names EXCEPT ![chan[w]] = w]} ELSE {}
  /\ End(w, chan[w], "exchange")
  /\ Goto(w, "top")
  /\ ControlSame /\ UNCHANGED <<mstate, desc, chan>>

Describe(w) ==
  /\ Running(w, "describe")
  /\ desc' = [desc EXCEPT ![chan[w]] = w]
  /\ Goto(w, "announce")
  /\ ControlSame /\ UNCHANGED <<stopped, mstate, names, endVars, chan>>

Announce(w) ==
  /\ Running(w, "announce")
  /\ Cas(chan[w], "waiting", "ready")
  /\ Goto(w, "top")
  /\ ControlSame /\ UNCHANGED <<stopped, desc, names, endVars, chan>>

\* After the loop: Channel->Stop, then Publisher and Channel are destroyed; a
\* finished worker no longer counts as its monitor's.
Leave(w) ==
  /\ Running(w, "leave")
  /\ IF chan[w] # None
     THEN End(w, chan[w], "cas1")
     ELSE UNCHANGED <<stopped, endVars>>
  /\ Goto(w, "quit")
  /\ ControlSame /\ UNCHANGED <<mstate, desc, names, chan>>

Quit(w) ==
  /\ Running(w, "quit")
  /\ names' = Freed(w)
  /\ chan' = [chan EXCEPT ![w] = None]
  /\ Goto(w, "none")
  /\ home' = [home EXCEPT ![w] = None]
  /\ attached' = [attached EXCEPT ![w] = FALSE]
  /\ UNCHANGED <<slotVars, file, bindVars, starts, stopped, mstate, desc, endVars>>

-----------------------------------------------------------------------------
(* SharedReader::Import, in another process; its handle may be gone already. *)

DriverSame == UNCHANGED <<slotVars, file, bindVars, chanVars, endVars, workVars>>

\* A look at State, which is READY once only, and the first texture; or another.
OpenTexture(c) ==
  /\ \/ reader = None /\ mstate[c] = "ready"
     \/ reader = c
  /\ names[c] # None
  /\ reader' = c
  /\ got' = got \cup {names[c]}
  /\ DriverSame

\* A name is gone, a texture is not as described, the next look at State finds
\* that the channel has ended, or the reader has enough: it gives up what it has.
ImportOver ==
  /\ reader # None
  /\ reader' = None /\ got' = {}
  /\ DriverSame

-----------------------------------------------------------------------------

WorkerStep(w) ==
  \/ DropPublisher(w) \/ PublisherDropped(w)
  \/ CreateRing(w) \/ InitFails(w) \/ Describe(w) \/ Announce(w)
  \/ Leave(w) \/ Quit(w)

FrameStep(w) == LoopEnds(w) \/ NoFrame(w) \/ FirstFrame(w) \/ FrameRefused(w)

DriverStep ==
  \/ \E f \in Files :
       \/ OpenCapture(f)
       \/ FileCleanup(f) \/ CloseOther(f) \/ CloseCapture(f)
  \/ CloseDone \/ Plug \/ Unplug \/ UnplugCleared
  \/ \E b \in Bindings : Departure(b)
  \/ \E w \in Workers :
       \/ \E b \in Bindings : AssignSwapChain(w, b)
       \/ UnassignSwapChain(w) \/ FrameStep(w) \/ WorkerStep(w)
  \/ \E t \in Threads : EndStep(t)

Next ==
  \/ DriverStep /\ UNCHANGED readVars
  \/ (\E c \in Channels : OpenTexture(c)) \/ ImportOver

\* The worker's loop never waits longer than 16 ms, IddCx and D3D calls
\* return, and a Stop or Fail that was begun is completed.  Whether frames come
\* and chains end is up to the OS.
Fairness ==
  /\ \A w \in Workers : WF_vars((WorkerStep(w) \/ EndStep(w)) /\ UNCHANGED readVars)
  /\ WF_vars(EndStep(Control) /\ UNCHANGED readVars)

Spec == Init /\ [][Next]_vars /\ Fairness

-----------------------------------------------------------------------------
(* Correctness.                                                             *)

\* Once whoever ended a channel is done with it, its reader can see so: no
\* interleaving of Stop with the worker that announces the ring leaves READY
\* or WAITING behind.
EndIsVisible ==
  \A c \in Channels :
    stopped[c] /\ (\A t \in Threads : target[t] # c) => mstate[c] \in {"stopped", "failed"}

\* A channel that is served belongs to the plugged monitor and to a handle
\* that will still be cleaned up, whichever of open, cleanup and unplug came
\* first: none is published for ever, and a cookie has one consumer.
ActiveIsOwned ==
  \A c \in 1 .. opened :
    ~stopped[c] => /\ bound # None /\ channelOf[bound] = c
                   /\ owner # None /\ file[owner] # "closed"

\* While State says READY there is one ring, it is the one Meta describes, and
\* all a reader has opened by name since it read READY is from it: "READY makes
\* desc immutable", even while a retired worker and its successor serve the same
\* channel.
ImportedIsServed ==
  \A c \in Channels : mstate[c] = "ready" =>
    /\ names[c] # None /\ desc[c] = names[c]
    /\ reader = c => got \subseteq {names[c]}

\* Ending a channel "stops publishing and frees the ring", whichever worker has
\* it and however late one creates it.
RingFreed == \A c \in Channels : stopped[c] ~> names[c] = None
=============================================================================
