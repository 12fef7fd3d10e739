------------------------------ MODULE FrameRing ------------------------------
(***************************************************************************)
(* One generation of the GPU capture channel: the ring of shared textures  *)
(* that FramePublisher::Publish fills on the swap-chain worker and that a  *)
(* reader in another process drains with SharedReader::Poll.               *)
(*                                                                         *)
(* Each slot has a keyed mutex.  Releasing it with key 0 offers the slot   *)
(* to the producer, with key 1 to the reader; neither ever waits for it.   *)
(* Publish submits its copy to the GPU and lets go of the slot before the  *)
(* copy is done: until then the reader's AcquireSync times out.            *)
(*                                                                         *)
(* Stopping the channel is reduced to one flag: who may stop it, and how   *)
(* the reader is told, is CaptureChannel.                                  *)
(***************************************************************************)
EXTENDS Naturals, FiniteSets

CONSTANTS
  NumSlots,    \* NYANVDD_CAPTURE_SLOTS
  MaxFrames,   \* bound: frames published in this generation
  None

Slots == 0 .. NumSlots - 1

ASSUME RingAssumption ==
  /\ NumSlots \in Nat \ {0} /\ MaxFrames \in Nat
  /\ None \notin Nat

VARIABLES
  mutex,      \* keyed mutex of each slot, see Keys
  texture,    \* number of the frame in each texture, None while it is written
  stamp,      \* Meta.Slots[i].Sequence
  active,     \* Channel->Active()
  pub,        \* where Publish is
  attempt,    \* its loop counter
  next,       \* FramePublisher::Next, the slot it tries first
  sequence,   \* FramePublisher::Sequence
  rd,         \* where Poll is
  scan,       \* its loop counter
  held,       \* SharedReader::Held
  shown,      \* SharedReader::Sequence
  returned,   \* SharedReader::Returned
  calm        \* history: since this Poll began, no frame was on its way

ringVars == <<mutex, texture, stamp>>
pubVars == <<pub, attempt, next, sequence>>
readVars == <<rd, scan, held, shown, returned>>
vars == <<ringVars, active, pubVars, readVars, calm>>

\* "free" and "ready": released with key 0 and with key 1.  "flying": released
\* with key 1 behind a copy the GPU has not finished.  "producer", "reader":
\* acquired.  "abandoned": the reader died with it.
Keys == {"free", "flying", "ready", "producer", "reader", "abandoned"}

TypeOK ==
  /\ mutex \in [Slots -> Keys]
  /\ texture \in [Slots -> 0 .. MaxFrames \cup {None}]
  /\ stamp \in [Slots -> 0 .. MaxFrames]
  /\ active \in BOOLEAN
  /\ pub \in {"idle", "try", "copy", "stamp", "release", "fail"}
  /\ attempt \in Slots /\ next \in Slots
  /\ sequence \in 0 .. MaxFrames
  /\ rd \in {"idle", "scan", "got", "gone"}
  /\ scan \in 0 .. NumSlots
  /\ held \in Slots \cup {None}
  /\ shown \in 0 .. MaxFrames
  /\ returned \in [Slots -> 0 .. MaxFrames]
  /\ calm \in BOOLEAN

Init ==
  /\ mutex = [i \in Slots |-> "free"]
  /\ texture = [i \in Slots |-> 0]
  /\ stamp = [i \in Slots |-> 0]
  /\ active = TRUE
  /\ pub = "idle" /\ attempt = 0 /\ next = 0 /\ sequence = 0
  /\ rd = "idle" /\ scan = 0 /\ held = None /\ shown = 0
  /\ returned = [i \in Slots |-> 0]
  /\ calm = FALSE

-----------------------------------------------------------------------------
(* FramePublisher::Publish, called for every frame IddCx hands over.        *)

Slot == (next + attempt) % NumSlots

\* A frame is presented.  One whose size or format is not the ring's ends the
\* generation; on a stopped channel Publish does nothing.
Present ==
  /\ pub = "idle" /\ active
  /\ sequence < MaxFrames
  /\ pub' \in {"try", "fail"}
  /\ attempt' = 0
  /\ calm' = FALSE
  /\ UNCHANGED <<ringVars, active, next, sequence, readVars>>

\* Mutant: the loop runs once too often.
SlotTaken_OneMore ==
  IF attempt < NumSlots
  THEN attempt' = attempt + 1 /\ UNCHANGED pub
  ELSE attempt' = 0 /\ pub' = "idle"

\* Mutant: the loop goes round until a slot is free.
SlotTaken_Again == attempt' = (attempt + 1) % NumSlots /\ UNCHANGED pub

\* AcquireSync(0, 0) times out: try the next slot, or skip the frame.
SlotTaken ==
  IF attempt + 1 < NumSlots
  THEN attempt' = attempt + 1 /\ UNCHANGED pub
  ELSE attempt' = 0 /\ pub' = "idle"

TrySlot ==
  /\ pub = "try"
  /\ \/ /\ mutex[Slot] = "free"
        /\ mutex' = [mutex EXCEPT ![Slot] = "producer"]
        /\ pub' = "copy"
        /\ UNCHANGED attempt
     \/ /\ mutex[Slot] = "abandoned"
        /\ pub' = "fail"
        /\ UNCHANGED <<mutex, attempt>>
     \/ /\ mutex[Slot] \notin {"free", "abandoned"}
        /\ SlotTaken
        /\ UNCHANGED mutex
  /\ UNCHANGED <<texture, stamp, active, next, sequence, readVars, calm>>

\* CopyResource: from here until the GPU is done the texture is neither frame.
Copy ==
  /\ pub = "copy"
  /\ texture' = [texture EXCEPT ![Slot] = None]
  /\ pub' = "stamp"
  /\ UNCHANGED <<mutex, stamp, active, attempt, next, sequence, readVars, calm>>

Stamp ==
  /\ pub = "stamp"
  /\ sequence' = sequence + 1
  /\ stamp' = [stamp EXCEPT ![Slot] = sequence + 1]
  /\ pub' = "release"
  /\ UNCHANGED <<mutex, texture, active, attempt, next, readVars, calm>>

\* Released with key 1: the reader's, once the GPU has caught up.
ReleaseKey == "flying"

\* ReleaseSync(1), which may fail.
Release ==
  /\ pub = "release"
  /\ \/ /\ mutex' = [mutex EXCEPT ![Slot] = ReleaseKey]
        /\ pub' = "idle"
        /\ next' = (Slot + 1) % NumSlots
        /\ attempt' = 0
     \/ /\ pub' = "fail"
        /\ UNCHANGED <<mutex, next, attempt>>
  /\ UNCHANGED <<texture, stamp, active, sequence, readVars, calm>>

\* The error goes to Channel->Fail.
PublishFailed ==
  /\ pub = "fail"
  /\ active' = FALSE
  /\ pub' = "idle"
  /\ attempt' = 0
  /\ UNCHANGED <<ringVars, next, sequence, readVars, calm>>

\* The GPU finishes the copy into i and, behind it, the release.
GpuDone(i) ==
  /\ mutex[i] = "flying"
  /\ mutex' = [mutex EXCEPT ![i] = "ready"]
  /\ texture' = [texture EXCEPT ![i] = stamp[i]]
  /\ UNCHANGED <<stamp, active, pubVars, readVars, calm>>

-----------------------------------------------------------------------------
(* SharedReader::Poll.                                                      *)

InTransit == pub # "idle" \/ \E i \in Slots : mutex[i] \in {"flying", "producer"}

\* Import has found the channel READY.
PollBegin ==
  /\ rd = "idle" /\ active
  /\ rd' = "scan"
  /\ scan' = 0
  /\ calm' = ~InTransit
  /\ UNCHANGED <<ringVars, active, pubVars, held, shown, returned>>

\* Mutant: every slot is judged by the newest frame seen, not by its own.
NothingNew_Global(i) == i = held \/ stamp[i] <= shown

NothingNew(i) == i = held \/ stamp[i] <= returned[i]

\* Nothing new in the slot, or AcquireSync(1, 0) times out.
PassSlot ==
  /\ rd = "scan" /\ scan < NumSlots
  /\ NothingNew(scan) \/ mutex[scan] # "ready"
  /\ scan' = scan + 1
  /\ UNCHANGED <<ringVars, active, pubVars, rd, held, shown, returned, calm>>

AcquireReady ==
  /\ rd = "scan" /\ scan < NumSlots
  /\ ~NothingNew(scan)
  /\ mutex[scan] = "ready"
  /\ mutex' = [mutex EXCEPT ![scan] = "reader"]
  /\ rd' = "got"
  /\ UNCHANGED <<texture, stamp, active, pubVars, scan, held, shown, returned, calm>>

\* Mutant: Poll returns with the first frame that is newer than the last.
ScanAfterKeep_Return == NumSlots

ScanAfterKeep == scan + 1

\* Mutant: whatever was acquired is shown.
Newer_Always == TRUE

Newer == stamp[scan] > shown

\* Mutant: Held is overwritten before the slot it names is released.
LeaseEnded_New == scan

LeaseEnded == held

\* The frame is newer: give back the slot held so far and keep this one.
Keep ==
  /\ rd = "got"
  /\ Newer
  /\ mutex' = [i \in Slots |-> IF i = LeaseEnded THEN "free" ELSE mutex[i]]
  /\ returned' = [i \in Slots |-> IF i = held THEN shown ELSE returned[i]]
  /\ held' = scan
  /\ shown' = stamp[scan]
  /\ rd' = "scan"
  /\ scan' = ScanAfterKeep
  /\ UNCHANGED <<texture, stamp, active, pubVars, calm>>

\* It is older than the one held: give it straight back.
GiveBack ==
  /\ rd = "got"
  /\ ~Newer
  /\ mutex' = [mutex EXCEPT ![scan] = "free"]
  /\ returned' = [returned EXCEPT ![scan] = stamp[scan]]
  /\ rd' = "scan"
  /\ scan' = scan + 1
  /\ UNCHANGED <<texture, stamp, active, pubVars, held, shown, calm>>

PollEnd ==
  /\ rd = "scan" /\ scan = NumSlots
  /\ rd' = "idle"
  /\ scan' = 0
  /\ UNCHANGED <<ringVars, active, pubVars, held, shown, returned, calm>>

\* ~SharedReader: the held slot goes back with key 0, the device is closed.
ReaderQuits ==
  /\ rd = "idle"
  /\ mutex' = [i \in Slots |-> IF i = held THEN "free" ELSE mutex[i]]
  /\ held' = None
  /\ rd' = "gone"
  /\ UNCHANGED <<texture, stamp, active, pubVars, scan, shown, returned, calm>>

\* The reader's process is killed: what it had acquired is abandoned.
ReaderKilled ==
  /\ rd # "gone"
  /\ mutex' = [i \in Slots |-> IF mutex[i] = "reader" THEN "abandoned" ELSE mutex[i]]
  /\ held' = None
  /\ rd' = "gone"
  /\ UNCHANGED <<texture, stamp, active, pubVars, scan, shown, returned, calm>>

-----------------------------------------------------------------------------

\* CaptureFileCleanup, an unplug, or the end of the frame loop.
StopChannel ==
  /\ active
  /\ active' = FALSE
  /\ UNCHANGED <<ringVars, pubVars, readVars, calm>>

PublishStep == TrySlot \/ Copy \/ Stamp \/ Release \/ PublishFailed

ReaderStep == PollBegin \/ PassSlot \/ AcquireReady \/ Keep \/ GiveBack \/ PollEnd

Next ==
  \/ Present \/ PublishStep
  \/ \E i \in Slots : GpuDone(i)
  \/ ReaderStep \/ ReaderQuits \/ ReaderKilled
  \/ StopChannel

\* The worker is scheduled, the GPU finishes its copies, the reader polls as
\* long as it lives, and a dead reader's file is cleaned up.
Fairness ==
  /\ WF_vars(PublishStep)
  /\ \A i \in Slots : WF_vars(GpuDone(i))
  /\ WF_vars(ReaderStep)
  /\ WF_vars(rd = "gone" /\ StopChannel)

Spec == Init /\ [][Next]_vars /\ Fairness

-----------------------------------------------------------------------------
(* Correctness.                                                             *)

\* The frame the reader works with is complete, is the one it believes to be,
\* and stays so for as long as it is held: "never overwrite a reader".
HeldIsIntact ==
  held # None => mutex[held] = "reader" /\ texture[held] = shown

\* A Poll during which no frame was on its way leaves the reader with the
\* newest published frame, wherever in the ring it is: slots are scanned by
\* index, not by age.
NewestAfterPoll == rd = "idle" /\ calm => shown = sequence

\* No slot is lost to the producer: one it has filled comes back free, or is
\* the one the reader holds, whatever order the copies finished in - an older
\* slot is returned "even after a newer frame has already been retained".
SlotsComeBack ==
  \A i \in Slots :
    mutex[i] # "free" ~> mutex[i] = "free" \/ held = i \/ ~active \/ rd = "gone"

\* Publish never waits, for the reader, the GPU or a slot: whatever they do or no
\* longer do, none of its steps is blocked, and it is over after finitely many
\* ("skip publishing, never block IddCx": the worker has to return the frame).
PublishNeverWaits ==
  /\ [](pub # "idle" => ENABLED PublishStep)
  /\ pub # "idle" ~> pub = "idle"

\* The ring implements the mailbox: frames reach the reader in order, and a
\* published one is followed by a newer or the same frame being shown.
Mailbox == INSTANCE FrameMailbox WITH
  latest <- sequence, ended <- (~active \/ rd = "gone")
ImplementsMailbox == Mailbox!MailSpec
=============================================================================
