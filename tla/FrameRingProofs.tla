--------------------------- MODULE FrameRingProofs ---------------------------
(***************************************************************************)
(* The safety properties of FrameRing, for a ring of any size, and that    *)
(* its steps are those of FrameMailbox.                                    *)
(***************************************************************************)
EXTENDS FrameRing, TLAPS

-----------------------------------------------------------------------------
(* The inductive invariant.                                                *)

\* A slot is the reader's while it holds it or has just acquired it, never both.
ReaderShape ==
  /\ \A i \in Slots : mutex[i] = "reader" <=> held = i \/ (rd = "got" /\ scan = i)
  /\ rd = "got" => scan \in Slots /\ scan # held
  /\ rd = "gone" => held = None
  /\ held # None => stamp[held] = shown

\* The slot Publish works on is its own, and there is room for its frame.
ProducerShape ==
  /\ pub \in {"copy", "stamp", "release"} => mutex[Slot] = "producer"
  /\ pub \in {"try", "copy", "stamp"} => sequence < MaxFrames

\* Nothing is stamped ahead of the sequence; a frame on its way to the reader
\* is not one it has returned from that slot.
StampShape ==
  /\ shown <= sequence
  /\ \A i \in Slots : returned[i] <= stamp[i] /\ stamp[i] <= sequence
  /\ \A i \in Slots : mutex[i] \in {"flying", "ready", "reader"} => returned[i] < stamp[i]
  /\ pub = "release" => returned[Slot] < stamp[Slot]

\* What can be acquired, or has been, is a finished copy of the stamped frame.
TextureShape ==
  \A i \in Slots : mutex[i] \in {"ready", "reader"} => texture[i] = stamp[i]

\* The newest frame is shown or on its way.
NewestIsSomewhere ==
  \/ shown = sequence \/ rd = "gone"
  \/ \E i \in Slots : /\ stamp[i] = sequence
                      /\ mutex[i] \in {"producer", "flying", "ready", "reader"}

\* In a calm Poll nothing is on its way, and the newest frame is ahead of the
\* scan unless it is shown; so it is shown when the scan is over.
CalmShape ==
  /\ calm => ~InTransit
  /\ NewestAfterPoll
  /\ calm /\ rd \in {"scan", "got"} /\ shown # sequence =>
       \E i \in Slots : /\ scan <= i /\ stamp[i] = sequence
                        /\ mutex[i] = (IF rd = "got" /\ i = scan THEN "reader" ELSE "ready")

IInv ==
  /\ TypeOK /\ ReaderShape /\ ProducerShape /\ StampShape /\ TextureShape
  /\ NewestIsSomewhere /\ CalmShape

-----------------------------------------------------------------------------
(* The slot that is tried next.                                            *)

LEMMA ModSlot ==
  ASSUME NEW n \in Nat
  PROVE  n % NumSlots \in Slots
BY RingAssumption DEF Slots

LEMMA SlotIsSlot ==
  ASSUME next \in Slots, attempt \in Slots
  PROVE  Slot \in Slots
<1>1. next + attempt \in Nat BY RingAssumption DEF Slots
<1> QED BY <1>1, ModSlot DEF Slot

-----------------------------------------------------------------------------
(* Every action keeps the invariant.                                       *)

LEMMA PresentStep ==
  ASSUME IInv, Present
  PROVE  IInv'
<1> USE RingAssumption DEF IInv, Slots, ringVars, pubVars, readVars, Present
<1>s. Slot \in Slots
  BY SlotIsSlot DEF TypeOK
<1>1. TypeOK'
  <2>1. attempt' \in Slots
    BY DEF TypeOK
  <2>2. pub' \in {"idle", "try", "copy", "stamp", "release", "fail"}
    OBVIOUS
  <2> HIDE DEF Slots
  <2> QED BY <2>1, <2>2 DEF TypeOK
<1>2. ReaderShape'
  BY <1>s DEF TypeOK, Keys, ReaderShape
<1>3. ProducerShape'
  BY <1>s DEF TypeOK, ProducerShape, ReaderShape
<1>4. StampShape'
  BY <1>s DEF TypeOK, StampShape, ReaderShape, ProducerShape
<1>5. TextureShape'
  BY <1>s DEF TypeOK, TextureShape
<1>6. NewestIsSomewhere'
  BY <1>s DEF TypeOK, StampShape, ReaderShape, ProducerShape, NewestIsSomewhere
<1>7. CalmShape'
  BY <1>s DEF TypeOK, StampShape, ReaderShape, NewestIsSomewhere, CalmShape, NewestAfterPoll, InTransit
<1> QED BY <1>1, <1>2, <1>3, <1>4, <1>5, <1>6, <1>7

LEMMA TrySlotStep ==
  ASSUME IInv, TrySlot
  PROVE  IInv'
<1> USE RingAssumption DEF IInv, Slots, ringVars, pubVars, readVars, TrySlot, SlotTaken
<1>s. Slot \in Slots
  BY SlotIsSlot DEF TypeOK
<1>1. TypeOK'
  <2>1. mutex' \in [Slots -> Keys]
    BY <1>s DEF TypeOK, Keys
  <2>2. attempt' \in Slots
    BY DEF TypeOK
  <2>3. pub' \in {"idle", "try", "copy", "stamp", "release", "fail"}
    BY DEF TypeOK
  <2> HIDE DEF Slots
  <2> QED BY <2>1, <2>2, <2>3 DEF TypeOK
<1>2. ReaderShape'
  BY <1>s DEF TypeOK, Keys, ReaderShape
<1>3. ProducerShape'
  <2>1. pub' \in {"idle", "try", "fail"} \/ (pub' = "copy" /\ attempt' = attempt /\ next' = next)
    BY DEF TypeOK
  <2>2. pub' = "copy" => mutex'[Slot] = "producer" /\ Slot' = Slot
    BY <1>s, <2>1 DEF TypeOK, Slot
  <2>3. sequence < MaxFrames /\ sequence' = sequence
    BY DEF ProducerShape
  <2> QED BY <2>1, <2>2, <2>3 DEF ProducerShape
<1>4. StampShape'
  BY <1>s DEF TypeOK, StampShape, ReaderShape, ProducerShape
<1>5. TextureShape'
  BY <1>s DEF TypeOK, TextureShape
<1>6. NewestIsSomewhere'
  BY <1>s DEF TypeOK, StampShape, ReaderShape, ProducerShape, NewestIsSomewhere
<1>7. CalmShape'
  BY <1>s DEF TypeOK, StampShape, ReaderShape, NewestIsSomewhere, CalmShape, NewestAfterPoll, InTransit
<1> QED BY <1>1, <1>2, <1>3, <1>4, <1>5, <1>6, <1>7

LEMMA CopyStep ==
  ASSUME IInv, Copy
  PROVE  IInv'
<1> USE RingAssumption DEF IInv, Slots, ringVars, pubVars, readVars, Copy
<1>s. Slot \in Slots
  BY SlotIsSlot DEF TypeOK
<1>t. Slot' = Slot
  BY DEF Slot
<1>1. TypeOK'
  BY <1>s, <1>t DEF TypeOK, Keys
<1>2. ReaderShape'
  BY <1>s, <1>t DEF TypeOK, Keys, ReaderShape
<1>3. ProducerShape'
  BY <1>s, <1>t DEF TypeOK, ProducerShape, ReaderShape
<1>4. StampShape'
  BY <1>s, <1>t DEF TypeOK, StampShape, ReaderShape, ProducerShape
<1>5. TextureShape'
  BY <1>s, <1>t DEF TypeOK, TextureShape, ProducerShape
<1>6. NewestIsSomewhere'
  BY <1>s, <1>t DEF TypeOK, StampShape, ReaderShape, ProducerShape, NewestIsSomewhere
<1>7. CalmShape'
  BY <1>s, <1>t DEF TypeOK, StampShape, ReaderShape, NewestIsSomewhere, CalmShape, NewestAfterPoll, InTransit
<1> QED BY <1>1, <1>2, <1>3, <1>4, <1>5, <1>6, <1>7

LEMMA StampStep ==
  ASSUME IInv, Stamp
  PROVE  IInv'
<1> USE RingAssumption DEF IInv, Slots, ringVars, pubVars, readVars, Stamp
<1>s. Slot \in Slots
  BY SlotIsSlot DEF TypeOK
<1>t. Slot' = Slot
  BY DEF Slot
<1>1. TypeOK'
  <2>1. sequence' \in 0 .. MaxFrames
    BY DEF TypeOK, ProducerShape
  <2>2. stamp' \in [Slots -> 0 .. MaxFrames]
    BY <1>s, <2>1 DEF TypeOK
  <2>3. pub' \in {"idle", "try", "copy", "stamp", "release", "fail"}
    OBVIOUS
  <2> HIDE DEF Slots
  <2> QED BY <2>1, <2>2, <2>3 DEF TypeOK
<1>2. ReaderShape'
  BY <1>s, <1>t DEF TypeOK, Keys, ReaderShape, ProducerShape
<1>3. ProducerShape'
  BY <1>s, <1>t DEF TypeOK, ProducerShape, ReaderShape
<1>4. StampShape'
  BY <1>s, <1>t DEF TypeOK, StampShape, ReaderShape, ProducerShape
<1>5. TextureShape'
  BY <1>s, <1>t DEF TypeOK, TextureShape, ProducerShape
<1>6. NewestIsSomewhere'
  BY <1>s, <1>t DEF TypeOK, StampShape, ReaderShape, ProducerShape, NewestIsSomewhere
<1>7. CalmShape'
  BY <1>s, <1>t DEF TypeOK, StampShape, ReaderShape, NewestIsSomewhere, CalmShape, NewestAfterPoll, InTransit
<1> QED BY <1>1, <1>2, <1>3, <1>4, <1>5, <1>6, <1>7

LEMMA ReleaseStep ==
  ASSUME IInv, Release
  PROVE  IInv'
<1> USE RingAssumption DEF IInv, Slots, ringVars, pubVars, readVars, Release, ReleaseKey
<1>s. Slot \in Slots
  BY SlotIsSlot DEF TypeOK
<1>1. TypeOK'
  <2>1. mutex' \in [Slots -> Keys]
    BY <1>s DEF TypeOK, Keys
  <2>2. attempt' \in Slots
    BY DEF TypeOK
  <2>3. next' \in Slots
    <3>1. Slot + 1 \in Nat BY <1>s
    <3> HIDE DEF Slots
    <3> QED BY <3>1, ModSlot DEF TypeOK
  <2>4. pub' \in {"idle", "try", "copy", "stamp", "release", "fail"}
    OBVIOUS
  <2> HIDE DEF Slots
  <2> QED BY <2>1, <2>2, <2>3, <2>4 DEF TypeOK
<1>2. ReaderShape'
  BY <1>s DEF TypeOK, Keys, ReaderShape, ProducerShape
<1>3. ProducerShape'
  BY <1>s DEF TypeOK, ProducerShape, ReaderShape
<1>4. StampShape'
  BY <1>s DEF TypeOK, StampShape, ReaderShape, ProducerShape
<1>5. TextureShape'
  BY <1>s DEF TypeOK, TextureShape
<1>6. NewestIsSomewhere'
  BY <1>s DEF TypeOK, StampShape, ReaderShape, ProducerShape, NewestIsSomewhere
<1>7. CalmShape'
  BY <1>s DEF TypeOK, StampShape, ReaderShape, NewestIsSomewhere, CalmShape, NewestAfterPoll, InTransit
<1> QED BY <1>1, <1>2, <1>3, <1>4, <1>5, <1>6, <1>7

LEMMA PublishFailedStep ==
  ASSUME IInv, PublishFailed
  PROVE  IInv'
<1> USE RingAssumption DEF IInv, Slots, ringVars, pubVars, readVars, PublishFailed
<1>s. Slot \in Slots
  BY SlotIsSlot DEF TypeOK
<1>1. TypeOK'
  <2>1. attempt' \in Slots
    OBVIOUS
  <2>2. pub' \in {"idle", "try", "copy", "stamp", "release", "fail"}
    OBVIOUS
  <2> HIDE DEF Slots
  <2> QED BY <2>1, <2>2 DEF TypeOK
<1>2. ReaderShape'
  BY <1>s DEF TypeOK, Keys, ReaderShape
<1>3. ProducerShape'
  BY <1>s DEF TypeOK, ProducerShape, ReaderShape
<1>4. StampShape'
  BY <1>s DEF TypeOK, StampShape, ReaderShape, ProducerShape
<1>5. TextureShape'
  BY <1>s DEF TypeOK, TextureShape
<1>6. NewestIsSomewhere'
  BY <1>s DEF TypeOK, StampShape, ReaderShape, ProducerShape, NewestIsSomewhere
<1>7. CalmShape'
  BY <1>s DEF TypeOK, StampShape, ReaderShape, NewestIsSomewhere, CalmShape, NewestAfterPoll, InTransit
<1> QED BY <1>1, <1>2, <1>3, <1>4, <1>5, <1>6, <1>7

LEMMA GpuDoneStep ==
  ASSUME IInv, NEW i \in Slots, GpuDone(i)
  PROVE  IInv'
<1> USE RingAssumption DEF IInv, Slots, ringVars, pubVars, readVars, GpuDone
<1>s. Slot \in Slots
  BY SlotIsSlot DEF TypeOK
<1>t. Slot' = Slot
  BY DEF Slot
<1>1. TypeOK'
  BY <1>s, <1>t DEF TypeOK, Keys
<1>2. ReaderShape'
  BY <1>s, <1>t DEF TypeOK, Keys, ReaderShape
<1>3. ProducerShape'
  BY <1>s, <1>t DEF TypeOK, ProducerShape, ReaderShape
<1>4. StampShape'
  BY <1>s, <1>t DEF TypeOK, StampShape, ReaderShape, ProducerShape
<1>5. TextureShape'
  BY <1>s, <1>t DEF TypeOK, TextureShape
<1>6. NewestIsSomewhere'
  BY <1>s, <1>t DEF TypeOK, StampShape, ReaderShape, ProducerShape, NewestIsSomewhere
<1>7. CalmShape'
  BY <1>s, <1>t DEF TypeOK, StampShape, ReaderShape, NewestIsSomewhere, CalmShape, NewestAfterPoll, InTransit
<1> QED BY <1>1, <1>2, <1>3, <1>4, <1>5, <1>6, <1>7

LEMMA PollBeginStep ==
  ASSUME IInv, PollBegin
  PROVE  IInv'
<1> USE RingAssumption DEF IInv, Slots, ringVars, pubVars, readVars, PollBegin
<1>s. Slot \in Slots
  BY SlotIsSlot DEF TypeOK
<1>t. Slot' = Slot
  BY DEF Slot
<1>1. TypeOK'
  BY <1>s, <1>t DEF TypeOK, Keys
<1>2. ReaderShape'
  BY <1>s, <1>t DEF TypeOK, Keys, ReaderShape
<1>3. ProducerShape'
  BY <1>s, <1>t DEF TypeOK, ProducerShape, ReaderShape
<1>4. StampShape'
  BY <1>s, <1>t DEF TypeOK, StampShape, ReaderShape, ProducerShape
<1>5. TextureShape'
  BY <1>s, <1>t DEF TypeOK, TextureShape
<1>6. NewestIsSomewhere'
  BY <1>s, <1>t DEF TypeOK, StampShape, ReaderShape, ProducerShape, NewestIsSomewhere
<1>7. CalmShape'
  BY <1>s, <1>t DEF TypeOK, StampShape, ReaderShape, NewestIsSomewhere, CalmShape, NewestAfterPoll, InTransit
<1> QED BY <1>1, <1>2, <1>3, <1>4, <1>5, <1>6, <1>7

LEMMA PassSlotStep ==
  ASSUME IInv, PassSlot
  PROVE  IInv'
<1> USE RingAssumption DEF IInv, Slots, ringVars, pubVars, readVars, PassSlot, NothingNew
<1>s. Slot \in Slots
  BY SlotIsSlot DEF TypeOK
<1>t. Slot' = Slot
  BY DEF Slot
<1>1. TypeOK'
  BY <1>s, <1>t DEF TypeOK, Keys
<1>2. ReaderShape'
  BY <1>s, <1>t DEF TypeOK, Keys, ReaderShape
<1>3. ProducerShape'
  BY <1>s, <1>t DEF TypeOK, ProducerShape, ReaderShape
<1>4. StampShape'
  BY <1>s, <1>t DEF TypeOK, StampShape, ReaderShape, ProducerShape
<1>5. TextureShape'
  BY <1>s, <1>t DEF TypeOK, TextureShape
<1>6. NewestIsSomewhere'
  BY <1>s, <1>t DEF TypeOK, StampShape, ReaderShape, ProducerShape, NewestIsSomewhere
<1>7. CalmShape'
  BY <1>s, <1>t DEF TypeOK, StampShape, ReaderShape, NewestIsSomewhere, CalmShape, NewestAfterPoll, InTransit
<1> QED BY <1>1, <1>2, <1>3, <1>4, <1>5, <1>6, <1>7

LEMMA AcquireReadyStep ==
  ASSUME IInv, AcquireReady
  PROVE  IInv'
<1> USE RingAssumption DEF IInv, Slots, ringVars, pubVars, readVars, AcquireReady, NothingNew
<1>s. Slot \in Slots
  BY SlotIsSlot DEF TypeOK
<1>t. Slot' = Slot
  BY DEF Slot
<1>1. TypeOK'
  BY <1>s, <1>t DEF TypeOK, Keys
<1>2. ReaderShape'
  BY <1>s, <1>t DEF TypeOK, Keys, ReaderShape
<1>3. ProducerShape'
  BY <1>s, <1>t DEF TypeOK, ProducerShape, ReaderShape
<1>4. StampShape'
  BY <1>s, <1>t DEF TypeOK, StampShape, ReaderShape, ProducerShape
<1>5. TextureShape'
  BY <1>s, <1>t DEF TypeOK, TextureShape
<1>6. NewestIsSomewhere'
  BY <1>s, <1>t DEF TypeOK, StampShape, ReaderShape, ProducerShape, NewestIsSomewhere
<1>7. CalmShape'
  BY <1>s, <1>t DEF TypeOK, StampShape, ReaderShape, NewestIsSomewhere, CalmShape, NewestAfterPoll, InTransit
<1> QED BY <1>1, <1>2, <1>3, <1>4, <1>5, <1>6, <1>7

LEMMA KeepStep ==
  ASSUME IInv, Keep
  PROVE  IInv'
<1> USE RingAssumption DEF IInv, Slots, ringVars, pubVars, readVars, Keep, Newer, LeaseEnded, ScanAfterKeep
<1>s. Slot \in Slots
  BY SlotIsSlot DEF TypeOK
<1>t. Slot' = Slot
  BY DEF Slot
<1>1. TypeOK'
  <2>1. mutex' \in [Slots -> Keys]
    BY DEF TypeOK, Keys
  <2>2. shown' \in 0 .. MaxFrames
    BY DEF TypeOK, ReaderShape
  <2>3. returned' \in [Slots -> 0 .. MaxFrames]
    BY DEF TypeOK
  <2>4. held' \in Slots \cup {None}
    BY DEF TypeOK, ReaderShape
  <2>5. scan' \in 0 .. NumSlots
    BY DEF TypeOK, ReaderShape
  <2> HIDE DEF Slots
  <2> QED BY <2>1, <2>2, <2>3, <2>4, <2>5 DEF TypeOK
<1>2. ReaderShape'
  BY <1>s, <1>t DEF TypeOK, Keys, ReaderShape
<1>3. ProducerShape'
  BY <1>s, <1>t DEF TypeOK, ProducerShape, ReaderShape
<1>4. StampShape'
  BY <1>s, <1>t DEF TypeOK, StampShape, ReaderShape, ProducerShape
<1>5. TextureShape'
  BY <1>s, <1>t DEF TypeOK, TextureShape
<1>6. NewestIsSomewhere'
  BY <1>s, <1>t DEF TypeOK, StampShape, ReaderShape, ProducerShape, NewestIsSomewhere
<1>7. CalmShape'
  <2>1. rd' = "scan" /\ UNCHANGED <<calm, pub, stamp, sequence>> /\ NewestAfterPoll'
    BY DEF NewestAfterPoll
  <2>2. calm' => ~InTransit'
    BY DEF TypeOK, CalmShape, InTransit
  <2>3. ASSUME calm, shown' # sequence
        PROVE  \E i \in Slots : scan' <= i /\ stamp[i] = sequence /\ mutex'[i] = "ready"
    <3>1. shown < stamp[scan] /\ stamp[scan] < sequence
      BY <2>3 DEF TypeOK, ReaderShape, StampShape
    <3>2. PICK i \in Slots : scan <= i /\ stamp[i] = sequence
                           /\ mutex[i] = (IF i = scan THEN "reader" ELSE "ready")
      BY <2>3, <3>1 DEF TypeOK, StampShape, CalmShape
    <3>3. i # scan /\ i # held
      BY <3>1, <3>2 DEF TypeOK, ReaderShape
    <3> QED BY <3>2, <3>3 DEF TypeOK
  <2> QED BY <2>1, <2>2, <2>3 DEF CalmShape
<1> QED BY <1>1, <1>2, <1>3, <1>4, <1>5, <1>6, <1>7

LEMMA GiveBackStep ==
  ASSUME IInv, GiveBack
  PROVE  IInv'
<1> USE RingAssumption DEF IInv, Slots, ringVars, pubVars, readVars, GiveBack, Newer
<1>s. Slot \in Slots
  BY SlotIsSlot DEF TypeOK
<1>t. Slot' = Slot
  BY DEF Slot
<1>1. TypeOK'
  <2>1. mutex' \in [Slots -> Keys]
    BY DEF TypeOK, Keys, ReaderShape
  <2>2. returned' \in [Slots -> 0 .. MaxFrames]
    BY DEF TypeOK, ReaderShape
  <2>3. scan' \in 0 .. NumSlots
    BY DEF TypeOK, ReaderShape
  <2> HIDE DEF Slots
  <2> QED BY <2>1, <2>2, <2>3 DEF TypeOK
<1>2. ReaderShape'
  BY <1>s, <1>t DEF TypeOK, Keys, ReaderShape
<1>3. ProducerShape'
  BY <1>s, <1>t DEF TypeOK, ProducerShape, ReaderShape
<1>4. StampShape'
  BY <1>s, <1>t DEF TypeOK, StampShape, ReaderShape, ProducerShape
<1>5. TextureShape'
  BY <1>s, <1>t DEF TypeOK, TextureShape
<1>6. NewestIsSomewhere'
  BY <1>s, <1>t DEF TypeOK, StampShape, ReaderShape, ProducerShape, NewestIsSomewhere
<1>7. CalmShape'
  BY <1>s, <1>t DEF TypeOK, StampShape, ReaderShape, NewestIsSomewhere, CalmShape, NewestAfterPoll, InTransit
<1> QED BY <1>1, <1>2, <1>3, <1>4, <1>5, <1>6, <1>7

LEMMA PollEndStep ==
  ASSUME IInv, PollEnd
  PROVE  IInv'
<1> USE RingAssumption DEF IInv, Slots, ringVars, pubVars, readVars, PollEnd
<1>s. Slot \in Slots
  BY SlotIsSlot DEF TypeOK
<1>t. Slot' = Slot
  BY DEF Slot
<1>1. TypeOK'
  BY <1>s, <1>t DEF TypeOK, Keys
<1>2. ReaderShape'
  BY <1>s, <1>t DEF TypeOK, Keys, ReaderShape
<1>3. ProducerShape'
  BY <1>s, <1>t DEF TypeOK, ProducerShape, ReaderShape
<1>4. StampShape'
  BY <1>s, <1>t DEF TypeOK, StampShape, ReaderShape, ProducerShape
<1>5. TextureShape'
  BY <1>s, <1>t DEF TypeOK, TextureShape
<1>6. NewestIsSomewhere'
  BY <1>s, <1>t DEF TypeOK, StampShape, ReaderShape, ProducerShape, NewestIsSomewhere
<1>7. CalmShape'
  BY <1>s, <1>t DEF TypeOK, StampShape, ReaderShape, NewestIsSomewhere, CalmShape, NewestAfterPoll, InTransit
<1> QED BY <1>1, <1>2, <1>3, <1>4, <1>5, <1>6, <1>7

LEMMA ReaderQuitsStep ==
  ASSUME IInv, ReaderQuits
  PROVE  IInv'
<1> USE RingAssumption DEF IInv, Slots, ringVars, pubVars, readVars, ReaderQuits
<1>s. Slot \in Slots
  BY SlotIsSlot DEF TypeOK
<1>t. Slot' = Slot
  BY DEF Slot
<1>1. TypeOK'
  BY <1>s, <1>t DEF TypeOK, Keys
<1>2. ReaderShape'
  BY <1>s, <1>t DEF TypeOK, Keys, ReaderShape
<1>3. ProducerShape'
  BY <1>s, <1>t DEF TypeOK, ProducerShape, ReaderShape
<1>4. StampShape'
  BY <1>s, <1>t DEF TypeOK, StampShape, ReaderShape, ProducerShape
<1>5. TextureShape'
  BY <1>s, <1>t DEF TypeOK, TextureShape
<1>6. NewestIsSomewhere'
  BY <1>s, <1>t DEF TypeOK, StampShape, ReaderShape, ProducerShape, NewestIsSomewhere
<1>7. CalmShape'
  BY <1>s, <1>t DEF TypeOK, StampShape, ReaderShape, NewestIsSomewhere, CalmShape, NewestAfterPoll, InTransit
<1> QED BY <1>1, <1>2, <1>3, <1>4, <1>5, <1>6, <1>7

LEMMA ReaderKilledStep ==
  ASSUME IInv, ReaderKilled
  PROVE  IInv'
<1> USE RingAssumption DEF IInv, Slots, ringVars, pubVars, readVars, ReaderKilled
<1>s. Slot \in Slots
  BY SlotIsSlot DEF TypeOK
<1>t. Slot' = Slot
  BY DEF Slot
<1>1. TypeOK'
  BY <1>s, <1>t DEF TypeOK, Keys
<1>2. ReaderShape'
  BY <1>s, <1>t DEF TypeOK, Keys, ReaderShape
<1>3. ProducerShape'
  BY <1>s, <1>t DEF TypeOK, ProducerShape, ReaderShape
<1>4. StampShape'
  BY <1>s, <1>t DEF TypeOK, StampShape, ReaderShape, ProducerShape
<1>5. TextureShape'
  BY <1>s, <1>t DEF TypeOK, TextureShape
<1>6. NewestIsSomewhere'
  BY <1>s, <1>t DEF TypeOK, StampShape, ReaderShape, ProducerShape, NewestIsSomewhere
<1>7. CalmShape'
  BY <1>s, <1>t DEF TypeOK, StampShape, ReaderShape, NewestIsSomewhere, CalmShape, NewestAfterPoll, InTransit
<1> QED BY <1>1, <1>2, <1>3, <1>4, <1>5, <1>6, <1>7

LEMMA StopChannelStep ==
  ASSUME IInv, StopChannel
  PROVE  IInv'
<1> USE RingAssumption DEF IInv, Slots, ringVars, pubVars, readVars, StopChannel
<1>s. Slot \in Slots
  BY SlotIsSlot DEF TypeOK
<1>t. Slot' = Slot
  BY DEF Slot
<1>1. TypeOK'
  BY <1>s, <1>t DEF TypeOK, Keys
<1>2. ReaderShape'
  BY <1>s, <1>t DEF TypeOK, Keys, ReaderShape
<1>3. ProducerShape'
  BY <1>s, <1>t DEF TypeOK, ProducerShape, ReaderShape
<1>4. StampShape'
  BY <1>s, <1>t DEF TypeOK, StampShape, ReaderShape, ProducerShape
<1>5. TextureShape'
  BY <1>s, <1>t DEF TypeOK, TextureShape
<1>6. NewestIsSomewhere'
  BY <1>s, <1>t DEF TypeOK, StampShape, ReaderShape, ProducerShape, NewestIsSomewhere
<1>7. CalmShape'
  BY <1>s, <1>t DEF TypeOK, StampShape, ReaderShape, NewestIsSomewhere, CalmShape, NewestAfterPoll, InTransit
<1> QED BY <1>1, <1>2, <1>3, <1>4, <1>5, <1>6, <1>7

LEMMA StutterStep ==
  ASSUME IInv, UNCHANGED vars
  PROVE  IInv'
BY DEF IInv, TypeOK, ReaderShape, ProducerShape, StampShape, TextureShape, NewestIsSomewhere,
       CalmShape, NewestAfterPoll, InTransit, Slot, vars, ringVars, pubVars, readVars

-----------------------------------------------------------------------------
(* The invariants.                                                         *)

LEMMA IInvInit == Init => IInv
<1> SUFFICES ASSUME Init PROVE IInv OBVIOUS
<1> USE RingAssumption DEF Init, Slots
<1>0. 0 \in Slots /\ 0 \in 0 .. MaxFrames /\ 0 \in 0 .. NumSlots
  OBVIOUS
<1>1. TypeOK
  <2> HIDE DEF Slots
  <2> QED BY <1>0 DEF TypeOK, Keys
<1>2. ReaderShape /\ ProducerShape /\ StampShape /\ TextureShape
  BY DEF ReaderShape, ProducerShape, StampShape, TextureShape
<1>3. NewestIsSomewhere /\ CalmShape
  BY DEF NewestIsSomewhere, CalmShape, NewestAfterPoll
<1> QED BY <1>1, <1>2, <1>3 DEF IInv

LEMMA IInvStep == IInv /\ [Next]_vars => IInv'
<1> SUFFICES ASSUME IInv, [Next]_vars PROVE IInv' OBVIOUS
<1>1. CASE Present \/ PublishStep
  BY <1>1, PresentStep, TrySlotStep, CopyStep, StampStep, ReleaseStep, PublishFailedStep
  DEF PublishStep
<1>2. CASE \E i \in Slots : GpuDone(i)
  BY <1>2, GpuDoneStep
<1>3. CASE ReaderStep
  BY <1>3, PollBeginStep, PassSlotStep, AcquireReadyStep, KeepStep, GiveBackStep, PollEndStep
  DEF ReaderStep
<1>4. CASE ReaderQuits \/ ReaderKilled \/ StopChannel
  BY <1>4, ReaderQuitsStep, ReaderKilledStep, StopChannelStep
<1>5. CASE UNCHANGED vars
  BY <1>5, StutterStep
<1> QED BY <1>1, <1>2, <1>3, <1>4, <1>5 DEF Next

LEMMA IInvAlways == Spec => []IInv
BY IInvInit, IInvStep, PTL DEF Spec

\* Every variable keeps to its type: slot indices stay in the ring, and no
\* frame is numbered beyond those presented.
THEOREM TypeCorrect == Spec => []TypeOK
<1>1. IInv => TypeOK BY DEF IInv
<1> QED BY <1>1, IInvAlways, PTL

\* The slot the reader holds is its own and its texture the complete frame the
\* reader believes it to be, in every interleaving of Publish, Poll and the GPU,
\* with a ring of any size.
THEOREM HeldStaysIntact == Spec => []HeldIsIntact
<1>1. IInv => HeldIsIntact
  BY RingAssumption DEF IInv, TypeOK, ReaderShape, TextureShape, HeldIsIntact, Slots
<1> QED BY <1>1, IInvAlways, PTL

\* A Poll during which no frame was on its way ends with the newest one.
THEOREM CalmPollIsNewest == Spec => []NewestAfterPoll
<1>1. IInv => NewestAfterPoll BY DEF IInv, CalmShape
<1> QED BY <1>1, IInvAlways, PTL

-----------------------------------------------------------------------------
(* The ring implements the mailbox, as far as what may happen goes; that a *)
(* frame is shown at last rests on fairness.                               *)

LEMMA MailStep ==
  ASSUME IInv, [Next]_vars
  PROVE  [Mailbox!MailNext]_(Mailbox!mailVars)
<1> USE DEF Mailbox!mailVars, ringVars, pubVars, readVars
<1>1. CASE Stamp
  BY <1>1 DEF Stamp, Mailbox!MailNext, Mailbox!Post
<1>2. CASE Keep
  <2>1. shown' \in shown + 1 .. sequence
    BY <1>2 DEF IInv, TypeOK, ReaderShape, StampShape, Keep, Newer
  <2>2. UNCHANGED <<sequence, active>> /\ (rd' = "gone" <=> rd = "gone")
    BY <1>2 DEF Keep
  <2> QED BY <2>1, <2>2 DEF Mailbox!MailNext, Mailbox!Show, Mailbox!LateShow
<1>3. CASE PublishFailed \/ ReaderQuits \/ ReaderKilled \/ StopChannel
  BY <1>3 DEF PublishFailed, ReaderQuits, ReaderKilled, StopChannel, Mailbox!MailNext, Mailbox!End
<1>4. CASE Present \/ TrySlot \/ Copy \/ Release \/ (\E i \in Slots : GpuDone(i))
  BY <1>4 DEF Present, TrySlot, Copy, Release, GpuDone
<1>5. CASE PollBegin \/ PassSlot \/ AcquireReady \/ GiveBack \/ PollEnd
  BY <1>5 DEF PollBegin, PassSlot, AcquireReady, GiveBack, PollEnd
<1>6. CASE UNCHANGED vars
  BY <1>6 DEF vars
<1> QED BY <1>1, <1>2, <1>3, <1>4, <1>5, <1>6 DEF Next, PublishStep, ReaderStep

\* Frames are published one by one and reach the reader in their order, never
\* an older one after a newer and never one that was not published; the reader
\* may take one more after the generation has ended.
THEOREM FramesComeInOrder == Spec => Mailbox!MailSafety
<1>1. Init => Mailbox!MailInit
  BY DEF Init, Mailbox!MailInit
<1>2. IInv /\ [Next]_vars => [Mailbox!MailNext]_(Mailbox!mailVars)
  BY MailStep
<1> QED BY <1>1, <1>2, IInvAlways, PTL DEF Spec, Mailbox!MailSafety

=============================================================================
