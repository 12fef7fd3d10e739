-------------------------- MODULE ModeQueriesProofs --------------------------
(***************************************************************************)
(* That every mode the driver accepts can be described, and the safety     *)
(* properties of ModeQueries, for any modes a client may ask for and any   *)
(* number of devices and power transitions.                                *)
(***************************************************************************)
EXTENDS ModeQueries, SequenceTheorems, TLAPS

-----------------------------------------------------------------------------
(* Mode lists.                                                             *)

\* Modes, and those the driver accepts.
Modes == [Width : Nat, Height : Nat, RefreshHz : Nat]
Supported == {m \in Modes : IsSupportedMode(m)}

\* The driver supports its own table.
LEMMA TableIsSupported ==
  Len(ModeTable) = 11 /\ DOMAIN ModeTable = 1 .. 11 /\ ModeTable \in Seq(Supported)
<1> USE DEF IsSupportedMode, LineRateFits, ClockAtMost, PixelClock, HorizontalHz, HBlank, VBlank,
        MaxActivePixels, MaxLineRateHz, MaxPixelClockKHz
<1>1. Len(ModeTable) = 11 /\ DOMAIN ModeTable = 1 .. 11
  BY DEF ModeTable
<1>2. \A h \in {60, 72, 90, 120} : NyanMode(1920, 1080, h) \in Supported
  BY DEF NyanMode, Supported, Modes
<1>3. \A h \in {60, 90, 120} : NyanMode(2560, 1440, h) \in Supported /\ NyanMode(3840, 2160, h) \in Supported
  BY DEF NyanMode, Supported, Modes
<1>4. NyanMode(1280, 720, 60) \in Supported
  BY DEF NyanMode, Supported, Modes
<1> HIDE DEF IsSupportedMode
<1>5. ModeTable \in Seq(Supported)
  BY <1>2, <1>3, <1>4 DEF ModeTable
<1> QED BY <1>1, <1>5

\* So it does the table without its i-th mode.
LEMMA TableWithoutOne ==
  ASSUME NEW i \in 1 .. 11
  PROVE  LET rest == SubSeq(ModeTable, 1, i - 1) \o SubSeq(ModeTable, i + 1, Len(ModeTable))
         IN  rest \in Seq(Supported) /\ Len(rest) = 10
<1>1. \A k \in 1 .. 11 : ModeTable[k] \in Supported
  BY TableIsSupported, ElementOfSeq
<1> HIDE DEF ModeTable
<1>2. SubSeq(ModeTable, 1, i - 1) \in Seq(Supported) /\ Len(SubSeq(ModeTable, 1, i - 1)) = i - 1
  <2>1. \A k \in 1 .. i - 1 : ModeTable[k] \in Supported
    BY <1>1
  <2> QED BY <2>1, SubSeqProperties
<1>3. SubSeq(ModeTable, i + 1, 11) \in Seq(Supported) /\ Len(SubSeq(ModeTable, i + 1, 11)) = 11 - i
  <2>1. \A k \in i + 1 .. 11 : ModeTable[k] \in Supported
    BY <1>1
  <2> QED BY <2>1, SubSeqProperties
<1> QED BY <1>2, <1>3, TableIsSupported, ConcatProperties

\* What a sequence with one element in front of it is.
LEMMA Prepended ==
  ASSUME NEW S, NEW s \in Seq(S), NEW t \in Seq(S), Len(s) = 1
  PROVE  s \o t \in Seq(S) /\ Len(s \o t) = 1 + Len(t) /\ (s \o t)[1] = s[1]
<1>1. Len(t) \in Nat
  OBVIOUS
<1>2. /\ s \o t \in Seq(S) /\ Len(s \o t) = Len(s) + Len(t)
      /\ \A k \in 1 .. Len(s) + Len(t) : (s \o t)[k] = IF k <= Len(s) THEN s[k] ELSE t[k - Len(s)]
  BY ConcatProperties
<1>3. 1 \in 1 .. Len(s) + Len(t)
  BY <1>1
<1> QED BY <1>2, <1>3

\* A supported mode has a list of supported modes, itself first.
LEMMA ListIsSupported ==
  ASSUME NEW m \in Supported
  PROVE  /\ BuildModeList(m) \in Seq(Supported)
         /\ Len(BuildModeList(m)) \in 11 .. 12
         /\ BuildModeList(m)[1] = m
<1> DEFINE first == <<m>>
           place == {k \in DOMAIN ModeTable : ModeTable[k] = m}
           i == CHOOSE k \in place : TRUE
           rest == IF place = {} THEN ModeTable
                   ELSE SubSeq(ModeTable, 1, i - 1) \o SubSeq(ModeTable, i + 1, Len(ModeTable))
<1>1. first \in Seq(Supported) /\ Len(first) = 1 /\ first[1] = m
  OBVIOUS
<1>2. rest \in Seq(Supported) /\ Len(rest) \in 10 .. 11
  <2>1. CASE place = {}
    BY <2>1, TableIsSupported
  <2>2. CASE place # {}
    <3>1. i \in 1 .. 11
      BY <2>2, TableIsSupported
    <3> HIDE DEF i
    <3>2. rest = SubSeq(ModeTable, 1, i - 1) \o SubSeq(ModeTable, i + 1, Len(ModeTable))
      BY <2>2
    <3> HIDE DEF rest
    <3>3. rest \in Seq(Supported) /\ Len(rest) = 10
      BY <3>1, <3>2, TableWithoutOne, Zenon
    <3> QED BY <3>3
  <2> QED BY <2>1, <2>2
<1>3. BuildModeList(m) = first \o rest
  BY DEF BuildModeList
<1> HIDE DEF first, rest
<1>4. first \o rest \in Seq(Supported) /\ Len(first \o rest) = 1 + Len(rest) /\ (first \o rest)[1] = m
  BY <1>1, <1>2, Prepended
<1>5. Len(first \o rest) \in 11 .. 12
  <2>1. \A n \in 10 .. 11 : 1 + n \in 11 .. 12
    OBVIOUS
  <2> QED BY <1>2, <1>4, <2>1, Zenon
<1> QED BY <1>3, <1>4, <1>5, Zenon

\* The mode every list has, whatever is plugged: the first of the table.
HasStandard(list) == \E k \in DOMAIN list : list[k] = NyanMode(1920, 1080, 60)

\* The table has it, first,
LEMMA TableHasStandard ==
  ModeTable[1] = NyanMode(1920, 1080, 60) /\ HasStandard(ModeTable)
<1>1. ModeTable[1] = NyanMode(1920, 1080, 60)
  BY DEF ModeTable
<1> QED BY <1>1, TableIsSupported DEF HasStandard

\* and keeps it there when another mode is taken out.
LEMMA StandardStays ==
  ASSUME NEW i \in 2 .. 11
  PROVE  LET rest == SubSeq(ModeTable, 1, i - 1) \o SubSeq(ModeTable, i + 1, Len(ModeTable))
         IN  rest[1] = ModeTable[1]
<1> HIDE DEF ModeTable
<1> DEFINE front == SubSeq(ModeTable, 1, i - 1)
           back == SubSeq(ModeTable, i + 1, 11)
<1>1. \A k \in 1 .. 11 : ModeTable[k] \in Supported
  BY TableIsSupported, ElementOfSeq
<1>2. front \in Seq(Supported) /\ Len(front) = i - 1 /\ front[1] = ModeTable[1]
  <2>1. \A k \in 1 .. i - 1 : ModeTable[k] \in Supported
    BY <1>1
  <2> QED BY <2>1, SubSeqProperties
<1>3. back \in Seq(Supported)
  <2>1. \A k \in i + 1 .. 11 : ModeTable[k] \in Supported
    BY <1>1
  <2> QED BY <2>1, SubSeqProperties
<1> HIDE DEF front, back
<1>4. \A k \in 1 .. Len(front) + Len(back) :
        (front \o back)[k] = IF k <= Len(front) THEN front[k] ELSE back[k - Len(front)]
  BY <1>2, <1>3, ConcatProperties
<1>5. Len(back) \in Nat /\ 1 \in 1 .. Len(front) + Len(back) /\ 1 <= Len(front)
  BY <1>2, <1>3
<1>6. (front \o back)[1] = ModeTable[1]
  BY <1>2, <1>4, <1>5
<1> QED BY <1>6, TableIsSupported DEF front, back

\* So every mode's list has it: as the mode itself, or right behind it.
LEMMA ListHasStandard ==
  ASSUME NEW m \in Supported PROVE HasStandard(BuildModeList(m))
<1> DEFINE std == NyanMode(1920, 1080, 60)
           place == {k \in DOMAIN ModeTable : ModeTable[k] = m}
           i == CHOOSE k \in place : TRUE
           rest == IF place = {} THEN ModeTable
                   ELSE SubSeq(ModeTable, 1, i - 1) \o SubSeq(ModeTable, i + 1, Len(ModeTable))
<1>1. BuildModeList(m) = <<m>> \o rest
  BY DEF BuildModeList
<1>2. BuildModeList(m) \in Seq(Supported) /\ Len(BuildModeList(m)) \in 11 .. 12 /\ BuildModeList(m)[1] = m
  BY ListIsSupported
<1>3. 1 \in DOMAIN BuildModeList(m) /\ 2 \in DOMAIN BuildModeList(m)
  BY <1>2
<1>4. CASE m = std
  BY <1>2, <1>3, <1>4 DEF HasStandard
<1>5. CASE m # std
  <2>1. rest \in Seq(Supported) /\ Len(rest) \in 10 .. 11 /\ rest[1] = std
    <3>1. CASE place = {}
      BY <3>1, TableIsSupported, TableHasStandard
    <3>2. CASE place # {}
      <4>1. i \in 1 .. 11 /\ ModeTable[i] = m
        BY <3>2, TableIsSupported
      <4> HIDE DEF i
      <4>2. i \in 2 .. 11
        BY <4>1, <1>5, TableHasStandard
      <4>3. rest = SubSeq(ModeTable, 1, i - 1) \o SubSeq(ModeTable, i + 1, Len(ModeTable))
        BY <3>2
      <4> HIDE DEF rest
      <4>4. rest[1] = ModeTable[1]
        BY <4>2, <4>3, StandardStays, Zenon
      <4>5. rest \in Seq(Supported) /\ Len(rest) = 10
        BY <4>1, <4>3, TableWithoutOne, Zenon
      <4> QED BY <4>4, <4>5, TableHasStandard
    <3> QED BY <3>1, <3>2
  <2> HIDE DEF rest, std
  <2>2. <<m>> \in Seq(Supported) /\ Len(<<m>>) = 1
    OBVIOUS
  <2>3. \A k \in 1 .. Len(<<m>>) + Len(rest) :
          (<<m>> \o rest)[k] = IF k <= Len(<<m>>) THEN <<m>>[k] ELSE rest[k - Len(<<m>>)]
    BY <2>1, <2>2, ConcatProperties
  <2>4. (<<m>> \o rest)[2] = rest[1]
    BY <2>1, <2>2, <2>3
  <2> QED BY <1>1, <1>3, <2>1, <2>4 DEF HasStandard, std
<1> QED BY <1>4, <1>5

\* A sequence of integers no longer than the OS's mode lists has a largest and
\* a smallest element.
HasExtremes(n) ==
  \A g \in [1 .. n -> Int] :
    /\ \E k \in 1 .. n : \A i \in 1 .. n : g[i] <= g[k]
    /\ \E k \in 1 .. n : \A i \in 1 .. n : g[i] >= g[k]

\* One more element keeps that.
LEMMA OneMore ==
  ASSUME NEW n \in Nat \ {0}, HasExtremes(n)
  PROVE  HasExtremes(n + 1)
<1> SUFFICES ASSUME NEW g \in [1 .. n + 1 -> Int]
             PROVE  /\ \E k \in 1 .. n + 1 : \A i \in 1 .. n + 1 : g[i] <= g[k]
                    /\ \E k \in 1 .. n + 1 : \A i \in 1 .. n + 1 : g[i] >= g[k]
  BY DEF HasExtremes
<1> DEFINE f == [i \in 1 .. n |-> g[i]]
<1>1. f \in [1 .. n -> Int] /\ \A i \in 1 .. n : f[i] = g[i]
  OBVIOUS
<1> HIDE DEF f
<1>2. PICK k \in 1 .. n : \A i \in 1 .. n : g[i] <= g[k]
  BY <1>1 DEF HasExtremes
<1>3. PICK l \in 1 .. n : \A i \in 1 .. n : g[i] >= g[l]
  BY <1>1 DEF HasExtremes
<1>4. \A i \in 1 .. n + 1 : g[i] <= g[IF g[n + 1] > g[k] THEN n + 1 ELSE k]
  BY <1>2
<1>5. \A i \in 1 .. n + 1 : g[i] >= g[IF g[n + 1] < g[l] THEN n + 1 ELSE l]
  BY <1>3
<1>6. /\ (IF g[n + 1] > g[k] THEN n + 1 ELSE k) \in 1 .. n + 1
      /\ (IF g[n + 1] < g[l] THEN n + 1 ELSE l) \in 1 .. n + 1
  OBVIOUS
<1> QED BY <1>4, <1>5, <1>6

\* A mode list has eleven or twelve modes.
LEMMA ListsHaveExtremes == \A n \in 11 .. 12 : HasExtremes(n)
<1>1. HasExtremes(1) BY DEF HasExtremes
<1>2. HasExtremes(2) BY <1>1, OneMore
<1>3. HasExtremes(3) BY <1>2, OneMore
<1>4. HasExtremes(4) BY <1>3, OneMore
<1>5. HasExtremes(5) BY <1>4, OneMore
<1>6. HasExtremes(6) BY <1>5, OneMore
<1>7. HasExtremes(7) BY <1>6, OneMore
<1>8. HasExtremes(8) BY <1>7, OneMore
<1>9. HasExtremes(9) BY <1>8, OneMore
<1>10. HasExtremes(10) BY <1>9, OneMore
<1>11. HasExtremes(11) BY <1>10, OneMore
<1>12. HasExtremes(12) BY <1>11, OneMore
<1> QED BY <1>11, <1>12

\* Min and Max are the extremes of what a list of numbers holds.
LEMMA ImageExtremes ==
  ASSUME NEW n \in Nat, HasExtremes(n),
         NEW g \in [1 .. n -> Nat], NEW S,
         \A i \in 1 .. n : g[i] \in S, \A x \in S : \E i \in 1 .. n : x = g[i]
  PROVE  /\ Min(S) \in S /\ Max(S) \in S
         /\ \A x \in S : Min(S) <= x /\ x <= Max(S)
<1>0. g \in [1 .. n -> Int]
  OBVIOUS
<1>1. PICK k \in 1 .. n : \A i \in 1 .. n : g[i] <= g[k]
  BY <1>0 DEF HasExtremes
<1>2. PICK l \in 1 .. n : \A i \in 1 .. n : g[i] >= g[l]
  BY <1>0 DEF HasExtremes
<1>3. g[k] \in S /\ \A y \in S : g[k] >= y
  BY <1>1
<1>4. g[l] \in S /\ \A y \in S : g[l] =< y
  BY <1>2
<1>5. Max(S) \in S /\ \A y \in S : Max(S) >= y
  BY <1>3 DEF Max
<1>6. Min(S) \in S /\ \A y \in S : Min(S) =< y
  BY <1>4 DEF Min
<1> QED BY <1>5, <1>6

-----------------------------------------------------------------------------
(* Range limits.                                                           *)

\* The pixels of a frame, blanking included.
Pixels(m) == (m.Width + HBlank) * (m.Height + VBlank)

\* The pair of kHz and Hz is the exact pixel clock.
LEMMA ClockIsExact ==
  ASSUME NEW m \in Modes
  PROVE  LET c == PixelClock(m)
         IN  /\ c.kHz \in Nat /\ c.Hz \in Nat /\ c.Hz < 1000
             /\ c.kHz * 1000 + c.Hz = Pixels(m) * m.RefreshHz
<1> DEFINE p == Pixels(m)
           hz == m.RefreshHz
           q == p \div 1000
           r == p % 1000
           t == r * hz
<1>1. hz \in Nat /\ p \in Nat
  BY DEF Modes, HBlank, VBlank, Pixels
<1>2. PixelClock(m) = [kHz |-> q * hz + t \div 1000, Hz |-> t % 1000]
  BY DEF PixelClock, Pixels
<1> HIDE DEF p, hz
<1>3. q \in Nat /\ r \in Nat /\ p = q * 1000 + r
  BY <1>1
<1> HIDE DEF q, r
<1>4. t \in Nat /\ q * hz \in Nat /\ p * hz = (q * hz) * 1000 + t
  BY <1>1, <1>3
<1> HIDE DEF t
<1>5. t \div 1000 \in Nat /\ t % 1000 \in Nat /\ t % 1000 < 1000
      /\ t = (t \div 1000) * 1000 + (t % 1000)
  BY <1>4
<1> QED BY <1>2, <1>4, <1>5 DEF p, hz

\* The limits of IsSupportedMode, one by one.
LEMMA SupportedBounds ==
  ASSUME NEW m \in Supported
  PROVE  /\ m \in Modes /\ 24 <= m.RefreshHz /\ m.RefreshHz <= 240
         /\ 640 <= m.Width /\ m.Width <= 4095 /\ 480 <= m.Height /\ m.Height <= 4095
         /\ HorizontalHz(m) \in Nat /\ HorizontalHz(m) <= MaxLineRateHz
         /\ PixelClock(m).kHz \in Nat /\ PixelClock(m).Hz \in Nat
         /\ PixelClock(m).kHz + (IF PixelClock(m).Hz > 0 THEN 1 ELSE 0) <= MaxPixelClockKHz
<1>1. /\ m \in Modes /\ m.Width \in Nat /\ m.Height \in Nat /\ m.RefreshHz \in Nat
      /\ 24 <= m.RefreshHz /\ m.RefreshHz <= 240
      /\ 640 <= m.Width /\ m.Width <= 4095 /\ 480 <= m.Height /\ m.Height <= 4095
  <2>1. m \in Modes /\ m.Width \in Nat /\ m.Height \in Nat /\ m.RefreshHz \in Nat
    BY DEF Supported, Modes
  <2>2. m.Width \in 640 .. MaxActivePixels /\ m.Height \in 480 .. MaxActivePixels
    BY DEF Supported, IsSupportedMode
  <2>3. m.RefreshHz \in 24 .. 240
    BY DEF Supported, IsSupportedMode
  <2>4. 640 <= m.Width /\ m.Width <= MaxActivePixels /\ 480 <= m.Height /\ m.Height <= MaxActivePixels
    BY <2>2 DEF Modes
  <2>5. 24 <= m.RefreshHz /\ m.RefreshHz <= 240
    BY <2>3
  <2> QED BY <2>1, <2>4, <2>5 DEF MaxActivePixels
<1>2. HorizontalHz(m) \in Nat /\ HorizontalHz(m) <= MaxLineRateHz
  <2>1. HorizontalHz(m) <= MaxLineRateHz
    BY DEF Supported, IsSupportedMode, LineRateFits
  <2>2. HorizontalHz(m) \in Nat
    BY <1>1 DEF HorizontalHz, VBlank
  <2> QED BY <2>1, <2>2
<1>3. PixelClock(m).kHz \in Nat /\ PixelClock(m).Hz \in Nat
  BY <1>1, ClockIsExact
<1>4. \/ PixelClock(m).kHz < MaxPixelClockKHz
      \/ PixelClock(m).kHz = MaxPixelClockKHz /\ PixelClock(m).Hz = 0
  BY DEF Supported, IsSupportedMode, ClockAtMost
<1>5. MaxPixelClockKHz \in Nat
  BY DEF MaxPixelClockKHz
<1> QED BY <1>1, <1>2, <1>3, <1>4, <1>5

\* Two bytes and their offset flags hold any limits up to 510.
LEMMA LimitsAreKept ==
  ASSUME NEW min \in Nat, NEW max \in Nat, min <= max, max <= 510
  PROVE  Bounds(WriteLimits(min, max)) = [min |-> min, max |-> max]
<1>1. CASE max <= 255
  BY <1>1 DEF Bounds, WriteLimits, Offset, Clamp8
<1>2. CASE max > 255 /\ min > 255
  BY <1>2 DEF Bounds, WriteLimits, Offset, Clamp8
<1>3. CASE max > 255 /\ min <= 255
  BY <1>3 DEF Bounds, WriteLimits, Offset, Clamp8
<1> QED BY <1>1, <1>2, <1>3

\* The refresh rates of a list and their limits.
LEMMA RefreshLimits ==
  ASSUME NEW n \in Nat, HasExtremes(n), NEW list \in [1 .. n -> Supported]
  PROVE  LET min == Min(Rates(list))
             max == Max(Rates(list))
         IN  /\ min \in Nat /\ max \in Nat /\ min <= max /\ max <= 510
             /\ \A i \in 1 .. n : min <= list[i].RefreshHz /\ list[i].RefreshHz <= max
<1> DEFINE g == [i \in 1 .. n |-> list[i].RefreshHz]
           S == Rates(list)
<1>1. \A i \in 1 .. n : list[i].RefreshHz \in Nat /\ list[i].RefreshHz <= 240
  BY SupportedBounds DEF Modes
<1>2. S = {list[i].RefreshHz : i \in 1 .. n}
  BY DEF Rates
<1>3. g \in [1 .. n -> Nat] /\ \A i \in 1 .. n : g[i] = list[i].RefreshHz
  BY <1>1
<1>4. (\A i \in 1 .. n : g[i] \in S) /\ \A x \in S : \E i \in 1 .. n : x = g[i]
  BY <1>2, <1>3
<1> HIDE DEF g, S
<1>5. Min(S) \in S /\ Max(S) \in S /\ \A x \in S : Min(S) <= x /\ x <= Max(S)
  BY <1>3, <1>4, ImageExtremes, Zenon
<1>6. \A x \in S : x \in Nat /\ x <= 510
  BY <1>1, <1>2
<1>7. \A i \in 1 .. n : list[i].RefreshHz \in S
  BY <1>2
<1> QED BY <1>5, <1>6, <1>7 DEF S

\* A line rate in kHz, rounded down and up, and a clock in 10 MHz.
KHzDown(l) == l \div 1000
KHzUp(l) == (l + 999) \div 1000
TenMHzUp(k) == (k + 9999) \div 10000

LineRounds(l) ==
  /\ KHzDown(l) \in Nat /\ KHzDown(l) * 1000 <= l
  /\ KHzUp(l) \in Nat /\ l <= KHzUp(l) * 1000 /\ KHzUp(l) <= 510

ClockRounds(k) ==
  TenMHzUp(k) \in Nat /\ k <= TenMHzUp(k) * 10000 /\ TenMHzUp(k) <= 255

\* A line rate within the limit rounds to kHz that two bytes and flags can hold.
LEMMA LinesRound ==
  ASSUME NEW l \in Nat, l <= MaxLineRateHz
  PROVE  LineRounds(l)
BY DEF LineRounds, KHzDown, KHzUp, MaxLineRateHz

\* A clock within the limit rounds to 10 MHz that one byte can hold.
LEMMA ClocksRound ==
  ASSUME NEW k \in Nat, k <= MaxPixelClockKHz
  PROVE  ClockRounds(k)
BY DEF ClockRounds, TenMHzUp, MaxPixelClockKHz

\* The line rates of a list and their limits.
LEMMA LineLimits ==
  ASSUME NEW n \in Nat, HasExtremes(n), NEW list \in [1 .. n -> Supported]
  PROVE  LET min == Min({l \div 1000 : l \in Lines(list)})
             max == Max({(l + 999) \div 1000 : l \in Lines(list)})
         IN  /\ min \in Nat /\ max \in Nat /\ max <= 510
             /\ \A i \in 1 .. n : min * 1000 <= HorizontalHz(list[i]) /\ HorizontalHz(list[i]) <= max * 1000
<1> DEFINE line == [i \in 1 .. n |-> HorizontalHz(list[i])]
           low == [i \in 1 .. n |-> KHzDown(line[i])]
           high == [i \in 1 .. n |-> KHzUp(line[i])]
           S == {l \div 1000 : l \in Lines(list)}
           T == {(l + 999) \div 1000 : l \in Lines(list)}
<1>1. /\ Lines(list) = {line[i] : i \in 1 .. n}
      /\ \A i \in 1 .. n : line[i] = HorizontalHz(list[i])
      /\ \A i \in 1 .. n : line[i] \in Nat /\ line[i] <= MaxLineRateHz
  <2>1. \A i \in 1 .. n : line[i] = HorizontalHz(list[i])
    OBVIOUS
  <2>2. Lines(list) = {line[i] : i \in 1 .. n}
    BY DEF Lines
  <2>3. \A i \in 1 .. n : HorizontalHz(list[i]) \in Nat /\ HorizontalHz(list[i]) <= MaxLineRateHz
    BY SupportedBounds
  <2> HIDE DEF line
  <2> QED BY <2>1, <2>2, <2>3
<1> HIDE DEF line
<1>2. \A i \in 1 .. n : LineRounds(line[i])
  BY <1>1, LinesRound, Zenon
<1>3. S = {KHzDown(line[i]) : i \in 1 .. n} /\ T = {KHzUp(line[i]) : i \in 1 .. n}
  BY <1>1 DEF KHzDown, KHzUp
<1>4. low \in [1 .. n -> Nat] /\ high \in [1 .. n -> Nat]
  BY <1>2 DEF LineRounds
<1>5. \A i \in 1 .. n : low[i] = KHzDown(line[i]) /\ high[i] = KHzUp(line[i])
  OBVIOUS
<1> HIDE DEF low, high, S, T
<1>6. (\A i \in 1 .. n : low[i] \in S) /\ \A x \in S : \E i \in 1 .. n : x = low[i]
  BY <1>3, <1>5
<1>7. (\A i \in 1 .. n : high[i] \in T) /\ \A x \in T : \E i \in 1 .. n : x = high[i]
  BY <1>3, <1>5
<1>8. Min(S) \in S /\ \A x \in S : Min(S) <= x
  BY <1>4, <1>6, ImageExtremes, Zenon
<1>9. Max(T) \in T /\ \A x \in T : x <= Max(T)
  BY <1>4, <1>7, ImageExtremes, Zenon
<1>10. Min(S) \in Nat
  BY <1>2, <1>3, <1>8 DEF LineRounds
<1>11. Max(T) \in Nat /\ Max(T) <= 510
  BY <1>2, <1>3, <1>9 DEF LineRounds
<1>12. ASSUME NEW i \in 1 .. n
       PROVE  Min(S) * 1000 <= HorizontalHz(list[i]) /\ HorizontalHz(list[i]) <= Max(T) * 1000
  <2>1. Min(S) <= KHzDown(line[i]) /\ KHzUp(line[i]) <= Max(T)
    BY <1>3, <1>8, <1>9
  <2>2. line[i] = HorizontalHz(list[i]) /\ line[i] \in Nat
    BY <1>1
  <2>3. /\ KHzDown(line[i]) \in Nat /\ KHzDown(line[i]) * 1000 <= line[i]
        /\ KHzUp(line[i]) \in Nat /\ line[i] <= KHzUp(line[i]) * 1000
    BY <1>2 DEF LineRounds
  <2> QED BY <1>10, <1>11, <2>1, <2>2, <2>3
<1> QED BY <1>10, <1>11, <1>12 DEF S, T

Rounded(c) == c.kHz + (IF c.Hz > 0 THEN 1 ELSE 0)

\* The clocks of a list and their limit.
LEMMA ClockLimit ==
  ASSUME NEW n \in Nat, HasExtremes(n), NEW list \in [1 .. n -> Supported]
  PROVE  LET max == Max({(c.kHz + (IF c.Hz > 0 THEN 1 ELSE 0) + 9999) \div 10000 : c \in Clocks(list)})
         IN  /\ max \in Nat /\ max <= 255
             /\ \A i \in 1 .. n : Rounded(PixelClock(list[i])) <= max * 10000
<1> DEFINE clk == [i \in 1 .. n |-> Rounded(PixelClock(list[i]))]
           g == [i \in 1 .. n |-> TenMHzUp(clk[i])]
           T == {(c.kHz + (IF c.Hz > 0 THEN 1 ELSE 0) + 9999) \div 10000 : c \in Clocks(list)}
<1>1. \A i \in 1 .. n : clk[i] = Rounded(PixelClock(list[i]))
  OBVIOUS
<1>2. T = {TenMHzUp(Rounded(PixelClock(list[i]))) : i \in 1 .. n}
  BY DEF Clocks, Rounded, TenMHzUp
<1> HIDE DEF clk, T
<1>3. \A i \in 1 .. n : Rounded(PixelClock(list[i])) \in Nat /\ Rounded(PixelClock(list[i])) <= MaxPixelClockKHz
  BY SupportedBounds DEF Rounded
<1>4. \A i \in 1 .. n : clk[i] \in Nat /\ clk[i] <= MaxPixelClockKHz
  BY <1>1, <1>3
<1>5. \A i \in 1 .. n : ClockRounds(clk[i])
  BY <1>4, ClocksRound, Zenon
<1>6. g \in [1 .. n -> Nat] /\ \A i \in 1 .. n : g[i] = TenMHzUp(clk[i])
  BY <1>5 DEF ClockRounds
<1> HIDE DEF g
<1>7. (\A i \in 1 .. n : g[i] \in T) /\ \A x \in T : \E i \in 1 .. n : x = g[i]
  BY <1>1, <1>2, <1>6
<1>8. Max(T) \in T /\ \A x \in T : x <= Max(T)
  BY <1>6, <1>7, ImageExtremes, Zenon
<1>9. Max(T) \in Nat /\ Max(T) <= 255
  BY <1>5, <1>6, <1>7, <1>8 DEF ClockRounds
<1>10. ASSUME NEW i \in 1 .. n
       PROVE  Rounded(PixelClock(list[i])) <= Max(T) * 10000
  <2>1. clk[i] \in Nat /\ TenMHzUp(clk[i]) \in Nat /\ clk[i] <= TenMHzUp(clk[i]) * 10000
    BY <1>4, <1>5 DEF ClockRounds
  <2>2. TenMHzUp(clk[i]) <= Max(T)
    BY <1>6, <1>7, <1>8
  <2> QED BY <1>1, <1>9, <2>1, <2>2
<1> QED BY <1>9, <1>10 DEF T

\* A reader of the range limits finds every mode of the list within them.
LEMMA RangeEnclosesList ==
  ASSUME NEW n \in Nat, HasExtremes(n), NEW list \in [1 .. n -> Supported], NEW j \in 1 .. n,
         NEW e, e.range = WriteRangeLimits(ComputeRangeLimits(list))
  PROVE  ModeInRange(e, list[j])
<1> DEFINE r == ComputeRangeLimits(list)
           hz == list[j].RefreshHz
           line == HorizontalHz(list[j])
           c == PixelClock(list[j])
<1>1. /\ r.MinV \in Nat /\ r.MaxV \in Nat /\ r.MinV <= r.MaxV /\ r.MaxV <= 510
      /\ r.MinV <= hz /\ hz <= r.MaxV
  BY RefreshLimits DEF ComputeRangeLimits
<1>2. /\ r.MinH \in Nat /\ r.MaxH \in Nat /\ r.MaxH <= 510
      /\ r.MinH * 1000 <= line /\ line <= r.MaxH * 1000
  BY LineLimits DEF ComputeRangeLimits
<1>3. r.MaxClk \in Nat /\ r.MaxClk <= 255 /\ Rounded(c) <= r.MaxClk * 10000
  BY ClockLimit DEF ComputeRangeLimits
<1>4. hz \in Nat /\ line \in Nat /\ c.kHz \in Nat /\ c.Hz \in Nat
  BY SupportedBounds DEF Modes
<1>5. e.range = [V |-> WriteLimits(r.MinV, r.MaxV), H |-> WriteLimits(r.MinH, r.MaxH),
                 clk |-> Clamp8(r.MaxClk)]
  BY DEF WriteRangeLimits
<1> HIDE DEF r, hz, line, c
<1>6. r.MinH <= r.MaxH
  BY <1>2, <1>4
<1>7. Bounds(e.range.V) = [min |-> r.MinV, max |-> r.MaxV]
  BY <1>1, <1>5, LimitsAreKept
<1>8. Bounds(e.range.H) = [min |-> r.MinH, max |-> r.MaxH]
  BY <1>2, <1>5, <1>6, LimitsAreKept
<1>9. e.range.clk = r.MaxClk
  BY <1>3, <1>5 DEF Clamp8
<1>10. hz \in r.MinV .. r.MaxV /\ line \in r.MinH * 1000 .. r.MaxH * 1000
  BY <1>1, <1>2, <1>4
<1>11. Rounded(c) = (IF c.Hz > 0 THEN c.kHz + 1 ELSE c.kHz)
  BY <1>4 DEF Rounded
<1>12. InRange(e, hz, line, IF c.Hz > 0 THEN c.kHz + 1 ELSE c.kHz)
  BY <1>3, <1>7, <1>8, <1>9, <1>10, <1>11 DEF InRange
<1> QED BY <1>12 DEF ModeInRange, hz, line, c

-----------------------------------------------------------------------------
(* The preferred timing.                                                   *)

\* A quotient is bounded by what its dividend is bounded by.
LEMMA QuotientAtMost ==
  ASSUME NEW x \in Nat, NEW p \in Nat, p > 0, NEW q \in Nat, x < p * (q + 1)
  PROVE  x \div p <= q
<1>1. x \div p \in Nat /\ (x \div p) * p <= x
  BY SMT
<1> QED BY <1>1, SMT

\* At 24 Hz the clock of every supported resolution fits a detailed timing.
LEMMA SlowestFits ==
  ASSUME NEW m \in Modes, m.Width <= 4095, m.Height <= 4095, m.RefreshHz = 24
  PROVE  DtdEncodable(m)
<1> DEFINE w == m.Width + HBlank
           h == m.Height + VBlank
           c == PixelClock(m)
<1>1. m.Width \in Nat /\ m.Height \in Nat
  BY DEF Modes
<1>2. w \in Nat /\ h \in Nat /\ w <= 4255 /\ h <= 4130
  BY <1>1 DEF HBlank, VBlank
<1>3. /\ c.kHz \in Nat /\ c.Hz \in Nat
      /\ c.kHz * 1000 + c.Hz = (w * h) * 24
  BY <1>1, ClockIsExact DEF Pixels
<1> HIDE DEF w, h, c
<1>4. w * h \in Nat /\ w * h <= 4255 * h
  BY <1>2, SMT
<1>5. 4255 * h <= 17573150
  BY <1>2, SMT
<1>6. c.kHz < 655350
  BY <1>2, <1>3, <1>4, <1>5, SMT
<1> QED BY <1>1, <1>6, SMT DEF DtdEncodable, ClockAtMost, MaxActivePixels, c

\* Of some of the refresh rates to step down to, one is the highest.
LEMMA StepDownHasMax ==
  ASSUME NEW R \in SUBSET StepDown, R # {}
  PROVE  \E h \in R : \A k \in R : k <= h
<1> DEFINE h == IF 120 \in R THEN 120 ELSE IF 100 \in R THEN 100 ELSE IF 90 \in R THEN 90
                ELSE IF 75 \in R THEN 75 ELSE IF 72 \in R THEN 72 ELSE IF 60 \in R THEN 60
                ELSE IF 50 \in R THEN 50 ELSE IF 30 \in R THEN 30 ELSE 24
<1>1. h \in R
  <2>1. PICK k \in R : TRUE
    OBVIOUS
  <2>2. k \in {120, 100, 90, 75, 72, 60, 50, 30, 24}
    BY DEF StepDown
  <2> QED BY <2>1, <2>2
<1>2. \A k \in R : k <= h
  BY DEF StepDown
<1> QED BY <1>1, <1>2

\* The detailed timing has the requested resolution at a rate that fits, never
\* the fallback of 1920 x 1080.
LEMMA DtdModeFits ==
  ASSUME NEW m \in Supported
  PROVE  /\ DtdModeFor(m) \in Modes
         /\ DtdModeFor(m).Width = m.Width /\ DtdModeFor(m).Height = m.Height
         /\ DtdModeFor(m).RefreshHz <= m.RefreshHz
         /\ DtdEncodable(DtdModeFor(m))
<1> DEFINE at(hz) == [m EXCEPT !.RefreshHz = hz]
           slower == {at(hz) : hz \in {h \in StepDown : h < m.RefreshHz}}
           fitting == {c \in slower : DtdEncodable(c)}
           R == {h \in StepDown : h < m.RefreshHz /\ DtdEncodable(at(h))}
<1>1. m \in Modes /\ m.RefreshHz \in Nat /\ 24 <= m.RefreshHz
  BY SupportedBounds DEF Modes
<1>2. CASE DtdEncodable(m)
  <2>1. DtdModeFor(m) = m
    BY <1>2 DEF DtdModeFor
  <2> QED BY <1>1, <1>2, <2>1
<1>3. CASE ~DtdEncodable(m)
  <2>1. \A h \in StepDown : h \in Nat
    BY DEF StepDown
  <2>2. \A h \in Nat : /\ at(h) \in Modes /\ at(h).RefreshHz = h
                       /\ at(h).Width = m.Width /\ at(h).Height = m.Height
    BY <1>1 DEF Modes
  <2>3. 24 \in R
    <3>1. m.RefreshHz # 24
      BY <1>1, <1>3, SlowestFits, SupportedBounds
    <3>2. DtdEncodable(at(24))
      <4>1. at(24) \in Modes /\ at(24).RefreshHz = 24 /\ at(24).Width <= 4095 /\ at(24).Height <= 4095
        BY <2>2, SupportedBounds
      <4> HIDE DEF at
      <4> QED BY <4>1, SlowestFits
    <3> QED BY <1>1, <3>1, <3>2 DEF StepDown
  <2>4. PICK h \in R : \A k \in R : k <= h
    BY <2>3, StepDownHasMax
  <2>5. at(h) \in fitting /\ \A d \in fitting : d.RefreshHz <= at(h).RefreshHz
    BY <2>1, <2>2, <2>4
  <2>6. DtdModeFor(m) = CHOOSE c \in fitting : \A d \in fitting : d.RefreshHz <= c.RefreshHz
    <3>1. DtdModeFor(m) = IF DtdEncodable(m) THEN m
                          ELSE IF fitting = {} THEN NyanMode(1920, 1080, 60)
                          ELSE CHOOSE c \in fitting : \A d \in fitting : d.RefreshHz <= c.RefreshHz
      BY DEF DtdModeFor
    <3> HIDE DEF fitting
    <3> QED BY <1>3, <2>5, <3>1
  <2> HIDE DEF fitting
  <2>7. DtdModeFor(m) \in fitting
    BY <2>5, <2>6
  <2>8. PICK k \in StepDown : k < m.RefreshHz /\ DtdModeFor(m) = at(k) /\ DtdEncodable(at(k))
    BY <2>7 DEF fitting
  <2> HIDE DEF at
  <2> QED BY <1>1, <2>1, <2>2, <2>8
<1> QED BY <1>2, <1>3

\* The preferred timing has the mode's resolution, and its refresh rate rounds
\* to no more than the mode's.
LEMMA DtdIsDescribed ==
  ASSUME NEW m \in Supported, NEW size, NEW e, e.dtd = WriteDtd(DtdModeFor(m), size)
  PROVE  e.dtd.w = m.Width /\ e.dtd.h = m.Height /\ DtdHz(e) <= m.RefreshHz
<1> DEFINE d == DtdModeFor(m)
           c == PixelClock(d)
           p == Pixels(d)
           clk == e.dtd.clk
<1>1. /\ d \in Modes /\ d.Width = m.Width /\ d.Height = m.Height
      /\ d.RefreshHz <= m.RefreshHz /\ DtdEncodable(d)
  BY DtdModeFits
<1>2. /\ m.Width \in Nat /\ m.Height \in Nat /\ m.RefreshHz \in Nat
      /\ m.Width <= 4095 /\ m.Height <= 4095
  BY SupportedBounds DEF Modes
<1>3. d.RefreshHz \in Nat
  BY <1>1 DEF Modes
<1>4. /\ c.kHz \in Nat /\ c.Hz \in Nat
      /\ c.kHz * 1000 + c.Hz = p * d.RefreshHz
  BY <1>1, ClockIsExact
<1>5. c.kHz <= 655350
  BY <1>1, <1>4, SMT DEF DtdEncodable, ClockAtMost
<1>6. /\ clk = (c.kHz \div 10) % 65536
      /\ e.dtd.w = d.Width % 4096 /\ e.dtd.h = d.Height % 4096
  BY DEF WriteDtd
<1>7. e.dtd.w = m.Width /\ e.dtd.h = m.Height
  BY <1>1, <1>2, <1>6
<1>8. p \in Nat /\ p > 0 /\ DtdPixels(e) = p
  BY <1>1, <1>2, <1>7 DEF Pixels, DtdPixels, HBlank, VBlank
<1>9. DtdHz(e) = (clk * 10000 + p \div 2) \div p
  BY <1>8 DEF DtdHz
<1> HIDE DEF d, c, p, clk
<1>10. clk \in Nat /\ clk * 10 <= c.kHz
  BY <1>4, <1>5, <1>6, SMT
<1>11. p * d.RefreshHz \in Nat /\ clk * 10000 <= p * d.RefreshHz
  BY <1>3, <1>4, <1>8, <1>10, SMT
<1> DEFINE x == clk * 10000 + p \div 2
<1>12. x \in Nat /\ x < p * (d.RefreshHz + 1)
  BY <1>3, <1>8, <1>10, <1>11, SMT
<1> HIDE DEF x
<1>13. x \div p <= d.RefreshHz
  BY <1>3, <1>8, <1>12, QuotientAtMost
<1>14. x \div p \in Int
  BY <1>8, <1>12, SMT
<1>15. DtdHz(e) <= m.RefreshHz
  BY <1>1, <1>2, <1>3, <1>9, <1>13, <1>14 DEF x
<1> QED BY <1>7, <1>15

-----------------------------------------------------------------------------
(* The size of the panel.                                                  *)

\* n pixels in millimetres at 96 DPI, rounded to the nearest.
Mm(n) == (n * 254 + 480) \div 960

MmIsClose(n) == 960 * Mm(n) - 254 * n <= 480 /\ 254 * n - 960 * Mm(n) <= 480

\* It is one, within half a millimetre.
LEMMA MmRounds ==
  ASSUME NEW n \in Nat, n <= 4095
  PROVE  Mm(n) \in Nat /\ Mm(n) <= 1084 /\ MmIsClose(n)
BY SMT DEF Mm, MmIsClose

\* Rounding each side moves the ratio of the sides by at most half a pixel
\* of the other.
LEMMA RatioIsKept ==
  ASSUME NEW W \in Nat, NEW H \in Nat, W <= 4095, H <= 4095
  PROVE  /\ 2 * (Mm(W) * H - Mm(H) * W) <= W + H
         /\ 2 * (Mm(H) * W - Mm(W) * H) <= W + H
<1> DEFINE a == 960 * Mm(W) - 254 * W
           b == 960 * Mm(H) - 254 * H
<1>1. Mm(W) \in Nat /\ Mm(H) \in Nat /\ MmIsClose(W) /\ MmIsClose(H)
  BY MmRounds
<1> HIDE DEF Mm
<1>2. a \in Int /\ b \in Int /\ a <= 480 /\ -480 <= a /\ b <= 480 /\ -480 <= b
  BY <1>1, SMT DEF MmIsClose
<1>3. 960 * (Mm(W) * H - Mm(H) * W) = a * H - b * W
  BY <1>1, SMT
<1> HIDE DEF a, b
<1>4. a * H <= 480 * H /\ -(480 * H) <= a * H /\ b * W <= 480 * W /\ -(480 * W) <= b * W
  BY <1>2, SMT
<1>5. a * H \in Int /\ b * W \in Int /\ Mm(W) * H \in Nat /\ Mm(H) * W \in Nat
  BY <1>1, <1>2, SMT
<1> DEFINE x == Mm(W) * H
           y == Mm(H) * W
           aH == a * H
           bW == b * W
<1>6. x \in Nat /\ y \in Nat /\ aH \in Int /\ bW \in Int /\ 960 * (x - y) = aH - bW
      /\ aH <= 480 * H /\ -(480 * H) <= aH /\ bW <= 480 * W /\ -(480 * W) <= bW
  BY <1>3, <1>4, <1>5
<1> HIDE DEF x, y, aH, bW
<1>7. 2 * (x - y) <= W + H /\ 2 * (y - x) <= W + H
  BY <1>6, SMT
<1> QED BY <1>7 DEF x, y

\* The panel has the shape of the mode, to a pixel of rounding.
LEMMA SizeIsDescribed ==
  ASSUME NEW m \in Supported
  PROVE  LET s == PhysicalSizeMm(m)
             off == s.w * m.Height - s.h * m.Width
         IN  /\ s.w \in Nat /\ s.h \in Nat /\ s.w <= 1100 /\ s.h <= 380
             /\ off <= m.Width + m.Height /\ -(m.Width + m.Height) <= off
<1> DEFINE W == m.Width
           H == m.Height
           w == Mm(W)
           h == Mm(H)
           s == PhysicalSizeMm(m)
<1>1. W \in Nat /\ H \in Nat /\ W <= 4095 /\ H <= 4095
  BY SupportedBounds DEF Modes
<1>2. s = IF h > 380 THEN [w |-> (w * 380 + h \div 2) \div h, h |-> 380]
          ELSE [w |-> w, h |-> h]
  BY DEF PhysicalSizeMm, MaxPanelHeightMm, Mm
<1> HIDE DEF W, H, s
<1>3. w \in Nat /\ h \in Nat /\ w <= 1084 /\ h <= 1084
  BY <1>1, MmRounds
<1>4. 2 * (w * H - h * W) <= W + H /\ 2 * (h * W - w * H) <= W + H
  BY <1>1, RatioIsKept
<1> HIDE DEF w, h
<1>5. w * H \in Nat /\ h * W \in Nat
  BY <1>1, <1>3, SMT
<1>6. CASE h <= 380
  <2>1. s.w = w /\ s.h = h
    BY <1>2, <1>3, <1>6
  <2> QED BY <1>1, <1>3, <1>4, <1>5, <1>6, <2>1, SMT DEF s, W, H
<1>7. CASE h > 380
  <2> DEFINE v == (w * 380 + h \div 2) \div h
             e == h * v - 380 * w
             d == w * H - h * W
             off == v * H - 380 * W
  <2>1. s.w = v /\ s.h = 380
    BY <1>2, <1>7
  <2>2. w * 380 \in Nat /\ h \div 2 \in Nat /\ 2 * (h \div 2) <= h /\ h <= 2 * (h \div 2) + 1
    BY <1>3, SMT
  <2>3. v \in Nat /\ v * h <= w * 380 + h \div 2 /\ w * 380 + h \div 2 < v * h + h
    <3> DEFINE x == w * 380 + h \div 2
    <3>1. x \in Nat
      BY <2>2
    <3> HIDE DEF x
    <3>2. x \div h \in Nat /\ (x \div h) * h <= x /\ x < (x \div h) * h + h
      BY <1>3, <1>7, <3>1, SMT
    <3> QED BY <3>2 DEF x
  <2> HIDE DEF v
  <2>4. e \in Int /\ 2 * e <= h /\ -h <= 2 * e
    BY <1>3, <2>2, <2>3, SMT
  <2>5. v <= 1100
    <3>1. h * v <= h * (w + 1)
      BY <1>3, <1>7, <2>2, <2>3, SMT
    <3>2. v <= w + 1
      BY <1>3, <1>7, <2>3, <3>1, SMT
    <3> QED BY <1>3, <2>3, <3>2, SMT
  <2>6. h * off = 380 * d + e * H
    BY <1>1, <1>3, <2>3, SMT
  <2>7. d \in Int /\ 2 * d <= W + H /\ -(W + H) <= 2 * d
    BY <1>1, <1>4, <1>5, SMT
  <2>8. off \in Int
    BY <1>1, <2>3, SMT
  <2> HIDE DEF d, e, off
  <2>9. e * H \in Int /\ 2 * (e * H) <= h * H /\ -(h * H) <= 2 * (e * H)
    BY <1>1, <1>3, <2>4, SMT
  <2>10. 380 * (W + H) <= h * (W + H)
    BY <1>1, <1>3, <1>7, SMT
  <2>11. 2 * (h * off) <= h * (W + H) + h * H /\ -(h * (W + H) + h * H) <= 2 * (h * off)
    BY <1>1, <1>3, <2>6, <2>7, <2>9, <2>10, SMT
  <2>12. h * (2 * off) <= h * (W + H + H) /\ h * (-(W + H + H)) <= h * (2 * off)
    BY <1>1, <1>3, <2>8, <2>11, SMT
  <2>13. 2 * off <= W + H + H /\ -(W + H + H) <= 2 * off
    BY <1>1, <1>3, <1>7, <2>8, <2>12, SMT
  <2>14. off <= W + H /\ -(W + H) <= off
    BY <1>1, <2>8, <2>13, SMT
  <2> QED BY <2>1, <2>3, <2>5, <2>14 DEF off, s, W, H
<1> QED BY <1>3, <1>6, <1>7

\* What AcceptedIsDescribed says of a slot with mode m and EDID e.
Described(m, e) ==
  LET list == BuildModeList(m)
      off == e.dtd.mmW * m.Height - e.dtd.mmH * m.Width
  IN /\ \A i \in DOMAIN list : ModeInRange(e, list[i])
     /\ e.dtd.w = m.Width /\ e.dtd.h = m.Height
     /\ DtdHz(e) <= m.RefreshHz
     /\ e.dtd.mmH <= MaxPanelHeightMm
     /\ off \in -(m.Width + m.Height) .. m.Width + m.Height
     /\ e.cmW * 10 - e.dtd.mmW \in -5 .. 5

\* A supported mode can be described.
LEMMA SupportedIsDescribed ==
  ASSUME NEW m \in Supported
  PROVE  Described(m, BuildEdid(m))
<1> DEFINE e == BuildEdid(m)
           list == BuildModeList(m)
           n == Len(list)
           size == PhysicalSizeMm(m)
           off == size.w * m.Height - size.h * m.Width
           d == DtdModeFor(m)
<1>1. /\ e.range = WriteRangeLimits(ComputeRangeLimits(list))
      /\ e.dtd = WriteDtd(d, size)
      /\ e.cmW = Clamp8((size.w + 5) \div 10)
  BY DEF BuildEdid
<1>2. /\ list \in Seq(Supported) /\ n \in 11 .. 12
  BY ListIsSupported
<1>3. /\ size.w \in Nat /\ size.h \in Nat /\ size.w <= 1100 /\ size.h <= 380
      /\ off <= m.Width + m.Height /\ -(m.Width + m.Height) <= off
  BY SizeIsDescribed
<1>4. m.Width \in Nat /\ m.Height \in Nat
  BY SupportedBounds DEF Modes
<1>5. e.dtd.mmW = size.w % 4096 /\ e.dtd.mmH = size.h % 4096
  BY <1>1 DEF WriteDtd
<1> HIDE DEF e, list, size, d
<1>6. \A i \in DOMAIN list : ModeInRange(e, list[i])
  <2> HIDE DEF n
  <2>1. n \in Nat /\ HasExtremes(n)
    <3>1. n \in Nat
      BY <1>2, SMT
    <3>2. HasExtremes(n)
      BY <1>2, ListsHaveExtremes, Zenon
    <3> QED BY <3>1, <3>2, Zenon
  <2>2. list \in [1 .. n -> Supported] /\ DOMAIN list = 1 .. n
    BY <1>2, LenProperties DEF n
  <2> QED BY <1>1, <2>1, <2>2, RangeEnclosesList
<1>7. e.dtd.w = m.Width /\ e.dtd.h = m.Height /\ DtdHz(e) <= m.RefreshHz
  BY <1>1, DtdIsDescribed DEF d
<1>8. e.dtd.mmW = size.w /\ e.dtd.mmH = size.h
  BY <1>3, <1>5, SMT
<1>9. off \in -(m.Width + m.Height) .. m.Width + m.Height
  <2>1. off \in Int
    BY <1>3, <1>4, SMT
  <2> HIDE DEF off
  <2> QED BY <1>3, <1>4, <2>1, SMT
<1>10. e.cmW * 10 - size.w \in -5 .. 5
  <2>1. (size.w + 5) \div 10 \in Nat /\ (size.w + 5) \div 10 <= 110
    BY <1>3, SMT
  <2>2. e.cmW = (size.w + 5) \div 10
    BY <1>1, <2>1, SMT DEF Clamp8
  <2> QED BY <1>3, <2>2, SMT
<1>11. e.dtd.mmH <= MaxPanelHeightMm
  BY <1>3, <1>8 DEF MaxPanelHeightMm
<1> HIDE DEF off
<1>12. off = e.dtd.mmW * m.Height - e.dtd.mmH * m.Width
  BY <1>8 DEF off
<1> QED BY <1>6, <1>7, <1>8, <1>9, <1>10, <1>11, <1>12 DEF Described, e, list

-----------------------------------------------------------------------------
(* The inductive invariant.                                                *)

\* The modes a client may ask for and get.
Accepted == {m \in Requests : IsSupportedMode(m)}

\* A mode list as the OS gets it: the standard mode is always in it.
Lists == {list \in [modes : Seq(Modes), hdr : BOOLEAN] : HasStandard(list.modes)}

\* What a list handed to the OS is like.
ListShape(list) ==
  list # None =>
    list \in Lists /\ Len(list.modes) <= 12 /\ (list.hdr => adapters = <<TRUE>>)

\* A device without a context has no adapter; one gets its adapter while
\* InitAdapter runs, and no second one; once that is through, HDR10_READY says
\* what the adapter declared.
AdapterShape ==
  /\ AdapterTypeOK
  /\ ~context => init = "off" /\ adapters = <<>>
  /\ context /\ ~started => init = "off" /\ adapters = <<>> /\ state = "starting"
  /\ init \in {"caps", "attempt", "refused"} =>
       context /\ started /\ adapters = <<>> /\ state = "starting"
  /\ init = "accepted" => context /\ started /\ adapters = <<flags>> /\ state = "starting"
  /\ init \in {"attempt", "accepted"} /\ flags => hdrReady
  /\ init \in {"on", "off"} /\ adapters # <<>> => adapters = <<hdrReady>>
  /\ context /\ state = "ready" => init \in {"on", "off"} /\ adapters # <<>>

\* A plugged monitor has a ready adapter, and the EDID of its mode.
SlotShape ==
  /\ slot = None => edid = None
  /\ slot # None =>
       /\ slot \in [mode : Accepted, hdr : BOOLEAN]
       /\ edid = BuildEdid(slot.mode)
       /\ context /\ state = "ready" /\ (slot.hdr => hdrReady)

\* Where the OS is with its queries.
QueryShape ==
  /\ call \in Calls /\ room \in 0 .. 12 /\ steady \in BOOLEAN
  /\ ListShape(monitorModes) /\ ListShape(targetModes)

\* While the plug stands still, what the OS was told is what it is told now.
SteadyShape ==
  steady =>
    /\ call \in {"parse", "target"} => room = Count(Resolved)
    /\ call \in {"target count", "target", "done"} => monitorModes = Resolved
    /\ call = "done" => targetModes = Resolved

IInv == AdapterShape /\ SlotShape /\ QueryShape /\ SteadyShape

-----------------------------------------------------------------------------
(* What the queries return.                                                *)

\* The built-in table is a list the OS can take.
LEMMA TableIsAList ==
  ModeTable \in Seq(Modes) /\ Len(ModeTable) = 11 /\ HasStandard(ModeTable)
<1>1. ModeTable \in Seq(Supported) /\ Supported \subseteq Modes
  BY TableIsSupported DEF Supported
<1> HIDE DEF ModeTable
<1> QED BY <1>1, TableIsSupported, TableHasStandard

\* So is the list of a mode that was accepted, which is first in it.
LEMMA ListIsAList ==
  ASSUME NEW m \in Accepted
  PROVE  /\ m \in Supported
         /\ BuildModeList(m) \in Seq(Modes) /\ Len(BuildModeList(m)) \in 11 .. 12
         /\ BuildModeList(m)[1] = m /\ HasStandard(BuildModeList(m))
<1>1. m \in Supported /\ Supported \subseteq Modes
  BY RequestsAssumption DEF Accepted, Supported, Modes
<1> QED BY <1>1, ListIsSupported, ListHasStandard

\* What the driver resolves for the cookie is a list the OS can take, of the
\* plugged mode first and with its HDR flag.
LEMMA ResolvedIsAList ==
  ASSUME SlotShape
  PROVE  /\ Resolved \in Lists /\ Resolved # None
         /\ Count(Resolved) \in 0 .. 12 /\ Len(Resolved.modes) <= 12
         /\ slot # None => Resolved.modes[1] = slot.mode /\ Resolved.hdr = slot.hdr
         /\ slot = None => ~Resolved.hdr
<1>1. CASE slot = None
  <2>1. Resolved = [modes |-> ModeTable, hdr |-> FALSE]
    BY <1>1 DEF Resolved
  <2>2. Resolved \in Lists
    BY <2>1, TableIsAList DEF Lists
  <2>3. Len(Resolved.modes) = 11 /\ Count(Resolved) = 11 /\ ~Resolved.hdr
    BY <2>1, TableIsAList DEF Count
  <2>4. Resolved # None
    BY <2>2, RequestsAssumption DEF Lists, Modes
  <2> QED BY <1>1, <2>2, <2>3, <2>4
<1>2. CASE slot # None
  <2> DEFINE m == slot.mode
             list == BuildModeList(m)
  <2>1. m \in Accepted /\ slot.hdr \in BOOLEAN
    BY <1>2 DEF SlotShape
  <2>2. Resolved = [modes |-> list, hdr |-> slot.hdr]
    BY <1>2 DEF Resolved
  <2>3. list \in Seq(Modes) /\ Len(list) \in 11 .. 12 /\ list[1] = m /\ HasStandard(list)
    BY <2>1, ListIsAList
  <2> HIDE DEF list
  <2>4. Resolved \in Lists
    BY <2>1, <2>2, <2>3 DEF Lists
  <2>5. Count(Resolved) = Len(list) /\ Len(Resolved.modes) = Len(list)
    BY <2>2 DEF Count
  <2>6. Resolved # None
    BY <2>4, RequestsAssumption DEF Lists, Modes
  <2> QED BY <1>2, <2>2, <2>3, <2>4, <2>5, <2>6
<1> QED BY <1>1, <1>2

\* A resolved list claims HDR only where the adapter declared it.
LEMMA ResolvedIsDeclared ==
  ASSUME AdapterShape, SlotShape
  PROVE  ListShape(Resolved)
<1>1. CASE slot = None
  BY <1>1, ResolvedIsAList DEF ListShape
<1>2. CASE slot # None
  <2>1. slot.hdr => adapters = <<TRUE>>
    BY <1>2 DEF SlotShape, AdapterShape, AdapterTypeOK
  <2> QED BY <1>2, <2>1, ResolvedIsAList DEF ListShape
<1> QED BY <1>1, <1>2

-----------------------------------------------------------------------------
(* The adapter.                                                            *)

\* Before the first device there is no adapter.
LEMMA AdapterInitially == Init => AdapterShape
<1> SUFFICES ASSUME Init
             PROVE  AdapterShape
  OBVIOUS
<1>1. <<>> \in Seq(BOOLEAN)
  OBVIOUS
<1>2. adds \in 0 .. MaxAdds /\ sleeps \in 0 .. MaxSleeps
  <2>1. adds = 0 /\ sleeps = 0
    BY DEF Init, AdapterStart
  <2> QED BY <2>1, AdapterAssumption
<1>3. AdapterTypeOK
  BY <1>1, <1>2 DEF Init, AdapterStart, AdapterTypeOK
<1> QED BY <1>3 DEF Init, AdapterStart, AdapterShape

\* What InitAdapter and the OS do keeps the adapter's shape, and leaves the
\* adapter that is in use, and what it declared, alone.
LEMMA AdapterSteps ==
  ASSUME AdapterShape, AdapterNext
  PROVE  /\ AdapterShape'
         /\ adapters # <<>> => adapters' = adapters
         /\ context /\ state = "ready" => context' /\ state' = "ready" /\ hdrReady' = hdrReady
<1> USE AdapterAssumption DEF AdapterShape, AdapterTypeOK, deviceVars
<1>1. CASE DeviceAdd
  <2>1. adds' \in 0 .. MaxAdds /\ sleeps' \in 0 .. MaxSleeps
    BY <1>1 DEF DeviceAdd
  <2>2. init' = "off" /\ adapters' = <<>> /\ adapters = <<>> /\ state' = "starting" /\ context' /\ ~context
        /\ adapters' = adapters /\ flags' = FALSE /\ hdrReady' = FALSE /\ started' = FALSE /\ context' = TRUE
    BY <1>1 DEF DeviceAdd
  <2>3. AdapterTypeOK'
    BY <2>1, <2>2
  <2> QED BY <2>2, <2>3
<1>2. CASE D0Entry
  BY <1>2 DEF D0Entry
<1>3. CASE D0Exit
  BY <1>3 DEF D0Exit
<1>4. CASE \E enabled, disabled \in BOOLEAN : DeclareCaps(enabled, disabled)
  BY <1>4 DEF DeclareCaps
<1>5. CASE AttemptAccepted
  <2>1. adapters = <<>> /\ adapters' = <<flags>> /\ flags' = flags
    BY <1>5 DEF AttemptAccepted
  <2> QED BY <1>5, <2>1 DEF AttemptAccepted
<1>6. CASE AttemptRefused
  BY <1>6 DEF AttemptRefused
<1>7. CASE RecordAdapter
  <2>1. adapters' = adapters /\ adapters = <<flags>> /\ (flags => hdrReady) /\ flags' = flags
    BY <1>7 DEF RecordAdapter
  <2>2. hdrReady' = flags
    BY <1>7, <2>1 DEF RecordAdapter, Reported
  <2> QED BY <1>7, <2>1, <2>2 DEF RecordAdapter
<1>8. CASE RecordFailure
  BY <1>8 DEF RecordFailure
<1>9. CASE \E ok \in BOOLEAN : OnAdapterInitFinished(ok)
  BY <1>9 DEF OnAdapterInitFinished
<1> QED BY <1>1, <1>2, <1>3, <1>4, <1>5, <1>6, <1>7, <1>8, <1>9 DEF AdapterNext

\* A device takes its adapter with it.
LEMMA AdapterRemoved ==
  ASSUME AdapterShape, DeviceCleanup
  PROVE  AdapterShape'
<1>1. AdapterTypeOK'
  <2>1. <<>> \in Seq(BOOLEAN)
    OBVIOUS
  <2> QED BY <2>1 DEF AdapterShape, AdapterTypeOK, DeviceCleanup
<1> QED BY <1>1 DEF AdapterShape, DeviceCleanup

\* The shape is one of the adapter's variables.
LEMMA AdapterUnchanged ==
  ASSUME AdapterShape, UNCHANGED adapterVars
  PROVE  AdapterShape'
BY DEF AdapterShape, AdapterTypeOK, adapterVars, deviceVars, initVars

-----------------------------------------------------------------------------
(* The invariant.                                                          *)

\* Nothing is plugged, nothing asked.
LEMMA Initially == Init => IInv
<1> SUFFICES ASSUME Init
             PROVE  IInv
  OBVIOUS
<1>1. AdapterShape
  BY AdapterInitially
<1>2. /\ slot = None /\ edid = None /\ call = "parse count" /\ room = 0 /\ steady = FALSE
      /\ monitorModes = None /\ targetModes = None
  BY DEF Init
<1>3. SlotShape
  BY <1>2 DEF SlotShape
<1>4. QueryShape
  <2>1. ListShape(monitorModes) /\ ListShape(targetModes)
    BY <1>2, Zenon DEF ListShape
  <2>2. call \in Calls /\ steady \in BOOLEAN
    BY <1>2, Zenon DEF Calls
  <2>3. room \in 0 .. 12
    <3>1. room = 0
      BY <1>2
    <3> QED BY <3>1
  <2> QED BY <2>1, <2>2, <2>3 DEF QueryShape
<1>5. SteadyShape
  BY <1>2 DEF SteadyShape
<1> QED BY <1>1, <1>3, <1>4, <1>5 DEF IInv

\* A slot keeps its shape where neither it nor its adapter is touched.
LEMMA SlotKept ==
  ASSUME SlotShape, UNCHANGED slotVars,
         context /\ state = "ready" => context' /\ state' = "ready" /\ hdrReady' = hdrReady
  PROVE  SlotShape' /\ Resolved' = Resolved
BY DEF SlotShape, slotVars, Resolved

\* So do the lists the OS has got.
LEMMA ListKept ==
  ASSUME NEW list, ListShape(list), adapters # <<>> => adapters' = adapters
  PROVE  list # None => list \in Lists /\ Len(list.modes) <= 12 /\ (list.hdr => adapters' = <<TRUE>>)
<1>1. <<TRUE>> # <<>>
  OBVIOUS
<1> QED BY <1>1 DEF ListShape

\* Every step keeps the invariant.
LEMMA Steps ==
  ASSUME IInv, [Next]_vars
  PROVE  IInv'
<1> USE DEF IInv
<1>1. CASE AdapterNext /\ UNCHANGED <<slotVars, osVars, steady>>
  <2>1. /\ AdapterShape' /\ (adapters # <<>> => adapters' = adapters)
        /\ context /\ state = "ready" => context' /\ state' = "ready" /\ hdrReady' = hdrReady
    BY <1>1, AdapterSteps
  <2>2. SlotShape' /\ Resolved' = Resolved
    BY <1>1, <2>1, SlotKept
  <2>3. UNCHANGED <<call, room, monitorModes, targetModes, steady>>
    BY <1>1 DEF osVars
  <2>4. QueryShape'
    <3>1. ListShape(monitorModes)' /\ ListShape(targetModes)'
      BY <2>1, <2>3, ListKept DEF QueryShape, ListShape
    <3> QED BY <2>3, <3>1 DEF QueryShape
  <2>5. SteadyShape'
    BY <2>2, <2>3 DEF SteadyShape, Count
  <2> QED BY <2>1, <2>2, <2>4, <2>5
<1>2. CASE DeviceRemoved
  <2>1. AdapterShape'
    BY <1>2, AdapterRemoved DEF DeviceRemoved
  <2>2. /\ slot' = None /\ edid' = None /\ call' = "parse count" /\ room' = 0 /\ steady' = FALSE
        /\ monitorModes' = None /\ targetModes' = None
    BY <1>2 DEF DeviceRemoved
  <2>3. SlotShape'
    BY <2>2 DEF SlotShape
  <2>4. QueryShape'
    <3>1. ListShape(monitorModes)' /\ ListShape(targetModes)'
      BY <2>2, Zenon DEF ListShape
    <3>2. call' \in Calls /\ steady' \in BOOLEAN
      BY <2>2, Zenon DEF Calls, QueryShape
    <3>3. room' \in 0 .. 12
      <4>1. room' = 0
        BY <2>2
      <4> QED BY <4>1
    <3> QED BY <3>1, <3>2, <3>3 DEF QueryShape
  <2>5. SteadyShape'
    BY <2>2 DEF SteadyShape
  <2> QED BY <2>1, <2>3, <2>4, <2>5
<1>3. ASSUME NEW m \in Requests, NEW hdr \in BOOLEAN, Plug(m, hdr)
      PROVE  IInv'
  <2>1. UNCHANGED adapterVars /\ UNCHANGED <<call, room, monitorModes, targetModes>> /\ steady' = FALSE
    BY <1>3 DEF Plug, osVars
  <2>2. AdapterShape' /\ adapters' = adapters /\ context' = context /\ state' = state /\ hdrReady' = hdrReady
    BY <2>1, AdapterUnchanged DEF adapterVars, deviceVars, initVars
  <2>3. SlotShape'
    <3>1. slot' = [mode |-> m, hdr |-> hdr /\ hdrReady] /\ edid' = BuildEdid(m) /\ context /\ state = "ready"
      BY <1>3 DEF Plug, StripHdr
    <3>2. m \in Accepted
      BY <1>3 DEF Plug, Accepted
    <3>3. (hdr /\ hdrReady) \in BOOLEAN
      OBVIOUS
    <3>4. slot' \in [mode : Accepted, hdr : BOOLEAN] /\ slot'.mode = m /\ (slot'.hdr => hdrReady)
      BY <3>1, <3>2, <3>3
    <3>5. slot' # None
      BY <3>4, RequestsAssumption DEF Accepted
    <3> QED BY <2>2, <3>1, <3>4, <3>5 DEF SlotShape
  <2>4. QueryShape' /\ SteadyShape'
    BY <2>1, <2>2 DEF QueryShape, ListShape, SteadyShape
  <2> QED BY <2>2, <2>3, <2>4
<1>4. CASE Unplug
  <2>1. UNCHANGED adapterVars /\ UNCHANGED <<call, room, monitorModes, targetModes>> /\ steady' = FALSE
    BY <1>4 DEF Unplug, osVars
  <2>2. AdapterShape' /\ adapters' = adapters
    BY <2>1, AdapterUnchanged DEF adapterVars, initVars
  <2>3. SlotShape'
    BY <1>4 DEF Unplug, SlotShape
  <2>4. QueryShape' /\ SteadyShape'
    BY <2>1, <2>2 DEF QueryShape, ListShape, SteadyShape
  <2> QED BY <2>2, <2>3, <2>4
<1>5. ASSUME UNCHANGED <<adapterVars, slotVars>>
      PROVE  /\ AdapterShape' /\ adapters' = adapters
             /\ SlotShape' /\ Resolved' = Resolved
  <2>1. /\ AdapterShape' /\ adapters' = adapters
        /\ context' = context /\ state' = state /\ hdrReady' = hdrReady
    BY <1>5, AdapterUnchanged DEF adapterVars, deviceVars, initVars
  <2> QED BY <1>5, <2>1, SlotKept
<1>6. CASE StartQueries
  <2>1. AdapterShape' /\ SlotShape' /\ adapters' = adapters
    BY <1>5, <1>6 DEF StartQueries
  <2>2. /\ call' = "parse count" /\ room' = 0 /\ steady' = steady
        /\ monitorModes' = None /\ targetModes' = None
    BY <1>6 DEF StartQueries
  <2>3. QueryShape'
    <3>1. ListShape(monitorModes)' /\ ListShape(targetModes)'
      BY <2>2, Zenon DEF ListShape
    <3>2. call' \in Calls /\ steady' \in BOOLEAN
      BY <2>2, Zenon DEF Calls, QueryShape
    <3>3. room' \in 0 .. 12
      <4>1. room' = 0
        BY <2>2
      <4> QED BY <4>1
    <3> QED BY <3>1, <3>2, <3>3 DEF QueryShape
  <2>4. SteadyShape'
    BY <2>2 DEF SteadyShape
  <2> QED BY <2>1, <2>3, <2>4
<1>7. CASE CountCall
  <2>1. AdapterShape' /\ SlotShape' /\ adapters' = adapters /\ Resolved' = Resolved
    BY <1>5, <1>7 DEF CountCall
  <2>2. Count(Resolved) \in 0 .. 12
    BY ResolvedIsAList
  <2>3. room' = Count(Resolved) /\ UNCHANGED <<monitorModes, targetModes>>
    BY <1>7 DEF CountCall
  <2>4. \/ call = "parse count" /\ call' = "parse" /\ steady' = TRUE
        \/ call = "target count" /\ call' = "target" /\ steady' = steady
    BY <1>7 DEF CountCall
  <2>5. QueryShape'
    BY <2>1, <2>2, <2>3, <2>4 DEF QueryShape, ListShape, Calls
  <2>6. SteadyShape'
    BY <2>1, <2>3, <2>4 DEF SteadyShape, Count
  <2> QED BY <2>1, <2>5, <2>6
<1>8. CASE Parse
  <2>1. AdapterShape' /\ SlotShape' /\ adapters' = adapters /\ Resolved' = Resolved
    BY <1>5, <1>8 DEF Parse
  <2>2. UNCHANGED <<room, targetModes, steady>> /\ call = "parse"
    BY <1>8 DEF Parse
  <2>3. ListShape(Resolved) /\ Count(Resolved) \in 0 .. 12
    BY ResolvedIsAList, ResolvedIsDeclared
  <2>4. CASE room >= Count(Resolved)
    <3>1. call' = "target count" /\ monitorModes' = Resolved
      BY <1>8, <2>4 DEF Parse
    <3> QED BY <2>1, <2>2, <2>3, <3>1 DEF QueryShape, ListShape, SteadyShape, Calls
  <2>5. CASE ~(room >= Count(Resolved))
    <3>1. call' = "done" /\ monitorModes' = monitorModes
      BY <1>8, <2>5 DEF Parse
    <3>2. room # Count(Resolved)
      BY <2>3, <2>5 DEF QueryShape
    <3>3. ~steady
      BY <2>2, <3>2 DEF SteadyShape
    <3> QED BY <2>1, <2>2, <3>1, <3>3 DEF QueryShape, ListShape, SteadyShape, Calls
  <2> QED BY <2>4, <2>5
<1>9. CASE QueryModes
  <2>1. AdapterShape' /\ SlotShape' /\ adapters' = adapters /\ Resolved' = Resolved
    BY <1>5, <1>9 DEF QueryModes
  <2>2. UNCHANGED <<room, monitorModes, steady>> /\ call = "target" /\ call' = "done"
    BY <1>9 DEF QueryModes
  <2>3. ListShape(Resolved) /\ Count(Resolved) \in 0 .. 12
    BY ResolvedIsAList, ResolvedIsDeclared
  <2>4. targetModes' = IF room >= Count(Resolved) THEN Resolved ELSE targetModes
    BY <1>9 DEF QueryModes, TargetList
  <2>5. steady => targetModes' = Resolved
    <3>1. steady => room >= Count(Resolved)
      BY <2>2, <2>3 DEF SteadyShape
    <3> QED BY <2>4, <3>1
  <2>6. QueryShape'
    BY <2>1, <2>2, <2>3, <2>4 DEF QueryShape, ListShape, Calls
  <2>7. SteadyShape'
    BY <2>1, <2>2, <2>5 DEF SteadyShape
  <2> QED BY <2>1, <2>6, <2>7
<1>10. CASE UNCHANGED vars
  <2>1. UNCHANGED <<adapterVars, slotVars>> /\ UNCHANGED <<call, room, monitorModes, targetModes, steady>>
    BY <1>10 DEF vars, osVars
  <2>2. AdapterShape' /\ SlotShape' /\ adapters' = adapters /\ Resolved' = Resolved
    BY <1>5, <2>1
  <2> QED BY <2>1, <2>2 DEF QueryShape, ListShape, SteadyShape, Count
<1> QED BY <1>1, <1>2, <1>3, <1>4, <1>6, <1>7, <1>8, <1>9, <1>10 DEF Next

\* The invariant of the specification.
LEMMA Invariant == Spec => []IInv
<1>1. IInv /\ [Next]_vars => IInv'
  BY Steps
<1> QED BY Initially, <1>1, PTL DEF Spec

-----------------------------------------------------------------------------

\* Every variable keeps its type, for any modes a client may ask for: no list
\* is longer than the table with one mode more, and a slot has an EDID.
THEOREM TypeCorrect == Spec => []TypeOK
<1>1. IInv => TypeOK
  <2> SUFFICES ASSUME IInv
               PROVE  TypeOK
    OBVIOUS
  <2>1. Len(ModeTable) + 1 = 12
    BY TableIsSupported
  <2>2. /\ slot = None \/ (slot.mode \in Requests /\ IsSupportedMode(slot.mode)
                           /\ slot.hdr \in BOOLEAN /\ (slot.hdr => hdrReady))
        /\ (slot = None) = (edid = None)
    <3>1. CASE slot = None
      BY <3>1 DEF IInv, SlotShape
    <3>2. CASE slot # None
      <4>1. slot.mode \in Accepted /\ slot.hdr \in BOOLEAN /\ edid = BuildEdid(slot.mode) /\ (slot.hdr => hdrReady)
        BY <3>2 DEF IInv, SlotShape
      <4>2. edid # None
        BY <4>1, RequestsAssumption DEF Accepted
      <4> QED BY <3>2, <4>1, <4>2 DEF Accepted
    <3> QED BY <3>1, <3>2
  <2>3. \A list \in {monitorModes, targetModes} : list # None => Len(list.modes) <= 12
    <3>1. \A list \in {monitorModes, targetModes} : ListShape(list)
      BY Zenon DEF IInv, QueryShape
    <3> QED BY <3>1, Zenon DEF ListShape
  <2>4. AdapterTypeOK /\ call \in Calls /\ room \in 0 .. 12 /\ steady \in BOOLEAN
    BY DEF IInv, AdapterShape, QueryShape
  <2> HIDE DEF AdapterTypeOK
  <2> QED BY <2>1, <2>2, <2>3, <2>4 DEF TypeOK
<1> QED BY Invariant, <1>1, PTL

\* Whatever modes clients ask for, one that is accepted can be described: its
\* EDID encloses every reported mode in its range limits, has the requested
\* resolution in its preferred timing and a panel in the mode's shape.
THEOREM AcceptedModesAreDescribed == Spec => []AcceptedIsDescribed
<1>1. IInv => AcceptedIsDescribed
  <2> SUFFICES ASSUME IInv, slot # None
               PROVE  Described(slot.mode, edid)
    BY DEF AcceptedIsDescribed, Described
  <2>1. slot.mode \in Accepted /\ edid = BuildEdid(slot.mode)
    BY DEF IInv, SlotShape
  <2>2. slot.mode \in Supported
    BY <2>1, ListIsAList
  <2> QED BY <2>1, <2>2, SupportedIsDescribed
<1> QED BY Invariant, <1>1, PTL

\* The two lists the OS intersects have a mode in common, whatever was plugged or
\* unplugged while it asked; and are the same, with the plugged mode first, where
\* the plug stood still.
THEOREM OfferedListsAgree == Spec => []ListsIntersect
<1>1. IInv => ListsIntersect
  <2> SUFFICES ASSUME IInv
               PROVE  ListsIntersect
    OBVIOUS
  <2>1. ASSUME monitorModes # None, targetModes # None
        PROVE  \E i \in DOMAIN monitorModes.modes, j \in DOMAIN targetModes.modes :
                 monitorModes.modes[i] = targetModes.modes[j]
    <3>1. monitorModes \in Lists /\ targetModes \in Lists
      BY <2>1 DEF IInv, QueryShape, ListShape
    <3> QED BY <3>1 DEF Lists, HasStandard
  <2>2. ASSUME call = "done", steady
        PROVE  /\ monitorModes # None /\ targetModes = monitorModes
               /\ slot # None => targetModes.modes[1] = slot.mode /\ slot.hdr = targetModes.hdr
    <3>1. monitorModes = Resolved /\ targetModes = Resolved
      BY <2>2 DEF IInv, SteadyShape
    <3>2. Resolved # None /\ (slot # None => Resolved.modes[1] = slot.mode /\ Resolved.hdr = slot.hdr)
      BY ResolvedIsAList DEF IInv
    <3> QED BY <3>1, <3>2
  <2> QED BY <2>1, <2>2 DEF ListsIntersect
<1> QED BY Invariant, <1>1, PTL

\* HDR is claimed, by a monitor or by a list, only on the one adapter that was
\* created with FP16, over any number of devices and power transitions.
THEOREM HdrWasDeclared == Spec => []HdrIsDeclared
<1>1. IInv => HdrIsDeclared
  <2> SUFFICES ASSUME IInv
               PROVE  HdrIsDeclared
    OBVIOUS
  <2>1. adapters = <<>> \/ adapters = <<flags>> \/ adapters = <<hdrReady>>
    BY DEF IInv, AdapterShape, AdapterTypeOK
  <2>2. Len(adapters) <= 1
    <3>1. Len(adapters) \in {0, 1}
      BY <2>1
    <3>2. \A n \in {0, 1} : n <= 1
      OBVIOUS
    <3> QED BY <3>1, <3>2, Zenon
  <2>3. context /\ state = "ready" /\ hdrReady => adapters = <<TRUE>>
    BY DEF IInv, AdapterShape, AdapterTypeOK
  <2>4. slot # None /\ slot.hdr => adapters = <<TRUE>>
    BY <2>3 DEF IInv, SlotShape
  <2>5. \A list \in {monitorModes, targetModes} : list # None /\ list.hdr => adapters = <<TRUE>>
    <3>1. \A list \in {monitorModes, targetModes} : ListShape(list)
      BY Zenon DEF IInv, QueryShape
    <3> QED BY <3>1, Zenon DEF ListShape
  <2> QED BY <2>2, <2>3, <2>4, <2>5 DEF HdrIsDeclared
<1> QED BY Invariant, <1>1, PTL
=============================================================================
