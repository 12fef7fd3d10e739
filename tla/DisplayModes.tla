---------------------------- MODULE DisplayModes ----------------------------
(***************************************************************************)
(* What the driver can tell the OS about a mode: which modes a plug may    *)
(* ask for, the mode list of a monitor, and the fields of its EDID base    *)
(* block with the widths they have there.  Texts, chromaticity and the     *)
(* checksum are left out.                                                  *)
(*                                                                         *)
(* A pixel clock does not fit 32 bits, so it is a pair of kHz and the rest *)
(* in Hz.                                                                  *)
(***************************************************************************)
EXTENDS Integers, Sequences, FiniteSetsExt

NyanMode(w, h, hz) == [Width |-> w, Height |-> h, RefreshHz |-> hz]

ModeTable == <<
  NyanMode(1920, 1080, 60), NyanMode(1920, 1080, 72),
  NyanMode(1920, 1080, 90), NyanMode(1920, 1080, 120),
  NyanMode(2560, 1440, 60), NyanMode(2560, 1440, 90), NyanMode(2560, 1440, 120),
  NyanMode(3840, 2160, 60), NyanMode(3840, 2160, 90), NyanMode(3840, 2160, 120),
  NyanMode(1280, 720, 60) >>

HBlank == 160
VBlank == 35
MaxActivePixels == 4095
MaxLineRateHz == 510000
MaxPixelClockKHz == 2550000
MaxPanelHeightMm == 380

HorizontalHz(m) == (m.Height + VBlank) * m.RefreshHz

PixelClock(m) ==
  LET pixels == (m.Width + HBlank) * (m.Height + VBlank)
      rest == (pixels % 1000) * m.RefreshHz
  IN [kHz |-> (pixels \div 1000) * m.RefreshHz + rest \div 1000, Hz |-> rest % 1000]

ClockAtMost(m, kHz) ==
  LET c == PixelClock(m) IN c.kHz < kHz \/ (c.kHz = kHz /\ c.Hz = 0)

\* Mutant: the line rate is not limited.
LineRateFits_Always(m) == TRUE

LineRateFits(m) == HorizontalHz(m) <= MaxLineRateHz

\* The products are formed only of dimensions that are in range.
IsSupportedMode(m) ==
  /\ m.Width \in 640 .. MaxActivePixels
  /\ m.Height \in 480 .. MaxActivePixels
  /\ m.RefreshHz \in 24 .. 240
  /\ LineRateFits(m)
  /\ ClockAtMost(m, MaxPixelClockKHz)

\* Mutant: a plugged monitor offers its own mode and nothing else.
BuildModeList_Only(preferred) == <<preferred>>

\* The plugged mode first, then the table without it; no mode is in it twice.
BuildModeList(preferred) ==
  LET place == {i \in DOMAIN ModeTable : ModeTable[i] = preferred}
      i == CHOOSE i \in place : TRUE
  IN <<preferred>> \o
     IF place = {} THEN ModeTable
     ELSE SubSeq(ModeTable, 1, i - 1) \o SubSeq(ModeTable, i + 1, Len(ModeTable))

-----------------------------------------------------------------------------
(* The EDID base block.                                                     *)

DtdEncodable(m) ==
  /\ m.Width <= MaxActivePixels /\ m.Height <= MaxActivePixels
  /\ ClockAtMost(m, 655350)

StepDown == {120, 100, 90, 75, 72, 60, 50, 30, 24}

\* The requested mode if its clock fits, else the highest refresh rate below
\* it that does.
DtdModeFor(m) ==
  LET slower == {[m EXCEPT !.RefreshHz = hz] : hz \in {h \in StepDown : h < m.RefreshHz}}
      fitting == {c \in slower : DtdEncodable(c)}
  IN IF DtdEncodable(m) THEN m
     ELSE IF fitting = {} THEN NyanMode(1920, 1080, 60)
     ELSE CHOOSE c \in fitting : \A d \in fitting : d.RefreshHz <= c.RefreshHz

\* 96 DPI, shrunk to the height of a desktop panel.
PhysicalSizeMm(m) ==
  LET w == (m.Width * 254 + 480) \div 960
      h == (m.Height * 254 + 480) \div 960
  IN IF h > MaxPanelHeightMm
     THEN [w |-> (w * MaxPanelHeightMm + h \div 2) \div h, h |-> MaxPanelHeightMm]
     ELSE [w |-> w, h |-> h]

Rates(modes) == {modes[i].RefreshHz : i \in DOMAIN modes}
Lines(modes) == {HorizontalHz(modes[i]) : i \in DOMAIN modes}
Clocks(modes) == {PixelClock(modes[i]) : i \in DOMAIN modes}

\* Vertical in Hz, horizontal in kHz and the clock in 10 MHz, rounded outwards.
ComputeRangeLimits(modes) == [
  MinV |-> Min(Rates(modes)), MaxV |-> Max(Rates(modes)),
  MinH |-> Min({l \div 1000 : l \in Lines(modes)}),
  MaxH |-> Max({(l + 999) \div 1000 : l \in Lines(modes)}),
  MaxClk |-> Max({(c.kHz + (IF c.Hz > 0 THEN 1 ELSE 0) + 9999) \div 10000 : c \in Clocks(modes)})]

Clamp8(n) == IF n > 255 THEN 255 ELSE n

\* Which of minimum and maximum has 255 added, and the bytes that are written.
Offset(min, max) == IF max <= 255 THEN {} ELSE IF min > 255 THEN {"min", "max"} ELSE {"max"}

WriteLimits(min, max) ==
  LET off == Offset(min, max)
  IN [off |-> off,
      min |-> Clamp8(IF "min" \in off THEN min - 255 ELSE min),
      max |-> Clamp8(IF "max" \in off THEN max - 255 ELSE max)]

WriteRangeLimits(r) == [
  V |-> WriteLimits(r.MinV, r.MaxV), H |-> WriteLimits(r.MinH, r.MaxH),
  clk |-> Clamp8(r.MaxClk)]

\* The clock in 16 bits of 10 kHz, pixels and millimetres in 12 bits each.
WriteDtd(m, size) == [
  clk |-> (PixelClock(m).kHz \div 10) % 65536,
  w |-> m.Width % 4096, h |-> m.Height % 4096,
  mmW |-> size.w % 4096, mmH |-> size.h % 4096]

BuildEdid(preferred) ==
  LET size == PhysicalSizeMm(preferred)
  IN [cmW |-> Clamp8((size.w + 5) \div 10), cmH |-> Clamp8((size.h + 5) \div 10),
      dtd |-> WriteDtd(DtdModeFor(preferred), size),
      range |-> WriteRangeLimits(ComputeRangeLimits(BuildModeList(preferred)))]

-----------------------------------------------------------------------------
(* How a reader of EDID 1.4 understands the fields.                         *)

Bounds(l) == [
  min |-> IF "min" \in l.off THEN l.min + 255 ELSE l.min,
  max |-> IF "max" \in l.off THEN l.max + 255 ELSE l.max]

\* A timing of the given refresh and line rates and clock is within range.
InRange(e, hz, lineHz, kHz) ==
  LET V == Bounds(e.range.V)
      H == Bounds(e.range.H)
  IN /\ hz \in V.min .. V.max
     /\ lineHz \in H.min * 1000 .. H.max * 1000
     /\ kHz <= e.range.clk * 10000

ModeInRange(e, m) ==
  LET c == PixelClock(m)
  IN InRange(e, m.RefreshHz, HorizontalHz(m), IF c.Hz > 0 THEN c.kHz + 1 ELSE c.kHz)

\* The preferred timing, as its descriptor gives it.
DtdPixels(e) == (e.dtd.w + HBlank) * (e.dtd.h + VBlank)
DtdHz(e) == (e.dtd.clk * 10000 + DtdPixels(e) \div 2) \div DtdPixels(e)
DtdInRange(e) ==
  InRange(e, DtdHz(e), (e.dtd.h + VBlank) * DtdHz(e), e.dtd.clk * 10)
=============================================================================
