--------------------------- MODULE MCModeQueries ---------------------------
\* Model-checking instance: modes of the table, modes at each limit and one
\* beyond it, and modes whose clock does not fit a detailed timing.
EXTENDS ModeQueries

MCRequests == {
  NyanMode(1920, 1080, 60), NyanMode(3840, 2160, 120),
  NyanMode(640, 480, 24), NyanMode(639, 480, 24), NyanMode(640, 479, 24),
  NyanMode(640, 480, 23), NyanMode(640, 480, 240), NyanMode(640, 480, 241),
  NyanMode(640, 2090, 240), NyanMode(640, 2091, 240), NyanMode(640, 4095, 240),
  NyanMode(4095, 4095, 24), NyanMode(4095, 4095, 123), NyanMode(4095, 4095, 124),
  NyanMode(4096, 2160, 60), NyanMode(4095, 480, 240), NyanMode(640, 4095, 60),
  NyanMode(3840, 2880, 60), NyanMode(3840, 2400, 144),
  NyanMode(2147483647, 2147483647, 60), NyanMode(1920, 1080, 2147483647) }
=============================================================================
