\* Three bytes go into a ring of two, so that every call stops half-way; the
\* counters overflow after four.
SPECIFICATION FairSpec
CONSTANTS
  Writers = {w1}
  Readers = {r1, r2}
  Bytes = {a, b}
  PipeSize = 2
  Wrap = 4
  Sizes = {3}
  Killable = {r1}
  NoProc = NoProc
INVARIANTS PipeIsSafe
PROPERTIES ImplementsFifo CloseReleases 
\* All ends closed: nothing happens any more.
CHECK_DEADLOCK FALSE
