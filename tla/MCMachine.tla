------------------------------ MODULE MCMachine ------------------------------
(***************************************************************************)
(* The parts of the system that share no state, checked in one run: those  *)
(* of the kernel (Machine), the heap of a process, the programs flip and   *)
(* tournament, and the sequential programs of MCPrograms.  `part` says     *)
(* which of them a behaviour is about; the others stand still.             *)
(***************************************************************************)
EXTENDS MCPrograms, Machine

CONSTANTS MemEnd, MinCore, Requests, MaxLen, Players

VARIABLES
  brk, hdr, freep, live, own,
  opt, old, file, temp, rest, state, got_sig, fpc,
  wp, nwp, lp, nlp, losses, tied, tpc

heap == <<brk, hdr, freep, live, own>>
flip == <<opt, old, file, temp, rest, state, got_sig, fpc>>
tournament == <<wp, nwp, lp, nlp, losses, tied, tpc>>
programs == <<program, input>>
vars == <<kernel, heap, flip, tournament, programs>>

Umalloc == INSTANCE Umalloc
Flip == INSTANCE Flip WITH pc <- fpc
Tournament == INSTANCE Tournament WITH pc <- tpc

NoHeap == brk = Off /\ hdr = Off /\ freep = Off /\ live = Off /\ own = Off
NoFlip ==
  /\ opt = Off /\ old = Off /\ file = Off /\ temp = Off
  /\ rest = Off /\ state = Off /\ got_sig = Off /\ fpc = Off
NoTournament == wp = Off /\ nwp = Off /\ lp = Off /\ nlp = Off /\ losses = Off /\ tied = Off /\ tpc = Off
NoProgram == program = Off /\ input = Off

MCAmounts == {1, 2, -1, -3}

Init ==
  \/ KernelInit /\ NoHeap /\ NoFlip /\ NoTournament /\ NoProgram
  \/ part = "heap" /\ Umalloc!Init /\ NoKernel /\ NoFlip /\ NoTournament /\ NoProgram
  \/ part = "flip" /\ Flip!Init /\ NoKernel /\ NoHeap /\ NoTournament /\ NoProgram
  \/ part = "tournament" /\ Tournament!Init /\ NoKernel /\ NoHeap /\ NoFlip /\ NoProgram
  \/ part = "program" /\ ProgramInit /\ NoKernel /\ NoHeap /\ NoFlip /\ NoTournament

Next ==
  \/ KernelNext /\ UNCHANGED <<heap, flip, tournament, programs>>
  \/ part = "heap" /\ Umalloc!Next /\ UNCHANGED <<kernel, flip, tournament, programs>>
  \/ part = "flip" /\ Flip!Next /\ UNCHANGED <<kernel, heap, tournament, programs>>
  \/ part = "tournament" /\ Tournament!Next /\ UNCHANGED <<kernel, heap, flip, programs>>
  \/ part = "program" /\ ProgramStep /\ UNCHANGED <<kernel, heap, flip, tournament>>

Spec == Init /\ [][Next]_vars

\* Every unit of a heap is in one block, and malloc finds what there is (umalloc.c).
HeapIsWhole == part = "heap" => Umalloc!HeapIsWhole

\* flip leaves the old file or the whole conversion, however it ends.
FileIsOldOrNew == part = "flip" => Flip!FileIsOldOrNew

\* The sequential programs compute what they are there for, and the
\* brackets of the tournament hold those they should.
ProgramsAreRight ==
  /\ part = "program" => ProgramIsRight
  /\ part = "tournament" => Tournament!BracketsFollowLosses
=============================================================================
