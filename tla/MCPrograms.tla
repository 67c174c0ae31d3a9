----------------------------- MODULE MCPrograms -----------------------------
(***************************************************************************)
(* The sequential programs and library functions on every small input.     *)
(* `program` says which of them a behaviour is about; its input grows by   *)
(* one element a step, and starts again when it is as long as it may be.   *)
(***************************************************************************)
EXTENDS Integers, Sequences, SequencesExt, FiniteSets

CONSTANTS
  MAXARGS, Width, BSIZE, NDIRECT, NINDIRECT, NMeta, DirSize, SECTSIZE, Limit,
  MemLines, Sets, Ways, NUMSLOTS, MatchWidth

VARIABLES program, input

Shell == INSTANCE Shell
Library == INSTANCE Library
Keyboard == INSTANCE Keyboard
Images == INSTANCE Images
Caches == INSTANCE Caches
Exercises == INSTANCE Exercises WITH Width <- MatchWidth

-----------------------------------------------------------------------------
\* What the inputs are made of, and how long they get.
Alphabet ==
  [shell |-> {"x", "yz", ">", ">>", "<", "|", ";", "&", "(", ")"},
   printf |-> {"%", "d", "s", "x", "c", "q"},
   memmove |-> {0},
   names |-> {"a", "b"},
   grep |-> {"^", "a", ".", "*", "$", "b"},
   lines |-> {"a", "b", "\n"},
   kbd |-> Keyboard!Keys,
   mkfs |-> {0, 1, 4, 5, 9, 12},
   segments |-> {[paddr |-> p, filesz |-> f, memsz |-> f + z, off |-> o] :
                  p \in {0, 3, 6}, f \in 0..3, z \in 0..2, o \in {0, 2}},
   caches |-> Caches!Access,
   knapsack |-> [w : 1..3, c : 1..4],
   cards |-> [w : 1..2, m : 0..3],
   heap |-> Exercises!HeapOps,
   bench |-> 0..3,
   match |-> Exercises!Moves \X Exercises!Moves]

Longest ==
  [shell |-> 4, printf |-> 4, memmove |-> 5, names |-> 5, grep |-> 4, lines |-> 5, kbd |-> 4, mkfs |-> 3,
   segments |-> 2, caches |-> 4, knapsack |-> 3, cards |-> 3, heap |-> 5, bench |-> 6, match |-> 3]

ProgramInit == program \in DOMAIN Alphabet /\ input = <<>>
ProgramStep ==
  /\ \/ Len(input) < Longest[program] /\ \E c \in Alphabet[program] : input' = Append(input, c)
     \/ Len(input) = Longest[program] /\ input' = <<>>
  /\ UNCHANGED program

\* Tokens as characters, with spaces where two words or arrows would join,
\* or everywhere.
Chars(t) == CASE t = "yz" -> <<"y", "z">> [] t = ">>" -> <<">", ">">> [] OTHER -> <<t>>
Join(a, b) == (Shell!IsWord(a) /\ Shell!IsWord(b)) \/ (a = ">" /\ b \in {">", ">>"})
Spelled(toks, spaced) ==
  FlattenSeq([i \in DOMAIN toks |->
    Chars(toks[i]) \o (IF spaced \/ (i < Len(toks) /\ Join(toks[i], toks[i + 1])) THEN <<" ">> ELSE <<>>)])

Texts == UNION {[1..n -> {"a", "b"}] : n \in 0..3}

\* Every program does on its input what it is there for: the shell's parser
\* finds the grammar's reading of a line, the formatters print what they
\* are given, copies are right where they overlap, names that were stored
\* are found, grep matches what its patterns mean and prints the lines that
\* match, keys type what they say, mkfs makes a sound image and bootmain
\* loads all of a kernel, the simulators count what LRU defines, and the
\* exercises compute what they are to compute.
ProgramIsRight ==
  CASE program = "shell" -> \A spaced \in BOOLEAN : Shell!ParsesTheGrammar(Spelled(input, spaced), input)
    [] program = "printf" ->
         /\ Library!FormatsInOrder(input, <<3, -8, 0, 5>>)
         /\ input = <<>> => \A n \in -8..7, base \in {2, 10, 16} : Library!PrintsItsNumber(n, base)
    [] program = "memmove" -> Library!MovesMemory([i \in DOMAIN input |-> i])
    [] program = "names" -> \A i \in 0..Len(input) : Library!NamesAreFound(SubSeq(input, 1, i), SubSeq(input, i + 1, Len(input)))
    [] program = "grep" -> \A text \in Texts : Library!match(input, text) <=> Library!Matches(input, text)
    [] program = "lines" -> Library!FindsTheLines(<<"a">>, input, 4) /\ Library!FindsTheLines(<<"^", "b", "$">>, input, 4)
    [] program = "kbd" -> Keyboard!TypesWhatIsMeant(input)
    [] program = "mkfs" -> Images!ImageIsSound(input)
    [] program = "segments" -> Images!KernelIsLoaded(input)
    [] program = "caches" -> Caches!CountsAreLru(input)
    [] program = "knapsack" -> \A w \in 0..5 : Exercises!KnapsacksAreRight(input, w)
    [] program = "cards" -> \A money \in 0..5 : Exercises!CardsAreBestBuys(input, money)
    [] program = "heap" -> Exercises!HandlesAreRight(input)
    [] program = "bench" -> Exercises!BenchIsRight(input)
    [] program = "match" -> Exercises!MatchIsFair(input)
=============================================================================
