----------------------------- MODULE Keyboard -----------------------------
(***************************************************************************)
(* kbdgetc: scan codes to characters.  A key stands for its make code, and *)
(* its break code is the make code with the bit 0x80; the keys of the      *)
(* extended set send the byte E0 first.                                    *)
(***************************************************************************)
EXTENDS Integers, Sequences, SequencesExt, FiniteSets, TLC

E0 == 224
Break == 128
LCtl == 29
LShift == 42
RShift == 54
LAlt == 56
Caps == 58
A == 30
Enter == 28
Up == 72
\* Of the extended set, and distinguished here by a number above a byte's.
RCtl == 256 + LCtl
KeyUp == 256 + Up
Slash == 256 + 53

shiftcode == (LCtl :> "CTL") @@ (LShift :> "SHIFT") @@ (RShift :> "SHIFT") @@ (LAlt :> "ALT")
             @@ ((LCtl + Break) :> "CTL") @@ ((LAlt + Break) :> "ALT")
togglecode == (Caps :> "CAPSLOCK")

\* The columns of the tables that the keys above use.
normalmap == (A :> "a") @@ (Enter :> "\n") @@ ((Up + Break) :> "KEY_UP") @@ ((53 + Break) :> "/") @@ (Up :> "8")
shiftmap == [normalmap EXCEPT ![A] = "A"]
ctlmap == [normalmap EXCEPT ![A] = "^A", ![Enter] = "\r", ![53 + Break] = "^/", ![Up] = "NO"]

Looked(map, data) == IF data \in DOMAIN map THEN map[data] ELSE "NO"
\* The bits that a table has for a code.
Bits(table, data) == IF data \in DOMAIN table THEN {table[data]} ELSE {}

charcode(shift, data) ==
  CASE "CTL" \in shift -> Looked(ctlmap, data)
    [] "SHIFT" \in shift /\ "CTL" \notin shift -> Looked(shiftmap, data)
    [] OTHER -> Looked(normalmap, data)

Swapped(c) == CASE c = "a" -> "A" [] c = "A" -> "a" [] OTHER -> c

\* One byte: st holds the bits of `shift` and the characters given so far.
kbdgetc(st, data) ==
  LET esc == "E0ESC" \in st.shift
      code == IF esc /\ data < Break THEN data + Break ELSE data
      down == (st.shift \ {"E0ESC"}) \cup Bits(shiftcode, code)
      toggle == Bits(togglecode, code)
      shift == (down \ toggle) \cup (toggle \ down)
      c == charcode(shift, code)
      released == IF esc THEN data ELSE data - Break
  IN  CASE data = E0 -> [st EXCEPT !.shift = @ \cup {"E0ESC"}]
        [] data # E0 /\ data >= Break ->
             [st EXCEPT !.shift = @ \ (Bits(shiftcode, released) \cup {"E0ESC"})]
        [] data < Break ->
             [shift |-> shift,
              out |-> IF c = "NO" THEN st.out ELSE Append(st.out, IF "CAPSLOCK" \in shift THEN Swapped(c) ELSE c)]

-----------------------------------------------------------------------------
Keys == {LCtl, RCtl, LShift, RShift, Caps, A, KeyUp, Slash}

\* The keyboard: each event presses a key, or lets it go if it was down.
Held(events, i) == {k \in Keys : Cardinality({j \in 1..i : events[j] = k}) % 2 = 1}
Bytes(key, make) ==
  (IF key > 255 THEN <<E0>> ELSE <<>>) \o <<(key % 256) + (IF make THEN 0 ELSE Break)>>
ScanCodes(events) ==
  FlattenSeq([i \in DOMAIN events |-> Bytes(events[i], events[i] \in Held(events, i))])

Typed(events) == FoldLeft(kbdgetc, [shift |-> {}, out |-> <<>>], ScanCodes(events)).out

\* What the i-th event means, by the keys that are down.
Meaning(events, i) ==
  LET down == Held(events, i)
      ctl == down \cap {LCtl, RCtl} # {}
      upper == (down \cap {LShift, RShift} # {}) # (Cardinality({j \in 1..i : events[j] = Caps}) % 4 \in {1, 2})
  IN  CASE events[i] \notin down \cap {A, KeyUp, Slash} -> <<>>
        [] events[i] = KeyUp /\ KeyUp \in down -> <<"KEY_UP">>
        [] events[i] = Slash /\ Slash \in down -> <<IF ctl THEN "^/" ELSE "/">>
        [] OTHER -> <<IF ctl THEN "^A" ELSE IF upper THEN "A" ELSE "a">>

\* Shift and control do what the keys that are held say, whatever codes
\* come between, so long as no two shift keys and no two control keys are
\* down at once: the bit is cleared with the first that is let go.
TypesWhatIsMeant(events) ==
  (\A i \in DOMAIN events : ~({LShift, RShift} \subseteq Held(events, i)) /\ ~({LCtl, RCtl} \subseteq Held(events, i)))
    => Typed(events) = FlattenSeq([i \in DOMAIN events |-> Meaning(events, i)])
=============================================================================
