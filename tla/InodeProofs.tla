---------------------------- MODULE InodeProofs ----------------------------
(***************************************************************************)
(* The cache of i-nodes, for any numbers of processes, i-nodes, entries    *)
(* and names and any system calls: reference counts are exact, an i-node   *)
(* has one coherent entry, and what is open is not freed. Link counts      *)
(* bound the names, but for a ".." that outlives the parent.               *)
(*                                                                         *)
(* Each step of a process does what Did says (one lemma for each action),  *)
(* and what Did says keeps the invariant InodeInv (StepKeeps). For the     *)
(* links, each step keeps LinkInv: the directories are a tree, an i-node   *)
(* that is freed or not yet named is private, and the names are counted.   *)
(***************************************************************************)
EXTENDS Inode, Integers, WellFoundedInduction, FiniteSetTheorems, SequenceTheorems, TLAPS

\* What an entry of the cache and the disk may hold.
DinodeT == [type : {"free", "file", "dir"}, nlink : Int]
EntryT == [ref : Nat, inum : Inums, copy : DinodeT \cup {Invalid}]
DirentT == [Inums -> [Entry -> 0..NInodes]]

\* An i-node has one entry at most, and a valid copy is that of a typed i-node.
Good(ic, dn) ==
  /\ dn \in [Inums -> DinodeT] /\ ic \in [Slots -> EntryT]
  /\ \A s, t \in Slots : ic[s].ref > 0 /\ ic[t].ref > 0 /\ ic[s].inum = ic[t].inum => s = t
  /\ \A s \in Slots : ic[s].ref > 0 /\ ic[s].copy # Invalid =>
       ic[s].copy = dn[ic[s].inum] /\ dn[ic[s].inum].type # "free"

InodeTypes ==
  /\ dirent \in DirentT /\ lock \in [Slots -> Procs \cup {NoProc}]
  /\ pc \in [Procs -> PC] /\ then \in [Procs -> PC] /\ call = [q \in Procs |-> call[q]]
  /\ rest \in [Procs -> Seq(Entry)]
  /\ cur \in Pointer /\ ip \in Pointer /\ put \in Pointer /\ file \in Pointer
  /\ cwd \in [Procs -> Slots]

\* The pointers that a process has at each place.
Putting == {"put", "free", "drop"}
WithDir == {"walk", "open", "chdir", "create", "mkdir", "new", "unlink", "victim", "unlockdp", "link", "linkdp"}
WithInode == {"existing", "new", "created", "victim", "unlinked", "linkdp", "linked", "bad"}
WithName == {"walk", "create", "mkdir", "new", "unlink", "victim", "linkdp"}
Doing(w, op) ==
  /\ w \in {"open", "chdir", "create", "mkdir", "unlink", "link"} => op = w
  /\ w \in {"linkdp", "linked", "bad"} => op = "link"
  /\ w \in {"existing", "new", "created"} => op \in {"create", "mkdir"}
  /\ w \in {"victim", "unlinked"} => op = "unlink"
  /\ w = "unlockdp" => op \in {"unlink", "link"}
Stage(p) ==
  LET w == Where(p) IN
  /\ put[p] # None <=> pc[p] \in Putting
  /\ w \notin Putting
  /\ w # "user" => call[p] \in Calls[p] /\ Doing(w, call[p].op)
  /\ cur[p] # None <=> w \in WithDir
  /\ w \in WithInode => ip[p] # None
  /\ ip[p] # None => w \in WithInode \/ (w \in {"walk", "unlockdp"} /\ call[p].op = "link")
  /\ w \in WithName => rest[p] # <<>>

\* The locks that it keeps from one step to the next: of dp, of ip, of what
\* iput frees.
HasDir(p) == Where(p) \in {"new", "victim", "unlockdp"}
HasInode(p) == Where(p) \in {"created", "unlinked"}
Has(p, s) == lock[s] = p /\ icache[s].copy # Invalid
Holds(p) ==
  /\ HasDir(p) => Has(p, cur[p])
  /\ HasInode(p) => Has(p, ip[p])
  /\ pc[p] = "free" =>
       Has(p, put[p]) /\ ~(HasDir(p) /\ put[p] = cur[p]) /\ ~(HasInode(p) /\ put[p] = ip[p])

RefsCounted == \A s \in Slots : icache[s].ref = Cardinality(Pointers(s))
InodeInv ==
  /\ Good(icache, dinode) /\ InodeTypes
  /\ \A p \in Procs : Stage(p) /\ Holds(p)
  /\ RefsCounted

-----------------------------------------------------------------------------
(* The cache *)

LEMMA SlotsAre ==
  /\ None \notin Slots /\ None = 0 /\ Slots \subseteq Nat /\ Inums \subseteq Nat /\ None \notin Inums
  /\ Root \in Inums /\ 1 \in Slots
  BY SizeAssumption DEF Slots, Inums, None, Root

LEMMA LeastIs ==
  ASSUME NEW S, S \subseteq Nat, S # {}
  PROVE  \E k \in S : \A m \in S : k <= m
<1>1. PICK k \in S : \A m \in S : <<m, k>> \notin OpToRel(<, Nat)
  BY WFMin, NatLessThanWellFounded, Zenon
<1>2. \A m \in S : k <= m
  <2> SUFFICES ASSUME NEW m \in S PROVE k <= m
    OBVIOUS
  <2>1. ~(m < k)
    BY <1>1 DEF OpToRel
  <2>2. m \in Nat /\ k \in Nat
    BY <1>1
  <2>q. QED
    BY <2>1, <2>2
<1>q. QED
  BY <1>1, <1>2

\* ialloc takes a free i-node.
LEMMA FreeInumIs ==
  ASSUME FreeInums # {}
  PROVE  (CHOOSE i \in FreeInums : \A j \in FreeInums : i <= j) \in FreeInums
<1>1. FreeInums \subseteq Nat
  BY SlotsAre DEF FreeInums
<1>q. QED
  BY <1>1, LeastIs

\* The entry that iget finds, or takes.
Room(ic, i) == Entries(ic, i) # {} \/ Unused(ic) # {}
LEMMA SlotIs ==
  ASSUME NEW ic \in [Slots -> EntryT], NEW i, Room(ic, i)
  PROVE  /\ SlotOf(ic, i) \in Slots
         /\ ic[SlotOf(ic, i)].ref > 0 => ic[SlotOf(ic, i)].inum = i
         /\ ic[SlotOf(ic, i)].ref = 0 => \A s \in Slots : ic[s].ref > 0 => ic[s].inum # i
<1>1. CASE Entries(ic, i) # {}
  <2>1. SlotOf(ic, i) \in Entries(ic, i)
    BY <1>1 DEF SlotOf
  <2>q. QED
    BY <2>1 DEF Entries
<1>2. CASE Entries(ic, i) = {}
  <2>1. Unused(ic) # {} /\ Unused(ic) \subseteq Nat
    BY <1>2, SlotsAre DEF Room, Unused
  <2>2. SlotOf(ic, i) = CHOOSE s \in Unused(ic) : \A t \in Unused(ic) : s <= t
    BY <1>2 DEF SlotOf
  <2>3. SlotOf(ic, i) \in Unused(ic)
    BY <2>1, <2>2, LeastIs
  <2>4. \A s \in Slots : ic[s].ref > 0 => ic[s].inum # i
    BY <1>2 DEF Entries
  <2>q. QED
    BY <2>3, <2>4 DEF Unused
<1>q. QED
  BY <1>1, <1>2

\* What a change to the cache leaves of the entries in use.
Keeps(ic, jc) ==
  \A s \in Slots : ic[s].ref > 0 =>
    jc[s].inum = ic[s].inum /\ (ic[s].copy # Invalid => jc[s].copy # Invalid)
SameRefs(ic, jc) == \A s \in Slots : jc[s].ref = ic[s].ref

\* iget counts one reference more.
Gets(ic, jc, i, s) ==
  /\ s \in Slots /\ jc[s].inum = i /\ jc[s].ref = ic[s].ref + 1 /\ ic[s].ref \in Nat
  /\ ic[s].ref > 0 => jc[s].copy = ic[s].copy
  /\ ic[s].ref = 0 => jc[s].copy = Invalid
  /\ \A t \in Slots : t # s => jc[t] = ic[t]
LEMMA IgetIs ==
  ASSUME NEW ic, NEW dn, Good(ic, dn), NEW i \in Inums, Room(ic, i)
  PROVE  /\ Good(Iget(ic, i), dn) /\ Keeps(ic, Iget(ic, i))
         /\ Gets(ic, Iget(ic, i), i, SlotOf(ic, i))
<1> DEFINE s == SlotOf(ic, i)
           jc == Iget(ic, i)
<1>1. ic \in [Slots -> EntryT]
  BY DEF Good
<1>2. /\ s \in Slots /\ (ic[s].ref > 0 => ic[s].inum = i)
      /\ ic[s].ref = 0 => \A t \in Slots : ic[t].ref > 0 => ic[t].inum # i
  BY <1>1, SlotIs
<1>3. ic[s] \in EntryT /\ ic[s].ref \in Nat /\ ic[s].inum \in Inums /\ ic[s].copy \in DinodeT \cup {Invalid}
  BY <1>1, <1>2 DEF EntryT
<1>4. jc = [ic EXCEPT ![s] = IF ic[s].ref > 0 THEN [ic[s] EXCEPT !.ref = ic[s].ref + 1]
                             ELSE [ref |-> 1, inum |-> i, copy |-> Invalid]]
  <2> HIDE DEF s
  <2>1. jc = IF ic[s].ref > 0 THEN [ic EXCEPT ![s].ref = ic[s].ref + 1]
             ELSE [ic EXCEPT ![s] = [ref |-> 1, inum |-> i, copy |-> Invalid]]
    BY DEF Iget, s
  <2> HIDE DEF jc
  <2>q. QED
    BY <1>1, <1>2, <2>1
<1>5. \A t \in Slots : t # s => jc[t] = ic[t]
  BY <1>1, <1>4
<1>6. /\ jc[s] = IF ic[s].ref > 0 THEN [ic[s] EXCEPT !.ref = ic[s].ref + 1]
                 ELSE [ref |-> 1, inum |-> i, copy |-> Invalid]
  BY <1>1, <1>2, <1>4
<1>7. /\ jc[s].inum = i /\ jc[s].ref = ic[s].ref + 1
      /\ (ic[s].ref > 0 => jc[s].copy = ic[s].copy) /\ (ic[s].ref = 0 => jc[s].copy = Invalid)
      /\ jc[s] \in EntryT
  <2>2. CASE ic[s].ref > 0
    BY <1>2, <1>3, <1>6, <2>2 DEF EntryT
  <2>3. CASE ~(ic[s].ref > 0)
    <3>1. ic[s].ref = 0 /\ jc[s] = [ref |-> 1, inum |-> i, copy |-> Invalid]
      BY <1>3, <1>6, <2>3
    <3>q. QED
      BY <3>1 DEF EntryT
  <2>q. QED
    BY <2>2, <2>3
<1>8. jc \in [Slots -> EntryT]
  BY <1>1, <1>2, <1>4, <1>6, <1>7
<1> HIDE DEF s, jc
<1>9. Gets(ic, jc, i, s)
  BY <1>2, <1>3, <1>5, <1>7 DEF Gets
<1>10. Good(jc, dn)
  <2>1. ASSUME NEW t \in Slots, NEW u \in Slots, jc[t].ref > 0, jc[u].ref > 0, jc[t].inum = jc[u].inum
        PROVE  t = u
    <3>1. \A x, y \in Slots : ic[x].ref > 0 /\ ic[y].ref > 0 /\ ic[x].inum = ic[y].inum => x = y
      BY DEF Good
    <3>2. CASE t # s /\ u # s
      BY <1>5, <2>1, <3>1, <3>2
    <3>3. \A x \in Slots : x # s /\ jc[x].ref > 0 => jc[x].inum # i
      BY <1>2, <1>3, <1>5, <3>1
    <3>q. QED
      BY <1>7, <2>1, <3>2, <3>3
  <2>2. ASSUME NEW t \in Slots, jc[t].ref > 0, jc[t].copy # Invalid
        PROVE  jc[t].copy = dn[jc[t].inum] /\ dn[jc[t].inum].type # "free"
    <3>1. \A x \in Slots : ic[x].ref > 0 /\ ic[x].copy # Invalid =>
            ic[x].copy = dn[ic[x].inum] /\ dn[ic[x].inum].type # "free"
      BY DEF Good
    <3>2. CASE t # s
      BY <1>5, <2>2, <3>1, <3>2
    <3>3. CASE t = s
      <4>1. ic[s].ref > 0
        BY <1>3, <1>7, <2>2, <3>3
      <4>q. QED
        BY <1>2, <1>7, <2>2, <3>1, <3>3, <4>1
    <3>q. QED
      BY <3>2, <3>3
  <2>q. QED
    BY <1>8, <2>1, <2>2 DEF Good
<1>11. Keeps(ic, jc)
  BY <1>2, <1>5, <1>7 DEF Keeps
<1>q. QED
  BY <1>9, <1>10, <1>11 DEF s, jc

\* ilock reads the i-node if nobody has.
Loads(jc, s) ==
  /\ Good(jc, dinode) /\ Keeps(icache, jc) /\ SameRefs(icache, jc)
  /\ \A t \in Slots : jc[t].inum = icache[t].inum /\ (t # s => jc[t] = icache[t])
  /\ jc[s].copy # Invalid /\ jc[s].copy = dinode[icache[s].inum] /\ dinode[icache[s].inum].type # "free"
LEMMA LoadedIs ==
  ASSUME Good(icache, dinode), NEW s \in Slots, icache[s].ref > 0, Ilock(s)
  PROVE  Loads(Loaded(s), s)
<1> DEFINE jc == Loaded(s)
           i == icache[s].inum
           d == IF icache[s].copy = Invalid THEN dinode[i] ELSE icache[s].copy
<1>1. icache \in [Slots -> EntryT] /\ icache[s] \in EntryT /\ i \in Inums /\ dinode[i] \in DinodeT
  BY DEF Good, EntryT
<1>2. jc = [icache EXCEPT ![s] = [icache[s] EXCEPT !.copy = d]]
  BY <1>1 DEF Loaded
<1>3. dinode[i].type # "free" /\ d = dinode[i]
  BY DEF Good, Ilock
<1>4. d # Invalid
  BY <1>1, <1>3 DEF Invalid, DinodeT
<1>5. /\ jc \in [Slots -> EntryT] /\ \A t \in Slots : t # s => jc[t] = icache[t]
      /\ jc[s].ref = icache[s].ref /\ jc[s].inum = i /\ jc[s].copy = d
  BY <1>1, <1>2, <1>3 DEF EntryT
<1> HIDE DEF jc, d, i
<1>6. \A t \in Slots : jc[t].ref = icache[t].ref /\ jc[t].inum = icache[t].inum
  BY <1>5 DEF i
<1>7. Good(jc, dinode)
  <2>1. \A t \in Slots : jc[t].ref > 0 /\ jc[t].copy # Invalid =>
          jc[t].copy = dinode[jc[t].inum] /\ dinode[jc[t].inum].type # "free"
    BY <1>3, <1>5 DEF Good
  <2>q. QED
    BY <1>5, <1>6, <2>1 DEF Good
<1>q. QED
  BY <1>3, <1>4, <1>5, <1>6, <1>7 DEF Loads, Keeps, SameRefs, jc, d, i

\* iupdate writes what the entry says.
Writes(ic, dn, jc, en, s, d) ==
  /\ Good(jc, en) /\ Keeps(ic, jc) /\ SameRefs(ic, jc)
  /\ \A t \in Slots : jc[t].inum = ic[t].inum /\ (t # s => jc[t] = ic[t])
  /\ jc[s].copy = d /\ d # Invalid
SameTypes(dn, en) == \A j \in Inums : en[j].type = dn[j].type
LEMMA UpdateIs ==
  ASSUME NEW ic, NEW dn, Good(ic, dn), NEW s \in Slots, ic[s].ref > 0, ic[s].copy # Invalid,
         NEW k \in Int
  PROVE  LET d == WithLinks(ic[s].copy, k) IN
           /\ Writes(ic, dn, [ic EXCEPT ![s].copy = d], [dn EXCEPT ![ic[s].inum] = d], s, d)
           /\ d \in DinodeT /\ d.type = ic[s].copy.type /\ d.nlink = k /\ d.type # "free"
           /\ SameTypes(dn, [dn EXCEPT ![ic[s].inum] = d])
<1> DEFINE d == WithLinks(ic[s].copy, k)
           i == ic[s].inum
           jc == [ic EXCEPT ![s].copy = d]
           en == [dn EXCEPT ![i] = d]
<1>1. ic \in [Slots -> EntryT] /\ ic[s] \in EntryT /\ i \in Inums /\ dn \in [Inums -> DinodeT]
  BY DEF Good, EntryT
<1>2. ic[s].copy \in DinodeT /\ ic[s].copy.type # "free"
  BY <1>1 DEF Good
<1>3. d \in DinodeT /\ d.type = ic[s].copy.type /\ d.nlink = k /\ d # Invalid
  BY <1>2 DEF WithLinks, DinodeT, Invalid
<1> HIDE DEF d
<1>4. jc = [ic EXCEPT ![s] = [ic[s] EXCEPT !.copy = d]]
  BY <1>1
<1>5. /\ jc \in [Slots -> EntryT] /\ \A t \in Slots : t # s => jc[t] = ic[t]
      /\ jc[s].ref = ic[s].ref /\ jc[s].inum = i /\ jc[s].copy = d
  BY <1>1, <1>3, <1>4 DEF EntryT
<1>6. en \in [Inums -> DinodeT] /\ en[i] = d /\ \A j \in Inums : j # i => en[j] = dn[j]
  BY <1>1, <1>3
<1> HIDE DEF jc, en
<1>7. \A t \in Slots : jc[t].ref = ic[t].ref /\ jc[t].inum = ic[t].inum /\ ic[t].inum \in Inums
  BY <1>1, <1>5 DEF EntryT
<1>8. \A t, u \in Slots : ic[t].ref > 0 /\ ic[u].ref > 0 /\ ic[t].inum = ic[u].inum => t = u
  BY DEF Good
<1>9. ASSUME NEW t \in Slots, jc[t].ref > 0, jc[t].copy # Invalid
      PROVE  jc[t].copy = en[jc[t].inum] /\ en[jc[t].inum].type # "free"
  <2>1. CASE t = s
    BY <1>2, <1>3, <1>5, <1>6, <2>1
  <2>2. CASE t # s
    <3>1. jc[t].inum # i
      BY <1>5, <1>7, <1>8, <1>9, <2>2
    <3>2. jc[t] = ic[t]
      BY <1>5, <2>2
    <3>3. ic[t].copy = dn[ic[t].inum] /\ dn[ic[t].inum].type # "free"
      BY <1>9, <3>2 DEF Good
    <3>q. QED
      BY <1>6, <1>7, <3>1, <3>2, <3>3
  <2>q. QED
    BY <2>1, <2>2
<1>10. Good(jc, en)
  <2>1. \A t, u \in Slots : jc[t].ref > 0 /\ jc[u].ref > 0 /\ jc[t].inum = jc[u].inum => t = u
    BY <1>7, <1>8
  <2>q. QED
    BY <1>5, <1>6, <1>9, <2>1 DEF Good
<1>11. Writes(ic, dn, jc, en, s, d)
  <2>1. Keeps(ic, jc)
    BY <1>3, <1>5, <1>7 DEF Keeps
  <2>q. QED
    BY <1>3, <1>5, <1>7, <1>10, <2>1 DEF Writes, SameRefs
<1>12. SameTypes(dn, en)
  <2>1. ic[s].copy = dn[i]
    BY DEF Good
  <2>q. QED
    BY <1>3, <1>6, <2>1 DEF SameTypes
<1>q. QED
  BY <1>2, <1>3, <1>11, <1>12 DEF jc, en, i, d

-----------------------------------------------------------------------------
(* References and pointers *)

One(b) == IF b THEN 1 ELSE 0
AddIf(S, x, b) == IF b THEN S \cup {x} ELSE S
LEMMA AddIfIs ==
  ASSUME NEW S, IsFiniteSet(S), NEW x, x \notin S, NEW b \in BOOLEAN
  PROVE  /\ IsFiniteSet(AddIf(S, x, b)) /\ Cardinality(AddIf(S, x, b)) = Cardinality(S) + One(b)
         /\ Cardinality(S) \in Nat
  BY FS_AddElement, FS_CardinalityType DEF AddIf, One

\* The pointers of p to s, by what they are, and those of the others.
Num(p, s) == One(s = cur[p]) + One(s = ip[p]) + One(s = put[p]) + One(s = file[p]) + One(s = cwd[p])
Others(p, s) == {r \in Pointers(s) : r[1] # p}
NumIs == \A p \in Procs, s \in Slots :
           /\ Cardinality(Pointers(s)) = Cardinality(Others(p, s)) + Num(p, s)
           /\ Cardinality(Others(p, s)) \in Nat /\ Num(p, s) \in Nat
           /\ IsFiniteSet(Others(p, s))
LEMMA PointersAreCounted == NumIs
<1> SUFFICES ASSUME NEW p \in Procs, NEW s \in Slots
             PROVE  /\ Cardinality(Pointers(s)) = Cardinality(Others(p, s)) + Num(p, s)
                    /\ Cardinality(Others(p, s)) \in Nat /\ Num(p, s) \in Nat
                    /\ IsFiniteSet(Others(p, s))
  BY DEF NumIs
<1> DEFINE K == {"cur", "ip", "put", "file", "cwd"}
           S == Others(p, s)
           S1 == AddIf(S, <<p, "cur">>, s = cur[p])
           S2 == AddIf(S1, <<p, "ip">>, s = ip[p])
           S3 == AddIf(S2, <<p, "put">>, s = put[p])
           S4 == AddIf(S3, <<p, "file">>, s = file[p])
           S5 == AddIf(S4, <<p, "cwd">>, s = cwd[p])
<1>1. \A q \in Procs, k \in K : <<q, k>> \in Pointers(s) <=>
        \/ k = "cur" /\ s = cur[q]
        \/ k = "ip" /\ s = ip[q]
        \/ k = "put" /\ s = put[q]
        \/ k = "file" /\ s = file[q]
        \/ k = "cwd" /\ s = cwd[q]
  BY DEF Pointers
<1>2. Pointers(s) \subseteq Procs \X K
  BY DEF Pointers
<1>3. IsFiniteSet(S)
  <2>1. IsFiniteSet(K)
    <3>1. K = ((({"cur"} \cup {"ip"}) \cup {"put"}) \cup {"file"}) \cup {"cwd"}
      OBVIOUS
    <3>2. \A x : IsFiniteSet({x})
      BY FS_Singleton
    <3>3. IsFiniteSet({"cur"} \cup {"ip"})
      BY <3>2, FS_Union
    <3>4. IsFiniteSet(({"cur"} \cup {"ip"}) \cup {"put"})
      BY <3>2, <3>3, FS_Union
    <3>5. IsFiniteSet((({"cur"} \cup {"ip"}) \cup {"put"}) \cup {"file"})
      BY <3>2, <3>4, FS_Union
    <3> HIDE DEF K
    <3>6. IsFiniteSet(((({"cur"} \cup {"ip"}) \cup {"put"}) \cup {"file"}) \cup {"cwd"})
      BY <3>2, <3>5, FS_Union
    <3>q. QED
      BY <3>1, <3>6
  <2>2. IsFiniteSet(Procs \X K)
    BY <2>1, FS_Product, SizeAssumption
  <2>3. S \subseteq Procs \X K
    BY <1>2 DEF Others
  <2>q. QED
    BY <2>2, <2>3, FS_Subset
<1>4. \A k : <<p, k>> \notin S
  BY DEF Others
<1>5. <<p, "ip">> \notin S1 /\ <<p, "put">> \notin S2 /\ <<p, "file">> \notin S3 /\ <<p, "cwd">> \notin S4
  BY <1>4 DEF AddIf
<1>6. Pointers(s) = S5
  <2>1. ASSUME NEW r \in Pointers(s) PROVE r \in S5
    <3>1. PICK q \in Procs, k \in K : r = <<q, k>>
      BY <1>2
    <3>2. CASE q = p
      BY <1>1, <3>1, <3>2 DEF AddIf
    <3>3. CASE q # p
      BY <3>1, <3>3 DEF Others, AddIf
    <3>q. QED
      BY <3>2, <3>3
  <2>2. ASSUME NEW r \in S5 PROVE r \in Pointers(s)
    <3>1. CASE r \in S
      BY <3>1 DEF Others
    <3>2. CASE r \notin S
      BY <1>1, <3>2 DEF AddIf
    <3>q. QED
      BY <3>1, <3>2
  <2>q. QED
    BY <2>1, <2>2
<1> HIDE DEF S
<1>7. IsFiniteSet(S1) /\ Cardinality(S1) = Cardinality(S) + One(s = cur[p]) /\ Cardinality(S) \in Nat
  BY <1>3, <1>4, AddIfIs
<1> HIDE DEF S1
<1>8. IsFiniteSet(S2) /\ Cardinality(S2) = Cardinality(S1) + One(s = ip[p])
  BY <1>5, <1>7, AddIfIs
<1> HIDE DEF S2
<1>9. IsFiniteSet(S3) /\ Cardinality(S3) = Cardinality(S2) + One(s = put[p])
  BY <1>5, <1>8, AddIfIs
<1> HIDE DEF S3
<1>10. IsFiniteSet(S4) /\ Cardinality(S4) = Cardinality(S3) + One(s = file[p])
  BY <1>5, <1>9, AddIfIs
<1> HIDE DEF S4
<1>11. Cardinality(S5) = Cardinality(S4) + One(s = cwd[p])
  BY <1>5, <1>10, AddIfIs
<1>q. QED
  <2>1. Cardinality(Pointers(s)) = Cardinality(S) + Num(p, s) /\ Num(p, s) \in Nat
    BY <1>6, <1>7, <1>8, <1>9, <1>10, <1>11 DEF Num, One
  <2>q. QED
    BY <1>3, <1>7, <2>1 DEF S

\* What is pointed to is in use.
LEMMA InUse ==
  ASSUME RefsCounted, NEW p \in Procs, NEW s \in Slots, s \in {cur[p], ip[p], put[p], file[p], cwd[p]}
  PROVE  icache[s].ref > 0
<1>1. Num(p, s) > 0
  BY DEF Num, One
<1>2. /\ Cardinality(Pointers(s)) = Cardinality(Others(p, s)) + Num(p, s)
      /\ Cardinality(Others(p, s)) \in Nat /\ Num(p, s) \in Nat
  BY PointersAreCounted DEF NumIs
<1>3. icache[s].ref = Cardinality(Pointers(s))
  BY DEF RefsCounted
<1>q. QED
  BY <1>1, <1>2, <1>3

-----------------------------------------------------------------------------
(* What a step of p does *)

\* Its own variables are all that it writes, and what is new in them.
Moves(p) ==
  \A q \in Procs : q # p =>
    /\ pc'[q] = pc[q] /\ then'[q] = then[q] /\ call'[q] = call[q] /\ rest'[q] = rest[q]
    /\ cur'[q] = cur[q] /\ ip'[q] = ip[q] /\ put'[q] = put[q] /\ file'[q] = file[q] /\ cwd'[q] = cwd[q]
To(p, at, on, cl, r, c, i, u, f, w) ==
  /\ pc' = [pc EXCEPT ![p] = at] /\ then' = [then EXCEPT ![p] = on]
  /\ call' = [call EXCEPT ![p] = cl] /\ rest' = [rest EXCEPT ![p] = r]
  /\ cur' = [cur EXCEPT ![p] = c] /\ ip' = [ip EXCEPT ![p] = i] /\ put' = [put EXCEPT ![p] = u]
  /\ file' = [file EXCEPT ![p] = f] /\ cwd' = [cwd EXCEPT ![p] = w]
At(p, at, on, cl, r, c, i, u, f, w) ==
  /\ pc'[p] = at /\ then'[p] = on /\ call'[p] = cl /\ rest'[p] = r
  /\ cur'[p] = c /\ ip'[p] = i /\ put'[p] = u /\ file'[p] = f /\ cwd'[p] = w

\* The locks of the others stay, and so do the entries in use, their copies but
\* for what iput frees, and the types of the i-nodes but for that.
Locks(p) ==
  /\ lock' \in [Slots -> Procs \cup {NoProc}]
  /\ \A s \in Slots : lock'[s] = lock[s] \/ (lock[s] \in {p, NoProc} /\ lock'[s] \in {p, NoProc})
Frees(p, s) == pc[p] = "free" /\ s = put[p]
KeepsOthers(p) ==
  \A s \in Slots : icache[s].ref > 0 =>
    /\ icache'[s].inum = icache[s].inum
    /\ icache[s].copy # Invalid /\ ~Frees(p, s) => icache'[s].copy # Invalid
TypesKept(p) ==
  \A j \in Inums : \/ dinode'[j].type = dinode[j].type \/ dinode[j].type = "free"
                   \/ \E s \in Slots : Frees(p, s) /\ icache[s].inum = j

Is(s, t) == IF s = t THEN 1 ELSE 0
\* The references follow the pointers: g is the entry, if any, that iget took.
Counts(p, g) ==
  /\ Good(icache, dinode)' /\ KeepsOthers(p) /\ TypesKept(p)
  /\ \A t \in Slots : icache'[t].ref = icache[t].ref + Is(t, g)
Pointing(s, c, i, u, f, w) == Is(s, c) + Is(s, i) + Is(s, u) + Is(s, f) + Is(s, w)
Balance(p) == \A s \in Slots : icache'[s].ref - Num(p, s)' = icache[s].ref - Num(p, s)

\* What is opened, or moved to, is not being freed; what iput frees has one pointer.
LongKept(p) ==
  /\ file'[p] \notin {None, file[p]} =>
       lock[file'[p]] \in {p, NoProc} /\ dinode'[icache'[file'[p]].inum].type # "free"
  /\ cwd'[p] # cwd[p] => lock[cwd'[p]] \in {p, NoProc} /\ dinode'[icache'[cwd'[p]].inum].type = "dir"
  /\ pc'[p] = "free" => /\ pc[p] = "put" /\ icache[put[p]].ref = 1
                        /\ put' = put /\ file' = file /\ cwd' = cwd

Did(p) ==
  /\ Moves(p) /\ InodeTypes' /\ Stage(p)' /\ Holds(p)' /\ Locks(p)
  /\ Good(icache, dinode)' /\ KeepsOthers(p) /\ TypesKept(p) /\ Balance(p) /\ LongKept(p)

NoRest == <<>>
Fits(at, on, r, c, i, u, f, w) ==
  /\ at \in PC /\ on \in PC /\ r \in Seq(Entry) /\ w \in Slots
  /\ c \in Slots \cup {None} /\ i \in Slots \cup {None} /\ u \in Slots \cup {None} /\ f \in Slots \cup {None}
LEMMA Arrives ==
  ASSUME InodeTypes, NEW p \in Procs, dirent' \in DirentT, Locks(p),
         NEW at, NEW on, NEW cl, NEW r, NEW c, NEW i, NEW u, NEW f, NEW w,
         Fits(at, on, r, c, i, u, f, w), To(p, at, on, cl, r, c, i, u, f, w)
  PROVE  Moves(p) /\ InodeTypes' /\ At(p, at, on, cl, r, c, i, u, f, w)
<1>1. /\ pc \in [Procs -> PC] /\ then \in [Procs -> PC] /\ call = [q \in Procs |-> call[q]]
      /\ rest \in [Procs -> Seq(Entry)]
      /\ cur \in [Procs -> Slots \cup {None}] /\ ip \in [Procs -> Slots \cup {None}]
      /\ put \in [Procs -> Slots \cup {None}] /\ file \in [Procs -> Slots \cup {None}]
      /\ cwd \in [Procs -> Slots]
  BY DEF InodeTypes, Pointer
<1>t. /\ at \in PC /\ on \in PC /\ r \in Seq(Entry) /\ w \in Slots
      /\ c \in Slots \cup {None} /\ i \in Slots \cup {None} /\ u \in Slots \cup {None} /\ f \in Slots \cup {None}
  BY DEF Fits
<1>2. Moves(p)
  BY <1>1 DEF To, Moves
<1>3. At(p, at, on, cl, r, c, i, u, f, w)
  BY <1>1 DEF To, At
<1>4. /\ pc' \in [Procs -> PC] /\ then' \in [Procs -> PC] /\ rest' \in [Procs -> Seq(Entry)]
  BY <1>1, <1>t DEF To
<1>5. call' = [q \in Procs |-> call'[q]]
  BY <1>1, <1>t DEF To
<1>6. /\ cur' \in [Procs -> Slots \cup {None}] /\ ip' \in [Procs -> Slots \cup {None}]
      /\ put' \in [Procs -> Slots \cup {None}] /\ file' \in [Procs -> Slots \cup {None}]
      /\ cwd' \in [Procs -> Slots]
  BY <1>1, <1>t DEF To
<1>7. dirent' \in DirentT /\ lock' \in [Slots -> Procs \cup {NoProc}]
  BY DEF Locks
<1>8. InodeTypes'
  BY <1>4, <1>5, <1>6, <1>7 DEF InodeTypes, Pointer, DirentT
<1>q. QED
  BY <1>2, <1>3, <1>8

\* A variable that stays can be written as one that is written.
Still(p) ==
  /\ pc = [pc EXCEPT ![p] = pc[p]] /\ then = [then EXCEPT ![p] = then[p]]
  /\ call = [call EXCEPT ![p] = call[p]] /\ rest = [rest EXCEPT ![p] = rest[p]]
  /\ cur = [cur EXCEPT ![p] = cur[p]] /\ ip = [ip EXCEPT ![p] = ip[p]]
  /\ put = [put EXCEPT ![p] = put[p]] /\ file = [file EXCEPT ![p] = file[p]]
  /\ cwd = [cwd EXCEPT ![p] = cwd[p]]
LEMMA StillIs ==
  ASSUME InodeTypes, NEW p \in Procs
  PROVE  Still(p)
<1>1. /\ pc \in [Procs -> PC] /\ then \in [Procs -> PC] /\ call = [q \in Procs |-> call[q]]
      /\ rest \in [Procs -> Seq(Entry)]
      /\ cur \in [Procs -> Slots \cup {None}] /\ ip \in [Procs -> Slots \cup {None}]
      /\ put \in [Procs -> Slots \cup {None}] /\ file \in [Procs -> Slots \cup {None}]
      /\ cwd \in [Procs -> Slots]
  BY DEF InodeTypes, Pointer
<1>q. QED
  BY <1>1 DEF Still

\* What p points to.
Used(s) == s \in Slots /\ icache[s].ref > 0
LEMMA PointersUsed ==
  ASSUME InodeInv, NEW p \in Procs
  PROVE  /\ cur[p] # None => Used(cur[p])
         /\ ip[p] # None => Used(ip[p])
         /\ put[p] # None => Used(put[p])
         /\ file[p] # None => Used(file[p])
         /\ Used(cwd[p])
         /\ cur[p] \in Slots \cup {None} /\ ip[p] \in Slots \cup {None} /\ put[p] \in Slots \cup {None}
         /\ file[p] \in Slots \cup {None} /\ cwd[p] \in Slots
         /\ pc[p] \in PC /\ then[p] \in PC /\ rest[p] \in Seq(Entry)
<1>1. RefsCounted /\ InodeTypes
  BY DEF InodeInv
<1>2. /\ cur[p] \in Slots \cup {None} /\ ip[p] \in Slots \cup {None} /\ put[p] \in Slots \cup {None}
      /\ file[p] \in Slots \cup {None} /\ cwd[p] \in Slots
      /\ pc[p] \in PC /\ then[p] \in PC /\ rest[p] \in Seq(Entry)
  BY <1>1 DEF InodeTypes, Pointer
<1>3. \A s \in Slots : s \in {cur[p], ip[p], put[p], file[p], cwd[p]} => icache[s].ref > 0
  BY <1>1, InUse
<1>q. QED
  BY <1>2, <1>3 DEF Used

-----------------------------------------------------------------------------
(* The invariant after a step *)

LEMMA OthersStay ==
  ASSUME NEW p \in Procs, Moves(p), NEW s \in Slots
  PROVE  Others(p, s)' = Others(p, s)
  BY DEF Others, Pointers, Moves

LEMMA NumIsNext == NumIs'
  BY PointersAreCounted, PTL

LEMMA StepKeeps ==
  ASSUME InodeInv, NEW p \in Procs, Did(p)
  PROVE  InodeInv'
<1>1. /\ Moves(p) /\ InodeTypes' /\ Stage(p)' /\ Holds(p)' /\ Locks(p)
      /\ Good(icache, dinode)' /\ KeepsOthers(p) /\ Balance(p)
  BY DEF Did
<1>2. RefsCounted'
  <2> SUFFICES ASSUME NEW s \in Slots PROVE (icache[s].ref = Cardinality(Pointers(s)))'
    BY DEF RefsCounted
  <2>1. icache[s].ref = Cardinality(Pointers(s))
    BY DEF InodeInv, RefsCounted
  <2>2. /\ Cardinality(Pointers(s)) = Cardinality(Others(p, s)) + Num(p, s)
        /\ Cardinality(Others(p, s)) \in Nat /\ Num(p, s) \in Nat
    BY PointersAreCounted DEF NumIs
  <2>3. /\ Cardinality(Pointers(s))' = Cardinality(Others(p, s))' + Num(p, s)'
        /\ Num(p, s)' \in Nat
    BY NumIsNext DEF NumIs
  <2>4. Cardinality(Others(p, s))' = Cardinality(Others(p, s))
    BY <1>1, OthersStay
  <2>5. icache'[s].ref - Num(p, s)' = icache[s].ref - Num(p, s)
    BY <1>1 DEF Balance
  <2>6. icache'[s].ref \in Nat
    BY <1>1 DEF Good, EntryT
  <2>q. QED
    BY <2>1, <2>2, <2>3, <2>4, <2>5, <2>6
<1>3. ASSUME NEW q \in Procs, q # p PROVE Stage(q)'
  <2>1. Stage(q)
    BY DEF InodeInv
  <2>q. QED
    BY <1>1, <1>3, <2>1 DEF Stage, Where, Moves
<1>4. ASSUME NEW q \in Procs, q # p PROVE Holds(q)'
  <2>1. Holds(q) /\ Holds(p) /\ Stage(q)
    BY DEF InodeInv
  <2>2. /\ pc'[q] = pc[q] /\ then'[q] = then[q] /\ cur'[q] = cur[q] /\ ip'[q] = ip[q] /\ put'[q] = put[q]
    BY <1>1, <1>4 DEF Moves
  <2>3. ASSUME NEW s \in Slots, icache[s].ref > 0, Has(q, s) PROVE Has(q, s)'
    <3>1. lock[s] = q /\ icache[s].copy # Invalid
      BY <2>3 DEF Has
    <3>2. lock'[s] = q
      BY <1>1, <1>4, <3>1, NoProcAssumption DEF Locks
    <3>3. ~Frees(p, s)
      BY <1>4, <2>1, <3>1 DEF Frees, Holds, Has
    <3>q. QED
      BY <1>1, <2>3, <3>1, <3>2, <3>3 DEF Has, KeepsOthers
  <2>4. /\ cur[q] # None => Used(cur[q])
        /\ ip[q] # None => Used(ip[q])
        /\ put[q] # None => Used(put[q])
    BY PointersUsed
  <2>5. /\ HasDir(q) => cur[q] # None
        /\ HasInode(q) => ip[q] # None
        /\ pc[q] = "free" => put[q] # None
    BY <2>1 DEF Stage, HasDir, HasInode, WithDir, WithInode, Putting
  <2>6. /\ HasDir(q)' = HasDir(q) /\ HasInode(q)' = HasInode(q)
    BY <2>2 DEF HasDir, HasInode, Where
  <2>7. /\ HasDir(q) => Has(q, cur[q])'
        /\ HasInode(q) => Has(q, ip[q])'
        /\ pc[q] = "free" => Has(q, put[q])'
    <3>1. \A s \in Slots : icache[s].ref > 0 /\ Has(q, s) => lock'[s] = q /\ icache'[s].copy # Invalid
      BY <2>3 DEF Has
    <3>q. QED
      BY <2>1, <2>2, <2>4, <2>5, <3>1 DEF Holds, Has, Used
  <2>q. QED
    BY <2>1, <2>2, <2>6, <2>7 DEF Holds
<1>q. QED
  BY <1>1, <1>2, <1>3, <1>4 DEF InodeInv

-----------------------------------------------------------------------------
(* What the steps do to the cache *)

LEMMA LoadCounts ==
  ASSUME InodeInv, NEW p \in Procs, NEW s, Used(s), Ilock(s), icache' = Loaded(s), dinode' = dinode
  PROVE  /\ Counts(p, None) /\ icache'[s].copy # Invalid /\ icache'[s].copy = dinode[icache[s].inum]
         /\ icache'[s].copy.type # "free" /\ icache'[s].inum = icache[s].inum
<1>1. Loads(icache', s)
  BY LoadedIs DEF Used, InodeInv
<1>2. Counts(p, None)
  <2>1. KeepsOthers(p) /\ TypesKept(p)
    BY <1>1 DEF Loads, Keeps, KeepsOthers, TypesKept
  <2>2. \A t \in Slots : icache'[t].ref = icache[t].ref + Is(t, None)
    BY <1>1, SlotsAre DEF Loads, SameRefs, Is, InodeInv, Good, EntryT
  <2>q. QED
    BY <1>1, <2>1, <2>2 DEF Counts, Loads
<1>q. QED
  BY <1>1, <1>2 DEF Loads, Used

LEMMA GetCounts ==
  ASSUME InodeInv, NEW p \in Procs, NEW s, Used(s), Ilock(s), NEW i \in Inums,
         Get(Loaded(s), i), dinode' = dinode
  PROVE  /\ Counts(p, SlotOf(Loaded(s), i)) /\ SlotOf(Loaded(s), i) \in Slots
         /\ icache'[s].copy # Invalid /\ icache'[SlotOf(Loaded(s), i)].inum = i
<1> DEFINE ic == Loaded(s)
           t == SlotOf(ic, i)
<1>1. Loads(ic, s)
  BY LoadedIs DEF Used, InodeInv
<1>2. Room(ic, i) /\ icache' = Iget(ic, i)
  BY DEF Get, Room
<1> HIDE DEF ic
<1>3. Good(icache', dinode) /\ Keeps(ic, icache') /\ Gets(ic, icache', i, t)
  BY <1>1, <1>2, IgetIs DEF Loads
<1> HIDE DEF t
<1>4. \A x \in Slots : icache[x].ref \in Nat /\ ic[x].ref = icache[x].ref /\ ic[x].inum = icache[x].inum
  BY <1>1 DEF Loads, SameRefs, InodeInv, Good, EntryT
<1>5. KeepsOthers(p) /\ TypesKept(p)
  <2>1. \A x \in Slots : icache[x].ref > 0 =>
          icache'[x].inum = icache[x].inum /\ (icache[x].copy # Invalid => icache'[x].copy # Invalid)
    BY <1>1, <1>3, <1>4 DEF Keeps, Loads
  <2>q. QED
    BY <2>1 DEF KeepsOthers, TypesKept
<1>6. \A x \in Slots : icache'[x].ref = icache[x].ref + Is(x, t)
  BY <1>3, <1>4 DEF Gets, Is
<1>7. Counts(p, t) /\ t \in Slots
  BY <1>3, <1>5, <1>6 DEF Counts, Gets
<1>8. icache'[s].copy # Invalid
  BY <1>1, <1>3, <1>4 DEF Keeps, Loads, Used
<1>9. icache'[t].inum = i
  BY <1>3 DEF Gets
<1>q. QED
  BY <1>7, <1>8, <1>9 DEF t, ic

LEMMA NothingCounts ==
  ASSUME InodeInv, NEW p \in Procs, icache' = icache, dinode' = dinode
  PROVE  Counts(p, None)
<1>1. Good(icache, dinode)'
  BY DEF InodeInv, Good
<1>2. \A t \in Slots : icache'[t].ref = icache[t].ref + Is(t, None)
  BY SlotsAre DEF Is, InodeInv, Good, EntryT
<1>q. QED
  BY <1>1, <1>2 DEF Counts, KeepsOthers, TypesKept

\* The rest of a step, once it is known where p is and what the cache is.
LEMMA Balances ==
  ASSUME InodeInv, NEW p \in Procs, NEW g, Counts(p, g),
         NEW c, NEW i, NEW u, NEW f, NEW w, NEW at, NEW on, NEW cl, NEW r,
         At(p, at, on, cl, r, c, i, u, f, w),
         \A s \in Slots : Pointing(s, c, i, u, f, w) = Num(p, s) + Is(s, g)
  PROVE  Balance(p)
<1> SUFFICES ASSUME NEW s \in Slots
             PROVE  icache'[s].ref - Num(p, s)' = icache[s].ref - Num(p, s)
  BY DEF Balance
<1>1. Num(p, s)' = Pointing(s, c, i, u, f, w)
  BY DEF At, Num, One, Pointing, Is
<1>2. icache'[s].ref = icache[s].ref + Is(s, g) /\ icache[s].ref \in Nat /\ Is(s, g) \in Nat
  BY DEF Counts, InodeInv, Good, EntryT, Is
<1>3. Num(p, s) \in Nat
  BY PointersAreCounted DEF NumIs
<1>q. QED
  BY <1>1, <1>2, <1>3

LEMMA Begins ==
  ASSUME InodeInv, NEW p \in Procs
  PROVE  InodeTypes /\ Good(icache, dinode) /\ RefsCounted /\ Stage(p) /\ Holds(p) /\ Still(p)
  BY StillIs DEF InodeInv

LEMMA Holders ==
  ASSUME InodeInv, NEW p \in Procs
  PROVE  /\ HasDir(p) => Used(cur[p]) /\ lock[cur[p]] = p /\ icache[cur[p]].copy # Invalid
         /\ HasInode(p) => Used(ip[p]) /\ lock[ip[p]] = p /\ icache[ip[p]].copy # Invalid
         /\ pc[p] = "free" => Used(put[p]) /\ lock[put[p]] = p
<1>1. Stage(p) /\ Holds(p)
  BY DEF InodeInv
<1>q. QED
  BY <1>1, PointersUsed DEF Stage, Holds, Has, HasDir, HasInode, WithDir, WithInode, Putting

LEMMA LocksStay ==
  ASSUME InodeTypes, NEW p \in Procs, lock' = lock
  PROVE  Locks(p)
  BY DEF InodeTypes, Locks

Owned(s, o) == lock'[s] = o /\ \A t \in Slots : t # s => lock'[t] = lock[t]
LEMMA LockTaken ==
  ASSUME InodeTypes, NEW p \in Procs, NEW s \in Slots, lock[s] = NoProc, lock' = [lock EXCEPT ![s] = p]
  PROVE  Locks(p) /\ Owned(s, p)
  BY DEF InodeTypes, Locks, Owned

LEMMA LockDropped ==
  ASSUME InodeTypes, NEW p \in Procs, NEW s \in Slots, lock[s] = p, lock' = [lock EXCEPT ![s] = NoProc]
  PROVE  Locks(p) /\ Owned(s, NoProc)
  BY DEF InodeTypes, Locks, Owned

LEMMA FreeCounts ==
  ASSUME InodeInv, NEW p \in Procs, Used(put[p]), pc[p] = "free",
         icache' = [icache EXCEPT ![put[p]].copy = Invalid],
         dinode' = [dinode EXCEPT ![icache[put[p]].inum] = Free]
  PROVE  Counts(p, None) /\ \A t \in Slots : t # put[p] => icache'[t] = icache[t]
<1> DEFINE s == put[p]
<1> DEFINE j == icache[s].inum
<1>1. /\ icache \in [Slots -> EntryT] /\ dinode \in [Inums -> DinodeT] /\ s \in Slots /\ icache[s] \in EntryT
      /\ j \in Inums /\ icache[s].ref > 0
  BY DEF InodeInv, Good, Used, EntryT
<1>2. Free \in DinodeT
  BY DEF Free, DinodeT
<1>3. /\ dinode' \in [Inums -> DinodeT] /\ dinode'[j] = Free /\ \A i \in Inums : i # j => dinode'[i] = dinode[i]
  BY <1>1, <1>2
<1>4. icache' = [icache EXCEPT ![s] = [icache[s] EXCEPT !.copy = Invalid]]
  BY <1>1
<1>5. /\ icache' \in [Slots -> EntryT] /\ (\A t \in Slots : t # s => icache'[t] = icache[t])
      /\ icache'[s].ref = icache[s].ref /\ icache'[s].inum = j /\ icache'[s].copy = Invalid
  BY <1>1, <1>4 DEF EntryT
<1>6. \A t \in Slots : icache'[t].ref = icache[t].ref /\ icache'[t].inum = icache[t].inum
                       /\ icache[t].ref \in Nat /\ icache[t].inum \in Inums
  BY <1>1, <1>5 DEF EntryT
<1> HIDE DEF j
<1>7. \A t, x \in Slots : icache[t].ref > 0 /\ icache[x].ref > 0 /\ icache[t].inum = icache[x].inum => t = x
  BY DEF InodeInv, Good
<1>8. ASSUME NEW t \in Slots, icache'[t].ref > 0, icache'[t].copy # Invalid
      PROVE  icache'[t].copy = dinode'[icache'[t].inum] /\ dinode'[icache'[t].inum].type # "free"
  <2>1. t # s
    BY <1>5, <1>8
  <2>2. icache'[t] = icache[t]
    BY <1>5, <2>1
  <2>3. icache[t].inum # j
    BY <1>1, <1>6, <1>7, <1>8, <2>1 DEF j
  <2>4. icache[t].copy = dinode[icache[t].inum] /\ dinode[icache[t].inum].type # "free"
    BY <1>8, <2>2 DEF InodeInv, Good
  <2>q. QED
    BY <1>3, <1>6, <2>2, <2>3, <2>4
<1>9. \A t, x \in Slots : icache'[t].ref > 0 /\ icache'[x].ref > 0 /\ icache'[t].inum = icache'[x].inum => t = x
  BY <1>6, <1>7
<1>10. Good(icache, dinode)'
  BY <1>3, <1>5, <1>8, <1>9 DEF Good
<1>11. KeepsOthers(p)
  BY <1>5, <1>6 DEF KeepsOthers, Frees
<1>12. TypesKept(p)
  BY <1>1, <1>3 DEF TypesKept, Frees, j
<1>13. \A t \in Slots : icache'[t].ref = icache[t].ref + Is(t, None)
  BY <1>6, SlotsAre DEF Is
<1>q. QED
  BY <1>5, <1>10, <1>11, <1>12, <1>13 DEF Counts

LEMMA DropCounts ==
  ASSUME InodeInv, NEW p \in Procs, NEW s, Used(s), s = put[p],
         icache' = [icache EXCEPT ![s].ref = @ - 1], dinode' = dinode
  PROVE  /\ Good(icache, dinode)' /\ KeepsOthers(p) /\ TypesKept(p)
         /\ \A t \in Slots : icache'[t].ref = icache[t].ref - Is(t, s)
         /\ \A t \in Slots : icache'[t].inum = icache[t].inum /\ icache'[t].copy = icache[t].copy
<1>1. /\ icache \in [Slots -> EntryT] /\ dinode \in [Inums -> DinodeT] /\ s \in Slots /\ icache[s] \in EntryT
      /\ icache[s].ref > 0 /\ icache[s].ref \in Nat
  BY DEF InodeInv, Good, Used, EntryT
<1>2. icache' = [icache EXCEPT ![s] = [icache[s] EXCEPT !.ref = icache[s].ref - 1]]
  BY <1>1
<1>3. icache[s].ref - 1 \in Nat
  BY <1>1
<1>4. /\ icache' \in [Slots -> EntryT] /\ (\A t \in Slots : t # s => icache'[t] = icache[t])
      /\ icache'[s].ref = icache[s].ref - 1 /\ icache'[s].inum = icache[s].inum /\ icache'[s].copy = icache[s].copy
  BY <1>1, <1>2, <1>3 DEF EntryT
<1>5. \A t \in Slots : /\ icache[t].ref \in Nat /\ icache'[t].inum = icache[t].inum /\ icache'[t].copy = icache[t].copy
                       /\ icache'[t].ref = icache[t].ref - Is(t, s) /\ (icache'[t].ref > 0 => icache[t].ref > 0)
  BY <1>1, <1>4 DEF EntryT, Is
<1>6. /\ \A t, x \in Slots : icache[t].ref > 0 /\ icache[x].ref > 0 /\ icache[t].inum = icache[x].inum => t = x
      /\ \A t \in Slots : icache[t].ref > 0 /\ icache[t].copy # Invalid =>
           icache[t].copy = dinode[icache[t].inum] /\ dinode[icache[t].inum].type # "free"
  BY DEF InodeInv, Good
<1>7. Good(icache, dinode)'
  <2>1. \A t, x \in Slots : icache'[t].ref > 0 /\ icache'[x].ref > 0 /\ icache'[t].inum = icache'[x].inum => t = x
    BY <1>5, <1>6
  <2>2. \A t \in Slots : icache'[t].ref > 0 /\ icache'[t].copy # Invalid =>
           icache'[t].copy = dinode[icache'[t].inum] /\ dinode[icache'[t].inum].type # "free"
    BY <1>5, <1>6
  <2>3. dinode' \in [Inums -> DinodeT] /\ icache' \in [Slots -> EntryT]
    BY <1>1, <1>4
  <2>q. QED
    BY <2>1, <2>2, <2>3 DEF Good
<1>8. KeepsOthers(p) /\ TypesKept(p)
  BY <1>5 DEF KeepsOthers, TypesKept
<1>q. QED
  BY <1>5, <1>7, <1>8

\* iget in a cache that has been changed before.
From(p, ic) ==
  /\ Good(ic, dinode') /\ Keeps(icache, ic) /\ SameRefs(icache, ic) /\ TypesKept(p)
  /\ \A t \in Slots : ic[t].inum = icache[t].inum
LEMMA GetFrom ==
  ASSUME InodeInv, NEW p \in Procs, NEW ic, From(p, ic), NEW i \in Inums, Get(ic, i)
  PROVE  /\ Counts(p, SlotOf(ic, i)) /\ SlotOf(ic, i) \in Slots /\ icache'[SlotOf(ic, i)].inum = i
         /\ \A s \in Slots : icache[s].ref > 0 /\ ic[s].copy # Invalid => icache'[s].copy # Invalid
<1> DEFINE t == SlotOf(ic, i)
<1>1. Room(ic, i) /\ icache' = Iget(ic, i) /\ Good(ic, dinode')
  BY DEF Get, Room, From
<1>2. Good(icache', dinode') /\ Keeps(ic, icache') /\ Gets(ic, icache', i, t)
  BY <1>1, IgetIs
<1> HIDE DEF t
<1>3. \A x \in Slots : icache[x].ref \in Nat /\ ic[x].ref = icache[x].ref /\ ic[x].inum = icache[x].inum
  BY DEF From, SameRefs, InodeInv, Good, EntryT
<1>4. KeepsOthers(p) /\ TypesKept(p)
  <2>1. \A x \in Slots : icache[x].ref > 0 =>
          icache'[x].inum = icache[x].inum /\ (icache[x].copy # Invalid => icache'[x].copy # Invalid)
    BY <1>2, <1>3 DEF Keeps, From
  <2>q. QED
    BY <2>1 DEF KeepsOthers, From
<1>5. \A x \in Slots : icache'[x].ref = icache[x].ref + Is(x, t)
  BY <1>2, <1>3 DEF Gets, Is
<1>6. Counts(p, t) /\ t \in Slots /\ icache'[t].inum = i
  BY <1>2, <1>4, <1>5 DEF Counts, Gets
<1>7. \A s \in Slots : icache[s].ref > 0 /\ ic[s].copy # Invalid => icache'[s].copy # Invalid
  BY <1>2, <1>3 DEF Keeps
<1>q. QED
  BY <1>6, <1>7 DEF t

LEMMA HeadIs ==
  ASSUME NEW r \in Seq(Entry), r # <<>>
  PROVE  Head(r) \in Entry /\ Tail(r) \in Seq(Entry) /\ Len(r) \in Nat /\ (Len(r) # 1 => Tail(r) # <<>>)
<1>1. Len(r) \in Nat /\ Len(r) # 0
  OBVIOUS
<1>2. Head(r) \in Entry /\ Tail(r) \in Seq(Entry) /\ Len(Tail(r)) = Len(r) - 1
  BY HeadTailProperties
<1>3. ASSUME Len(r) # 1 PROVE Tail(r) # <<>>
  <2>1. Len(Tail(r)) # 0
    BY <1>1, <1>2, <1>3
  <2>2. Len(<<>>) = 0
    OBVIOUS
  <2>q. QED
    BY <2>1, <2>2
<1>q. QED
  BY <1>1, <1>2, <1>3

\* The entry that p looks up.
LEMMA NameIs ==
  ASSUME InodeInv, NEW p \in Procs, Used(cur[p]), rest[p] # <<>>
  PROVE  /\ Name(p) \in Entry /\ Here(p)[Name(p)] \in 0..NInodes
         /\ Here(p)[Name(p)] # 0 => Here(p)[Name(p)] \in Inums
         /\ Tail(rest[p]) \in Seq(Entry) /\ (~Last(p) => Tail(rest[p]) # <<>>)
<1>1. rest[p] \in Seq(Entry)
  BY PointersUsed
<1>2. Name(p) \in Entry /\ Tail(rest[p]) \in Seq(Entry) /\ (~Last(p) => Tail(rest[p]) # <<>>)
  BY <1>1, HeadIs DEF Name, Last
<1>3. icache[cur[p]].inum \in Inums
  BY DEF InodeInv, Good, EntryT, Used
<1>4. dirent \in DirentT
  BY DEF InodeInv, InodeTypes
<1>5. Here(p) \in [Entry -> 0..NInodes]
  BY <1>3, <1>4 DEF DirentT, Here
<1>6. Here(p)[Name(p)] \in 0..NInodes
  BY <1>2, <1>5
<1>q. QED
  BY <1>2, <1>6, SizeAssumption DEF Inums

\* iupdate of an entry after ilock, or of two.
LEMMA FromLoaded ==
  ASSUME InodeInv, NEW p \in Procs, NEW s, Used(s), Ilock(s)
  PROVE  /\ Loads(Loaded(s), s) /\ Good(Loaded(s), dinode) /\ Keeps(icache, Loaded(s)) /\ SameRefs(icache, Loaded(s))
         /\ Loaded(s)[s].copy # Invalid /\ Loaded(s)[s].ref > 0 /\ Loaded(s)[s].inum = icache[s].inum
         /\ Loaded(s)[s].copy = dinode[icache[s].inum] /\ icache[s].inum \in Inums
  BY LoadedIs DEF Used, InodeInv, Loads, SameRefs, Good, EntryT

LEMMA WritesFrom ==
  ASSUME InodeInv, NEW p \in Procs, NEW ic, NEW dn, NEW jc, NEW s, NEW d,
         Keeps(icache, ic), SameRefs(icache, ic), \A t \in Slots : ic[t].inum = icache[t].inum,
         SameTypes(dinode, dn), SameTypes(dn, dinode'), Writes(ic, dn, jc, dinode', s, d)
  PROVE  From(p, jc)
<1>1. \A t \in Slots : icache[t].ref \in Nat
  BY DEF InodeInv, Good, EntryT
<1>2. \A t \in Slots : jc[t].ref = icache[t].ref /\ jc[t].inum = icache[t].inum
  BY DEF SameRefs, Writes
<1>3. Keeps(icache, jc)
  BY DEF Keeps, SameRefs, Writes
<1>4. TypesKept(p)
  BY DEF SameTypes, TypesKept
<1>q. QED
  BY <1>2, <1>3, <1>4 DEF From, Writes, SameRefs

LEMMA FromCounts ==
  ASSUME InodeInv, NEW p \in Procs, From(p, icache')
  PROVE  Counts(p, None)
<1>1. \A t \in Slots : icache[t].ref \in Nat /\ icache'[t].ref = icache[t].ref + Is(t, None)
  BY SlotsAre DEF From, SameRefs, Is, InodeInv, Good, EntryT
<1>2. KeepsOthers(p) /\ TypesKept(p) /\ Good(icache, dinode)'
  BY DEF From, Keeps, KeepsOthers
<1>q. QED
  BY <1>1, <1>2 DEF Counts

\* ialloc gives an i-node that no valid entry is of.
NewInum == CHOOSE i \in FreeInums : \A j \in FreeInums : i <= j
LEMMA AllocFrom ==
  ASSUME InodeInv, NEW p \in Procs, NEW ic, Good(ic, dinode), Keeps(icache, ic), SameRefs(icache, ic),
         \A t \in Slots : ic[t].inum = icache[t].inum,
         FreeInums # {}, NEW ty \in {"file", "dir"},
         dinode' = [dinode EXCEPT ![NewInum] = [type |-> ty, nlink |-> 0]]
  PROVE  From(p, ic) /\ NewInum \in Inums /\ dinode[NewInum] = Free /\ dinode[NewInum].type = "free"
<1> DEFINE i == NewInum
           d == [type |-> ty, nlink |-> 0]
<1>1. i \in FreeInums
  BY FreeInumIs DEF NewInum
<1>2. i \in Inums /\ dinode[i] = Free /\ dinode[i].type = "free"
  BY <1>1 DEF FreeInums, Free
<1>3. d \in DinodeT /\ d.type # "free"
  BY DEF DinodeT
<1> HIDE DEF i, d
<1>4. dinode \in [Inums -> DinodeT] /\ dinode' = [dinode EXCEPT ![i] = d]
  BY DEF Good, i, d
<1>5. dinode' \in [Inums -> DinodeT] /\ \A j \in Inums : j # i => dinode'[j] = dinode[j]
  BY <1>2, <1>3, <1>4
<1>6. /\ ic \in [Slots -> EntryT]
      /\ \A s, t \in Slots : ic[s].ref > 0 /\ ic[t].ref > 0 /\ ic[s].inum = ic[t].inum => s = t
      /\ \A s \in Slots : ic[s].ref > 0 /\ ic[s].copy # Invalid =>
           ic[s].copy = dinode[ic[s].inum] /\ dinode[ic[s].inum].type # "free"
      /\ \A s \in Slots : ic[s].inum \in Inums
  BY DEF Good, EntryT
<1>7. \A s \in Slots : ic[s].ref > 0 /\ ic[s].copy # Invalid =>
        ic[s].copy = dinode'[ic[s].inum] /\ dinode'[ic[s].inum].type # "free"
  BY <1>2, <1>5, <1>6
<1>8. Good(ic, dinode')
  BY <1>5, <1>6, <1>7 DEF Good
<1>9. TypesKept(p)
  BY <1>2, <1>5 DEF TypesKept
<1>q. QED
  BY <1>2, <1>8, <1>9 DEF From, i

LEMMA SetEntry ==
  ASSUME NEW de \in DirentT, NEW d \in Inums, NEW n \in Entry, NEW i \in 0..NInodes
  PROVE  [de EXCEPT ![d][n] = i] \in DirentT
<1>1. de \in [Inums -> [Entry -> 0..NInodes]] /\ de[d] \in [Entry -> 0..NInodes]
  BY DEF DirentT
<1>2. [de[d] EXCEPT ![n] = i] \in [Entry -> 0..NInodes]
  BY <1>1
<1>3. [de EXCEPT ![d] = [de[d] EXCEPT ![n] = i]] \in DirentT
  BY <1>1, <1>2 DEF DirentT
<1>q. QED
  BY <1>1, <1>3

-----------------------------------------------------------------------------
(* iput, and system calls without a path *)

LEMMA CloseStep ==
  ASSUME InodeInv, NEW p \in Procs, Close(p)
  PROVE  Did(p)
<1>1. /\ pc[p] = "user" /\ file[p] # None
      /\ icache' = icache /\ dinode' = dinode /\ dirent' = dirent /\ lock' = lock
  BY DEF Close, disk
<1>2. InodeTypes /\ Good(icache, dinode) /\ Stage(p) /\ Holds(p) /\ Still(p) /\ dirent' \in DirentT
  BY <1>1, Begins DEF InodeTypes
<1>3. /\ ip[p] \in Slots \cup {None} /\ cur[p] \in Slots \cup {None} /\ put[p] \in Slots \cup {None}
      /\ file[p] \in Slots \cup {None} /\ Used(cwd[p]) /\ cwd[p] \in Slots /\ then[p] \in PC /\ rest[p] \in Seq(Entry)
      /\ Used(file[p]) /\ put[p] = None /\ cur[p] = None /\ ip[p] = None
  BY <1>1, <1>2, PointersUsed DEF Stage, Where, Doing, Putting, WithDir, WithInode, WithName
<1>4. Locks(p) /\ Counts(p, None)
  BY <1>1, <1>2, LocksStay, NothingCounts
<1>a. To(p, "put", "user", call[p], rest[p], cur[p], ip[p], file[p], None, cwd[p])
  BY <1>1, <1>2, <1>3, <1>4 DEF Close, Put, Still, To
<1>t. Fits("put", "user", rest[p], cur[p], ip[p], file[p], None, cwd[p])
  BY <1>1, <1>2, <1>3, <1>4, <1>a DEF Fits, PC, Used
<1>b. /\ Moves(p) /\ InodeTypes'
      /\ At(p, "put", "user", call[p], rest[p], cur[p], ip[p], file[p], None, cwd[p])
  BY <1>1, <1>2, <1>3, <1>4, <1>a, <1>t, Arrives
<1>c. Stage(p)'
  BY <1>1, <1>2, <1>3, <1>4, <1>b, SlotsAre
     DEF At, Stage, Where, Doing, Putting, WithDir, WithInode, WithName, Used
<1>d. Holds(p)'
  BY <1>1, <1>2, <1>3, <1>4, <1>b, SlotsAre DEF At, Holds, HasDir, HasInode, Where, Putting, Used
<1>e. Balance(p)
  <2>1. \A y \in Slots : Pointing(y, cur[p], ip[p], file[p], None, cwd[p]) = Num(p, y) + Is(y, None)
    BY <1>1, <1>2, <1>3, <1>4, SlotsAre DEF Num, One, Is, Pointing, Used
  <2>q. QED
    BY <1>1, <1>2, <1>3, <1>4, <1>b, <2>1, Balances
<1>f. LongKept(p)
  BY <1>1, <1>2, <1>3, <1>4, <1>b DEF At, LongKept, Putting
<1>q. QED
  BY <1>1, <1>2, <1>3, <1>4, <1>b, <1>c, <1>d, <1>e, <1>f DEF Did, Counts

LEMMA IputLockStep ==
  ASSUME InodeInv, NEW p \in Procs, IputLock(p)
  PROVE  Did(p)
<1>1. /\ pc[p] = "put" /\ lock[put[p]] = NoProc
      /\ icache' = icache /\ dinode' = dinode /\ dirent' = dirent
  BY DEF IputLock, disk
<1>2. InodeTypes /\ Good(icache, dinode) /\ Stage(p) /\ Holds(p) /\ Still(p) /\ dirent' \in DirentT
  BY <1>1, Begins DEF InodeTypes
<1>3. /\ ip[p] \in Slots \cup {None} /\ cur[p] \in Slots \cup {None} /\ put[p] \in Slots \cup {None}
      /\ file[p] \in Slots \cup {None} /\ Used(cwd[p]) /\ cwd[p] \in Slots /\ then[p] \in PC /\ rest[p] \in Seq(Entry)
      /\ Used(put[p]) /\ (cur[p] # None <=> then[p] \in WithDir) /\ then[p] \notin Putting
      /\ HasDir(p) => Used(cur[p]) /\ lock[cur[p]] = p /\ icache[cur[p]].copy # Invalid
      /\ HasInode(p) => Used(ip[p]) /\ lock[ip[p]] = p /\ icache[ip[p]].copy # Invalid
  BY <1>1, <1>2, PointersUsed, Holders DEF Stage, Where, Putting
<1>4. Counts(p, None)
  BY <1>1, NothingCounts
<1>5. (HasDir(p) => put[p] # cur[p]) /\ (HasInode(p) => put[p] # ip[p])
  BY <1>1, <1>2, NoProcAssumption DEF Holds, Has
<1>6. CASE icache[put[p]].copy # Invalid /\ icache[put[p]].copy.nlink = 0 /\ icache[put[p]].ref = 1
  <2>1. lock' = [lock EXCEPT ![put[p]] = p]
    BY <1>6 DEF IputLock
  <2>2. Locks(p) /\ Owned(put[p], p)
    BY <1>1, <1>2, <1>3, <2>1, LockTaken DEF Used
  <2>3. put' = put /\ file' = file /\ cwd' = cwd
    BY DEF IputLock, long
  <2>a. To(p, "free", then[p], call[p], rest[p], cur[p], ip[p], put[p], file[p], cwd[p])
    BY <1>1, <1>2, <1>3, <1>4, <1>5, <1>6, <2>2, <2>3 DEF IputLock, Goto, long, Still, To
  <2>t. Fits("free", then[p], rest[p], cur[p], ip[p], put[p], file[p], cwd[p])
    BY <1>1, <1>2, <1>3, <1>4, <1>5, <1>6, <2>2, <2>3, <2>a DEF Fits, PC, Used
  <2>b. /\ Moves(p) /\ InodeTypes'
        /\ At(p, "free", then[p], call[p], rest[p], cur[p], ip[p], put[p], file[p], cwd[p])
    BY <1>1, <1>2, <1>3, <1>4, <1>5, <1>6, <2>2, <2>3, <2>a, <2>t, Arrives
  <2>c. Stage(p)'
    BY <1>1, <1>2, <1>3, <1>4, <1>5, <1>6, <2>2, <2>3, <2>b, SlotsAre
       DEF At, Stage, Where, Doing, Putting, WithDir, WithInode, WithName, Used
  <2>d. Holds(p)'
    BY <1>1, <1>2, <1>3, <1>4, <1>5, <1>6, <2>2, <2>3, <2>b, SlotsAre
       DEF At, Holds, HasDir, HasInode, Where, Putting, Used, Has, Owned
  <2>e. Balance(p)
    <3>1. \A y \in Slots : Pointing(y, cur[p], ip[p], put[p], file[p], cwd[p]) = Num(p, y) + Is(y, None)
      BY <1>1, <1>2, <1>3, <1>4, <1>5, <1>6, <2>2, <2>3, SlotsAre DEF Num, One, Is, Pointing, Used
    <3>q. QED
      BY <1>1, <1>2, <1>3, <1>4, <1>5, <1>6, <2>2, <2>3, <2>b, <3>1, Balances
  <2>f. LongKept(p)
    BY <1>1, <1>2, <1>3, <1>4, <1>5, <1>6, <2>2, <2>3, <2>b DEF At, LongKept, Putting
  <2>q. QED
    BY <1>1, <1>2, <1>3, <1>4, <1>5, <1>6, <2>2, <2>3, <2>b, <2>c, <2>d, <2>e, <2>f DEF Did, Counts
<1>7. CASE ~(icache[put[p]].copy # Invalid /\ icache[put[p]].copy.nlink = 0 /\ icache[put[p]].ref = 1)
  <2>1. lock' = lock
    BY <1>7 DEF IputLock
  <2>2. Locks(p)
    BY <1>2, <2>1, LocksStay
  <2>a. To(p, "drop", then[p], call[p], rest[p], cur[p], ip[p], put[p], file[p], cwd[p])
    BY <1>1, <1>2, <1>3, <1>4, <1>7, <2>1, <2>2 DEF IputLock, Goto, long, Still, To
  <2>t. Fits("drop", then[p], rest[p], cur[p], ip[p], put[p], file[p], cwd[p])
    BY <1>1, <1>2, <1>3, <1>4, <1>7, <2>1, <2>2, <2>a DEF Fits, PC, Used
  <2>b. /\ Moves(p) /\ InodeTypes'
        /\ At(p, "drop", then[p], call[p], rest[p], cur[p], ip[p], put[p], file[p], cwd[p])
    BY <1>1, <1>2, <1>3, <1>4, <1>7, <2>1, <2>2, <2>a, <2>t, Arrives
  <2>c. Stage(p)'
    BY <1>1, <1>2, <1>3, <1>4, <1>7, <2>1, <2>2, <2>b, SlotsAre
       DEF At, Stage, Where, Doing, Putting, WithDir, WithInode, WithName, Used
  <2>d. Holds(p)'
    BY <1>1, <1>2, <1>3, <1>4, <1>7, <2>1, <2>2, <2>b, SlotsAre
       DEF At, Holds, HasDir, HasInode, Where, Putting, Used, Has, Owned
  <2>e. Balance(p)
    <3>1. \A y \in Slots : Pointing(y, cur[p], ip[p], put[p], file[p], cwd[p]) = Num(p, y) + Is(y, None)
      BY <1>1, <1>2, <1>3, <1>4, <1>7, <2>1, <2>2, SlotsAre DEF Num, One, Is, Pointing, Used
    <3>q. QED
      BY <1>1, <1>2, <1>3, <1>4, <1>7, <2>1, <2>2, <2>b, <3>1, Balances
  <2>f. LongKept(p)
    BY <1>1, <1>2, <1>3, <1>4, <1>7, <2>1, <2>2, <2>b DEF At, LongKept, Putting
  <2>q. QED
    BY <1>1, <1>2, <1>3, <1>4, <1>7, <2>1, <2>2, <2>b, <2>c, <2>d, <2>e, <2>f DEF Did, Counts
<1>q. QED
  BY <1>6, <1>7

LEMMA IputFreeStep ==
  ASSUME InodeInv, NEW p \in Procs, IputFree(p)
  PROVE  Did(p)
<1>1. /\ pc[p] = "free"
      /\ icache' = [icache EXCEPT ![put[p]].copy = Invalid] /\ dinode' = [dinode EXCEPT ![icache[put[p]].inum] = Free]
      /\ dirent' = [dirent EXCEPT ![icache[put[p]].inum] = Empty] /\ lock' = [lock EXCEPT ![put[p]] = NoProc]
  BY DEF IputFree
<1>2. InodeTypes /\ Good(icache, dinode) /\ Stage(p) /\ Holds(p) /\ Still(p)
  BY Begins
<1>3. /\ ip[p] \in Slots \cup {None} /\ cur[p] \in Slots \cup {None} /\ put[p] \in Slots \cup {None}
      /\ file[p] \in Slots \cup {None} /\ Used(cwd[p]) /\ cwd[p] \in Slots /\ then[p] \in PC /\ rest[p] \in Seq(Entry)
      /\ Used(put[p]) /\ (cur[p] # None <=> then[p] \in WithDir) /\ then[p] \notin Putting
      /\ HasDir(p) => Used(cur[p]) /\ lock[cur[p]] = p /\ icache[cur[p]].copy # Invalid
      /\ HasInode(p) => Used(ip[p]) /\ lock[ip[p]] = p /\ icache[ip[p]].copy # Invalid
      /\ (HasDir(p) => put[p] # cur[p]) /\ (HasInode(p) => put[p] # ip[p]) /\ lock[put[p]] = p
  BY <1>1, <1>2, PointersUsed, Holders DEF Stage, Holds, Where, Putting
<1>4. Counts(p, None) /\ \A t \in Slots : t # put[p] => icache'[t] = icache[t]
  BY <1>1, <1>3, FreeCounts
<1>5. Locks(p) /\ Owned(put[p], NoProc)
  BY <1>1, <1>2, <1>3, LockDropped DEF Used
<1>6. dirent' \in DirentT
  <2>1. icache[put[p]].inum \in Inums
    BY <1>2, <1>3 DEF Used, Good, EntryT
  <2>2. Empty \in [Entry -> 0..NInodes]
    BY SizeAssumption DEF Empty
  <2>q. QED
    BY <1>1, <1>2, <2>1, <2>2 DEF InodeTypes, DirentT
<1>a. To(p, "drop", then[p], call[p], rest[p], cur[p], ip[p], put[p], file[p], cwd[p])
  BY <1>1, <1>2, <1>3, <1>4, <1>5, <1>6 DEF IputFree, Goto, long, Still, To
<1>t. Fits("drop", then[p], rest[p], cur[p], ip[p], put[p], file[p], cwd[p])
  BY <1>2, <1>3, <1>5, <1>6, <1>a DEF Fits, PC, Used
<1>b. /\ Moves(p) /\ InodeTypes'
      /\ At(p, "drop", then[p], call[p], rest[p], cur[p], ip[p], put[p], file[p], cwd[p])
  BY <1>2, <1>3, <1>5, <1>6, <1>a, <1>t, Arrives
<1>c. Stage(p)'
  BY <1>1, <1>2, <1>3, <1>4, <1>5, <1>6, <1>b, SlotsAre
     DEF At, Stage, Where, Doing, Putting, WithDir, WithInode, WithName, Used
<1>d. Holds(p)'
  BY <1>1, <1>2, <1>3, <1>4, <1>5, <1>6, <1>b, SlotsAre
     DEF At, Holds, HasDir, HasInode, Where, Putting, Used, Has, Owned
<1>e. Balance(p)
  <2>1. \A y \in Slots : Pointing(y, cur[p], ip[p], put[p], file[p], cwd[p]) = Num(p, y) + Is(y, None)
    BY <1>1, <1>2, <1>3, <1>4, <1>5, <1>6, SlotsAre DEF Num, One, Is, Pointing, Used
  <2>q. QED
    BY <1>1, <1>2, <1>3, <1>4, <1>5, <1>6, <1>b, <2>1, Balances
<1>f. LongKept(p)
  BY <1>1, <1>2, <1>3, <1>4, <1>5, <1>6, <1>b DEF At, LongKept, Putting
<1>q. QED
  BY <1>1, <1>2, <1>3, <1>4, <1>5, <1>6, <1>b, <1>c, <1>d, <1>e, <1>f DEF Did, Counts

LEMMA IputDropStep ==
  ASSUME InodeInv, NEW p \in Procs, IputDrop(p)
  PROVE  Did(p)
<1>1. /\ pc[p] = "drop" /\ icache' = [icache EXCEPT ![put[p]].ref = @ - 1]
      /\ dinode' = dinode /\ dirent' = dirent /\ lock' = lock
  BY DEF IputDrop, disk
<1>2. InodeTypes /\ Good(icache, dinode) /\ Stage(p) /\ Holds(p) /\ Still(p) /\ dirent' \in DirentT
  BY <1>1, Begins DEF InodeTypes
<1>3. /\ ip[p] \in Slots \cup {None} /\ cur[p] \in Slots \cup {None} /\ put[p] \in Slots \cup {None}
      /\ file[p] \in Slots \cup {None} /\ Used(cwd[p]) /\ cwd[p] \in Slots /\ then[p] \in PC /\ rest[p] \in Seq(Entry)
      /\ Used(put[p]) /\ (cur[p] # None <=> then[p] \in WithDir) /\ then[p] \notin Putting
      /\ NoRest \in Seq(Entry)
      /\ HasDir(p) => Used(cur[p]) /\ lock[cur[p]] = p /\ icache[cur[p]].copy # Invalid
      /\ HasInode(p) => Used(ip[p]) /\ lock[ip[p]] = p /\ icache[ip[p]].copy # Invalid
  BY <1>1, <1>2, PointersUsed, Holders DEF Stage, Where, Putting, NoRest
<1>4. /\ Good(icache, dinode)' /\ KeepsOthers(p) /\ TypesKept(p)
      /\ \A t \in Slots : icache'[t].ref = icache[t].ref - Is(t, put[p])
      /\ \A t \in Slots : icache'[t].inum = icache[t].inum /\ icache'[t].copy = icache[t].copy
  BY <1>1, <1>3, DropCounts
<1>5. Locks(p)
  BY <1>1, <1>2, LocksStay
<1>6. CASE then[p] = "user"
  <2>a. To(p, "user", then[p], NoCall, NoRest, cur[p], ip[p], None, file[p], cwd[p])
    BY <1>1, <1>2, <1>3, <1>4, <1>5, <1>6 DEF IputDrop, NoRest, Return, Goto, long, Still, To
  <2>t. Fits("user", then[p], NoRest, cur[p], ip[p], None, file[p], cwd[p])
    BY <1>2, <1>3, <1>5, <2>a DEF Fits, PC, Used
  <2>b. /\ Moves(p) /\ InodeTypes'
        /\ At(p, "user", then[p], NoCall, NoRest, cur[p], ip[p], None, file[p], cwd[p])
    BY <1>2, <1>3, <1>5, <2>a, <2>t, Arrives
  <2>c. Stage(p)'
    BY <1>1, <1>2, <1>3, <1>4, <1>5, <1>6, <2>b, SlotsAre
       DEF At, Stage, Where, Doing, Putting, WithDir, WithInode, WithName, Used
  <2>d. Holds(p)'
    BY <1>1, <1>2, <1>3, <1>4, <1>5, <1>6, <2>b, SlotsAre
       DEF At, Holds, HasDir, HasInode, Where, Putting, Used, Has
  <2>e. Balance(p)
    <3>1. \A s \in Slots : Num(p, s)' = Num(p, s) - Is(s, put[p])
      BY <1>1, <1>2, <1>3, <1>4, <1>5, <2>b, SlotsAre DEF At, Num, One, Is, Used
    <3>2. \A s \in Slots : Num(p, s) \in Nat /\ icache[s].ref \in Nat
      BY <1>2, PointersAreCounted DEF NumIs, Good, EntryT
    <3>q. QED
      BY <1>4, <3>1, <3>2 DEF Balance, Is
  <2>f. LongKept(p)
    BY <1>1, <1>2, <1>3, <1>4, <1>5, <1>6, <2>b DEF At, LongKept, Putting
  <2>q. QED
    BY <1>1, <1>2, <1>3, <1>4, <1>5, <1>6, <2>b, <2>c, <2>d, <2>e, <2>f DEF Did, Counts
<1>7. CASE then[p] # "user"
  <2>a. To(p, then[p], then[p], call[p], rest[p], cur[p], ip[p], None, file[p], cwd[p])
    BY <1>1, <1>2, <1>3, <1>4, <1>5, <1>7 DEF IputDrop, NoRest, Return, Goto, long, Still, To
  <2>t. Fits(then[p], then[p], rest[p], cur[p], ip[p], None, file[p], cwd[p])
    BY <1>2, <1>3, <1>5, <2>a DEF Fits, PC, Used
  <2>b. /\ Moves(p) /\ InodeTypes'
        /\ At(p, then[p], then[p], call[p], rest[p], cur[p], ip[p], None, file[p], cwd[p])
    BY <1>2, <1>3, <1>5, <2>a, <2>t, Arrives
  <2>c. Stage(p)'
    BY <1>1, <1>2, <1>3, <1>4, <1>5, <1>7, <2>b, SlotsAre
       DEF At, Stage, Where, Doing, Putting, WithDir, WithInode, WithName, Used
  <2>d. Holds(p)'
    BY <1>1, <1>2, <1>3, <1>4, <1>5, <1>7, <2>b, SlotsAre
       DEF At, Holds, HasDir, HasInode, Where, Putting, Used, Has
  <2>e. Balance(p)
    <3>1. \A s \in Slots : Num(p, s)' = Num(p, s) - Is(s, put[p])
      BY <1>1, <1>2, <1>3, <1>4, <1>5, <2>b, SlotsAre DEF At, Num, One, Is, Used
    <3>2. \A s \in Slots : Num(p, s) \in Nat /\ icache[s].ref \in Nat
      BY <1>2, PointersAreCounted DEF NumIs, Good, EntryT
    <3>q. QED
      BY <1>4, <3>1, <3>2 DEF Balance, Is
  <2>f. LongKept(p)
    BY <1>1, <1>2, <1>3, <1>4, <1>5, <1>7, <2>b DEF At, LongKept, Putting
  <2>q. QED
    BY <1>1, <1>2, <1>3, <1>4, <1>5, <1>7, <2>b, <2>c, <2>d, <2>e, <2>f DEF Did, Counts
<1>q. QED
  BY <1>6, <1>7

-----------------------------------------------------------------------------
(* Path names *)

LEMMA EnterStep ==
  ASSUME InodeInv, NEW p \in Procs, NEW c \in Calls[p], Enter(p, c)
  PROVE  Did(p)
<1> DEFINE i == IF c.abs THEN Root ELSE icache[cwd[p]].inum
           t == SlotOf(icache, i)
<1>1. /\ pc[p] = "user" /\ Get(icache, i) /\ cur' = [cur EXCEPT ![p] = t]
      /\ dinode' = dinode /\ dirent' = dirent /\ lock' = lock
  BY DEF Enter, Namex, disk
<1>2. InodeTypes /\ Good(icache, dinode) /\ Stage(p) /\ Holds(p) /\ Still(p) /\ dirent' \in DirentT
  BY <1>1, Begins DEF InodeTypes
<1>3. /\ ip[p] \in Slots \cup {None} /\ cur[p] \in Slots \cup {None} /\ put[p] \in Slots \cup {None}
      /\ file[p] \in Slots \cup {None} /\ Used(cwd[p]) /\ cwd[p] \in Slots /\ then[p] \in PC /\ rest[p] \in Seq(Entry)
      /\ put[p] = None /\ cur[p] = None /\ ip[p] = None
  BY <1>1, <1>2, PointersUsed DEF Stage, Where, Doing, Putting, WithDir, WithInode, WithName
<1>4. i \in Inums
  BY <1>2, <1>3, SlotsAre DEF Used, Good, EntryT
<1>5. To(p, "walk", then[p], c, c.path, t, ip[p], put[p], file[p], cwd[p])
  BY <1>1, <1>2 DEF Enter, Namex, Goto, long, Still, To
<1> HIDE DEF i, t
<1>6. c.path \in Seq(Entry) /\ c.path # <<>>
  BY CallsAssumption DEF Paths
<1>7. From(p, icache)
  BY <1>1, <1>2 DEF From, Keeps, SameRefs, TypesKept, Good
<1>8. Counts(p, t) /\ t \in Slots
  BY <1>1, <1>4, <1>7, GetFrom DEF t
<1>9. Locks(p)
  BY <1>1, <1>2, LocksStay
<1>t. Fits("walk", then[p], c.path, t, ip[p], put[p], file[p], cwd[p])
  BY <1>2, <1>3, <1>6, <1>8, <1>9, <1>5 DEF Fits, PC, Used
<1>b. /\ Moves(p) /\ InodeTypes'
      /\ At(p, "walk", then[p], c, c.path, t, ip[p], put[p], file[p], cwd[p])
  BY <1>2, <1>3, <1>6, <1>8, <1>9, <1>5, <1>t, Arrives
<1>c. Stage(p)'
  BY <1>1, <1>2, <1>3, <1>6, <1>8, <1>9, <1>b, SlotsAre
     DEF At, Stage, Where, Doing, Putting, WithDir, WithInode, WithName, Used
<1>d. Holds(p)'
  BY <1>1, <1>2, <1>3, <1>6, <1>8, <1>9, <1>b, SlotsAre DEF At, Holds, HasDir, HasInode, Where, Putting, Used
<1>e. Balance(p)
  <2>1. \A y \in Slots : Pointing(y, t, ip[p], put[p], file[p], cwd[p]) = Num(p, y) + Is(y, t)
    BY <1>1, <1>2, <1>3, <1>6, <1>8, <1>9, SlotsAre DEF Num, One, Is, Pointing, Used
  <2>q. QED
    BY <1>1, <1>2, <1>3, <1>6, <1>8, <1>9, <1>b, <2>1, Balances
<1>f. LongKept(p)
  BY <1>1, <1>2, <1>3, <1>6, <1>8, <1>9, <1>b DEF At, LongKept, Putting
<1>q. QED
  BY <1>1, <1>2, <1>3, <1>6, <1>8, <1>9, <1>b, <1>c, <1>d, <1>e, <1>f DEF Did, Counts

LEMMA WalkStep ==
  ASSUME InodeInv, NEW p \in Procs, Walk(p)
  PROVE  Did(p)
<1> DEFINE s == cur[p]
           ic == Loaded(s)
           t == Here(p)[Name(p)]
<1>1. /\ pc[p] = "walk" /\ Ilock(s)
      /\ dinode' = dinode /\ dirent' = dirent /\ lock' = lock
  BY DEF Walk, disk
<1>2. InodeTypes /\ Good(icache, dinode) /\ Stage(p) /\ Holds(p) /\ Still(p) /\ dirent' \in DirentT
  BY <1>1, Begins DEF InodeTypes
<1>3. /\ ip[p] \in Slots \cup {None} /\ cur[p] \in Slots \cup {None} /\ put[p] \in Slots \cup {None}
      /\ file[p] \in Slots \cup {None} /\ Used(cwd[p]) /\ cwd[p] \in Slots /\ then[p] \in PC /\ rest[p] \in Seq(Entry)
      /\ Used(s) /\ put[p] = None /\ (ip[p] # None => call[p].op = "link") /\ rest[p] # <<>> /\ call[p] \in Calls[p]
  BY <1>1, <1>2, PointersUsed DEF Stage, Where, Doing, Putting, WithDir, WithInode, WithName
<1>4. call[p].op \in {"open", "chdir", "create", "mkdir", "unlink", "link"}
  BY <1>3, CallsAssumption
<1>5. Locks(p)
  BY <1>1, <1>2, LocksStay
<1>6. CASE /\ ic[s].copy.type # "dir" \/ (t = 0 /\ ~(WantsParent(p) /\ Last(p)))
           /\ icache' = ic /\ cur' = [cur EXCEPT ![p] = None] /\ Put(p, s, Failed(p)) /\ UNCHANGED rest
  <2>1. Counts(p, None)
    BY <1>1, <1>3, <1>6, LoadCounts
  <2>2. Failed(p) \in {"bad", "user"} /\ (Failed(p) = "bad" <=> ip[p] # None)
    BY <1>3 DEF Failed, Relinking
  <2>a. To(p, "put", Failed(p), call[p], rest[p], None, ip[p], s, file[p], cwd[p])
    BY <1>1, <1>2, <1>3, <1>4, <1>5, <1>6, <2>1, <2>2 DEF Walk, Put, Goto, long, Still, To
  <2>t. Fits("put", Failed(p), rest[p], None, ip[p], s, file[p], cwd[p])
    BY <1>2, <1>3, <1>5, <2>2, <2>a DEF Fits, PC, Used
  <2>b. /\ Moves(p) /\ InodeTypes'
        /\ At(p, "put", Failed(p), call[p], rest[p], None, ip[p], s, file[p], cwd[p])
    BY <1>2, <1>3, <1>5, <2>2, <2>a, <2>t, Arrives
  <2>c. Stage(p)'
    BY <1>1, <1>2, <1>3, <1>4, <1>5, <1>6, <2>1, <2>2, <2>b, SlotsAre
       DEF At, Stage, Where, Doing, Putting, WithDir, WithInode, WithName, Used
  <2>d. Holds(p)'
    BY <1>1, <1>2, <1>3, <1>4, <1>5, <1>6, <2>1, <2>2, <2>b, SlotsAre
       DEF At, Holds, HasDir, HasInode, Where, Putting, Used
  <2>e. Balance(p)
    <3>1. \A y \in Slots : Pointing(y, None, ip[p], s, file[p], cwd[p]) = Num(p, y) + Is(y, None)
      BY <1>1, <1>2, <1>3, <1>4, <1>5, <1>6, <2>1, <2>2, SlotsAre DEF Num, One, Is, Pointing, Used
    <3>q. QED
      BY <1>1, <1>2, <1>3, <1>4, <1>5, <1>6, <2>1, <2>2, <2>b, <3>1, Balances
  <2>f. LongKept(p)
    BY <1>1, <1>2, <1>3, <1>4, <1>5, <1>6, <2>1, <2>2, <2>b DEF At, LongKept, Putting
  <2>q. QED
    BY <1>1, <1>2, <1>3, <1>4, <1>5, <1>6, <2>1, <2>2, <2>b, <2>c, <2>d, <2>e, <2>f DEF Did, Counts
<1>7. CASE /\ WantsParent(p) /\ icache' = ic /\ Goto(p, Found(p)) /\ UNCHANGED <<cur, put, rest>>
  <2>1. Counts(p, None)
    BY <1>1, <1>3, <1>7, LoadCounts
  <2>2. /\ Found(p) \in {"linkdp", "create", "mkdir", "unlink"} /\ (Found(p) = "linkdp" <=> ip[p] # None)
        /\ (ip[p] = None => Found(p) = call[p].op)
    BY <1>3, <1>7 DEF Found, Relinking, WantsParent
  <2>a. To(p, Found(p), then[p], call[p], rest[p], cur[p], ip[p], put[p], file[p], cwd[p])
    BY <1>1, <1>2, <1>3, <1>4, <1>5, <1>7, <2>1, <2>2 DEF Walk, Goto, long, Still, To
  <2>t. Fits(Found(p), then[p], rest[p], cur[p], ip[p], put[p], file[p], cwd[p])
    BY <1>2, <1>3, <1>5, <2>2, <2>a DEF Fits, PC, Used
  <2>b. /\ Moves(p) /\ InodeTypes'
        /\ At(p, Found(p), then[p], call[p], rest[p], cur[p], ip[p], put[p], file[p], cwd[p])
    BY <1>2, <1>3, <1>5, <2>2, <2>a, <2>t, Arrives
  <2>c. Stage(p)'
    BY <1>1, <1>2, <1>3, <1>4, <1>5, <1>7, <2>1, <2>2, <2>b, SlotsAre
       DEF At, Stage, Where, Doing, Putting, WithDir, WithInode, WithName, Used
  <2>d. Holds(p)'
    BY <1>1, <1>2, <1>3, <1>4, <1>5, <1>7, <2>1, <2>2, <2>b, SlotsAre
       DEF At, Holds, HasDir, HasInode, Where, Putting, Used
  <2>e. Balance(p)
    <3>1. \A y \in Slots : Pointing(y, cur[p], ip[p], put[p], file[p], cwd[p]) = Num(p, y) + Is(y, None)
      BY <1>1, <1>2, <1>3, <1>4, <1>5, <1>7, <2>1, <2>2, SlotsAre DEF Num, One, Is, Pointing, Used
    <3>q. QED
      BY <1>1, <1>2, <1>3, <1>4, <1>5, <1>7, <2>1, <2>2, <2>b, <3>1, Balances
  <2>f. LongKept(p)
    BY <1>1, <1>2, <1>3, <1>4, <1>5, <1>7, <2>1, <2>2, <2>b DEF At, LongKept, Putting
  <2>q. QED
    BY <1>1, <1>2, <1>3, <1>4, <1>5, <1>7, <2>1, <2>2, <2>b, <2>c, <2>d, <2>e, <2>f DEF Did, Counts
<1>8. CASE /\ t # 0 /\ ~(WantsParent(p) /\ Last(p)) /\ Get(ic, t) /\ cur' = [cur EXCEPT ![p] = SlotOf(ic, t)]
           /\ rest' = [rest EXCEPT ![p] = Tail(@)] /\ Put(p, s, IF Last(p) THEN Found(p) ELSE "walk")
  <2> DEFINE on == IF Last(p) THEN Found(p) ELSE "walk"
             x == SlotOf(ic, t)
             r == Tail(rest[p])
  <2>1. t \in Inums /\ r \in Seq(Entry) /\ (~Last(p) => r # <<>>)
    BY <1>3, <1>8, NameIs
  <2>2. Counts(p, x) /\ x \in Slots
    BY <1>1, <1>3, <1>8, <2>1, GetCounts
  <2>3. /\ on \in {"open", "chdir", "link", "walk"} /\ on \in {"walk", call[p].op}
        /\ (on # "walk" => ip[p] = None) /\ (on = "walk" => r # <<>>)
    BY <1>3, <1>4, <1>8, <2>1 DEF Found, Relinking, WantsParent
  <2>4. To(p, "put", on, call[p], r, x, ip[p], s, file[p], cwd[p])
    BY <1>1, <1>2, <1>8 DEF Walk, Put, long, Still, To
  <2> HIDE DEF on, x, r, t
  <2>t. Fits("put", on, r, x, ip[p], s, file[p], cwd[p])
    BY <1>2, <1>3, <1>5, <2>1, <2>2, <2>3, <2>4 DEF Fits, PC, Used
  <2>b. /\ Moves(p) /\ InodeTypes'
        /\ At(p, "put", on, call[p], r, x, ip[p], s, file[p], cwd[p])
    BY <1>2, <1>3, <1>5, <2>1, <2>2, <2>3, <2>4, <2>t, Arrives
  <2>c. Stage(p)'
    BY <1>1, <1>2, <1>3, <1>4, <1>5, <2>1, <2>2, <2>3, <2>b, SlotsAre
       DEF At, Stage, Where, Doing, Putting, WithDir, WithInode, WithName, Used
  <2>d. Holds(p)'
    BY <1>1, <1>2, <1>3, <1>4, <1>5, <2>1, <2>2, <2>3, <2>b, SlotsAre
       DEF At, Holds, HasDir, HasInode, Where, Putting, Used
  <2>e. Balance(p)
    <3>1. \A y \in Slots : Pointing(y, x, ip[p], s, file[p], cwd[p]) = Num(p, y) + Is(y, x)
      BY <1>1, <1>2, <1>3, <1>4, <1>5, <2>1, <2>2, <2>3, SlotsAre DEF Num, One, Is, Pointing, Used
    <3>q. QED
      BY <1>1, <1>2, <1>3, <1>4, <1>5, <2>1, <2>2, <2>3, <2>b, <3>1, Balances
  <2>f. LongKept(p)
    BY <1>1, <1>2, <1>3, <1>4, <1>5, <2>1, <2>2, <2>3, <2>b DEF At, LongKept, Putting
  <2>q. QED
    BY <1>1, <1>2, <1>3, <1>4, <1>5, <2>1, <2>2, <2>3, <2>b, <2>c, <2>d, <2>e, <2>f DEF Did, Counts
<1>q. QED
  BY <1>6, <1>7, <1>8 DEF Walk

LEMMA OpenStep ==
  ASSUME InodeInv, NEW p \in Procs, Open(p)
  PROVE  Did(p)
<1> DEFINE s == cur[p]
<1>1. /\ pc[p] = "open" /\ Ilock(s) /\ icache' = Loaded(s)
      /\ dinode' = dinode /\ dirent' = dirent /\ lock' = lock
  BY DEF Open, disk
<1>2. InodeTypes /\ Good(icache, dinode) /\ Stage(p) /\ Holds(p) /\ Still(p) /\ dirent' \in DirentT
  BY <1>1, Begins DEF InodeTypes
<1>3. /\ ip[p] \in Slots \cup {None} /\ cur[p] \in Slots \cup {None} /\ put[p] \in Slots \cup {None}
      /\ file[p] \in Slots \cup {None} /\ Used(cwd[p]) /\ cwd[p] \in Slots /\ then[p] \in PC /\ rest[p] \in Seq(Entry)
      /\ Used(s) /\ s \in Slots /\ put[p] = None /\ ip[p] = None /\ NoRest \in Seq(Entry)
  BY <1>1, <1>2, PointersUsed DEF Stage, Where, Doing, Putting, WithDir, WithInode, WithName, NoRest
<1>4. /\ Counts(p, None) /\ icache'[s].copy = dinode[icache[s].inum]
      /\ icache'[s].copy.type # "free" /\ icache'[s].inum = icache[s].inum
  BY <1>1, <1>3, LoadCounts
<1>5. Locks(p) /\ lock[s] = NoProc
  BY <1>1, <1>2, LocksStay DEF Ilock
<1>6. CASE Fail(p, s)
  <2>a. To(p, "put", "user", call[p], rest[p], None, ip[p], s, file[p], cwd[p])
    BY <1>1, <1>2, <1>3, <1>4, <1>5, <1>6 DEF Open, Fail, Put, Goto, long, Still, To
  <2>t. Fits("put", "user", rest[p], None, ip[p], s, file[p], cwd[p])
    BY <1>2, <1>3, <1>5, <2>a DEF Fits, PC, Used
  <2>b. /\ Moves(p) /\ InodeTypes'
        /\ At(p, "put", "user", call[p], rest[p], None, ip[p], s, file[p], cwd[p])
    BY <1>2, <1>3, <1>5, <2>a, <2>t, Arrives
  <2>c. Stage(p)'
    BY <1>1, <1>2, <1>3, <1>4, <1>5, <1>6, <2>b, SlotsAre
       DEF At, Stage, Where, Doing, Putting, WithDir, WithInode, WithName, Used
  <2>d. Holds(p)'
    BY <1>1, <1>2, <1>3, <1>4, <1>5, <1>6, <2>b, SlotsAre DEF At, Holds, HasDir, HasInode, Where, Putting, Used
  <2>e. Balance(p)
    <3>1. \A y \in Slots : Pointing(y, None, ip[p], s, file[p], cwd[p]) = Num(p, y) + Is(y, None)
      BY <1>1, <1>2, <1>3, <1>4, <1>5, <1>6, SlotsAre DEF Num, One, Is, Pointing, Used
    <3>q. QED
      BY <1>1, <1>2, <1>3, <1>4, <1>5, <1>6, <2>b, <3>1, Balances
  <2>f. LongKept(p)
    BY <1>1, <1>2, <1>3, <1>4, <1>5, <1>6, <2>b DEF At, LongKept, Putting
  <2>q. QED
    BY <1>1, <1>2, <1>3, <1>4, <1>5, <1>6, <2>b, <2>c, <2>d, <2>e, <2>f DEF Did, Counts
<1>7. CASE file[p] = None /\ file' = [file EXCEPT ![p] = s] /\ Return(p) /\ UNCHANGED put
  <2>a. To(p, "user", then[p], NoCall, NoRest, None, ip[p], put[p], s, cwd[p])
    BY <1>1, <1>2, <1>3, <1>4, <1>5, <1>7 DEF Open, Return, NoRest, Goto, long, Still, To
  <2>t. Fits("user", then[p], NoRest, None, ip[p], put[p], s, cwd[p])
    BY <1>2, <1>3, <1>5, <2>a DEF Fits, PC, Used
  <2>b. /\ Moves(p) /\ InodeTypes'
        /\ At(p, "user", then[p], NoCall, NoRest, None, ip[p], put[p], s, cwd[p])
    BY <1>2, <1>3, <1>5, <2>a, <2>t, Arrives
  <2>c. Stage(p)'
    BY <1>1, <1>2, <1>3, <1>4, <1>5, <1>7, <2>b, SlotsAre
       DEF At, Stage, Where, Doing, Putting, WithDir, WithInode, WithName, Used
  <2>d. Holds(p)'
    BY <1>1, <1>2, <1>3, <1>4, <1>5, <1>7, <2>b, SlotsAre DEF At, Holds, HasDir, HasInode, Where, Putting, Used
  <2>e. Balance(p)
    <3>1. \A y \in Slots : Pointing(y, None, ip[p], put[p], s, cwd[p]) = Num(p, y) + Is(y, None)
      BY <1>1, <1>2, <1>3, <1>4, <1>5, <1>7, SlotsAre DEF Num, One, Is, Pointing, Used
    <3>q. QED
      BY <1>1, <1>2, <1>3, <1>4, <1>5, <1>7, <2>b, <3>1, Balances
  <2>f. LongKept(p)
    BY <1>1, <1>2, <1>3, <1>4, <1>5, <1>7, <2>b DEF At, LongKept, Putting
  <2>q. QED
    BY <1>1, <1>2, <1>3, <1>4, <1>5, <1>7, <2>b, <2>c, <2>d, <2>e, <2>f DEF Did, Counts
<1>q. QED
  BY <1>6, <1>7 DEF Open, Install

LEMMA ChdirStep ==
  ASSUME InodeInv, NEW p \in Procs, Chdir(p)
  PROVE  Did(p)
<1> DEFINE s == cur[p]
<1>1. /\ pc[p] = "chdir" /\ Ilock(s) /\ icache' = Loaded(s)
      /\ dinode' = dinode /\ dirent' = dirent /\ lock' = lock
  BY DEF Chdir, disk
<1>2. InodeTypes /\ Good(icache, dinode) /\ Stage(p) /\ Holds(p) /\ Still(p) /\ dirent' \in DirentT
  BY <1>1, Begins DEF InodeTypes
<1>3. /\ ip[p] \in Slots \cup {None} /\ cur[p] \in Slots \cup {None} /\ put[p] \in Slots \cup {None}
      /\ file[p] \in Slots \cup {None} /\ Used(cwd[p]) /\ cwd[p] \in Slots /\ then[p] \in PC /\ rest[p] \in Seq(Entry)
      /\ Used(s) /\ s \in Slots /\ put[p] = None /\ ip[p] = None
  BY <1>1, <1>2, PointersUsed DEF Stage, Where, Doing, Putting, WithDir, WithInode, WithName, NoRest
<1>4. /\ Counts(p, None) /\ icache'[s].copy = dinode[icache[s].inum]
      /\ icache'[s].copy.type # "free" /\ icache'[s].inum = icache[s].inum
  BY <1>1, <1>3, LoadCounts
<1>5. Locks(p) /\ lock[s] = NoProc
  BY <1>1, <1>2, LocksStay DEF Ilock
<1>6. CASE Put(p, s, "user") /\ UNCHANGED cwd
  <2>a. To(p, "put", "user", call[p], rest[p], None, ip[p], s, file[p], cwd[p])
    BY <1>1, <1>2, <1>3, <1>4, <1>5, <1>6 DEF Chdir, Put, Goto, long, Still, To
  <2>t. Fits("put", "user", rest[p], None, ip[p], s, file[p], cwd[p])
    BY <1>2, <1>3, <1>5, <2>a DEF Fits, PC, Used
  <2>b. /\ Moves(p) /\ InodeTypes'
        /\ At(p, "put", "user", call[p], rest[p], None, ip[p], s, file[p], cwd[p])
    BY <1>2, <1>3, <1>5, <2>a, <2>t, Arrives
  <2>c. Stage(p)'
    BY <1>1, <1>2, <1>3, <1>4, <1>5, <1>6, <2>b, SlotsAre
       DEF At, Stage, Where, Doing, Putting, WithDir, WithInode, WithName, Used
  <2>d. Holds(p)'
    BY <1>1, <1>2, <1>3, <1>4, <1>5, <1>6, <2>b, SlotsAre DEF At, Holds, HasDir, HasInode, Where, Putting, Used
  <2>e. Balance(p)
    <3>1. \A y \in Slots : Pointing(y, None, ip[p], s, file[p], cwd[p]) = Num(p, y) + Is(y, None)
      BY <1>1, <1>2, <1>3, <1>4, <1>5, <1>6, SlotsAre DEF Num, One, Is, Pointing, Used
    <3>q. QED
      BY <1>1, <1>2, <1>3, <1>4, <1>5, <1>6, <2>b, <3>1, Balances
  <2>f. LongKept(p)
    BY <1>1, <1>2, <1>3, <1>4, <1>5, <1>6, <2>b DEF At, LongKept, Putting
  <2>q. QED
    BY <1>1, <1>2, <1>3, <1>4, <1>5, <1>6, <2>b, <2>c, <2>d, <2>e, <2>f DEF Did, Counts
<1>7. CASE icache'[s].copy.type = "dir" /\ Put(p, cwd[p], "user") /\ cwd' = [cwd EXCEPT ![p] = s]
  <2>a. To(p, "put", "user", call[p], rest[p], None, ip[p], cwd[p], file[p], s)
    BY <1>1, <1>2, <1>3, <1>4, <1>5, <1>7 DEF Chdir, Put, Goto, long, Still, To
  <2>t. Fits("put", "user", rest[p], None, ip[p], cwd[p], file[p], s)
    BY <1>2, <1>3, <1>5, <2>a DEF Fits, PC, Used
  <2>b. /\ Moves(p) /\ InodeTypes'
        /\ At(p, "put", "user", call[p], rest[p], None, ip[p], cwd[p], file[p], s)
    BY <1>2, <1>3, <1>5, <2>a, <2>t, Arrives
  <2>c. Stage(p)'
    BY <1>1, <1>2, <1>3, <1>4, <1>5, <1>7, <2>b, SlotsAre
       DEF At, Stage, Where, Doing, Putting, WithDir, WithInode, WithName, Used
  <2>d. Holds(p)'
    BY <1>1, <1>2, <1>3, <1>4, <1>5, <1>7, <2>b, SlotsAre DEF At, Holds, HasDir, HasInode, Where, Putting, Used
  <2>e. Balance(p)
    <3>1. \A y \in Slots : Pointing(y, None, ip[p], cwd[p], file[p], s) = Num(p, y) + Is(y, None)
      BY <1>1, <1>2, <1>3, <1>4, <1>5, <1>7, SlotsAre DEF Num, One, Is, Pointing, Used
    <3>q. QED
      BY <1>1, <1>2, <1>3, <1>4, <1>5, <1>7, <2>b, <3>1, Balances
  <2>f. LongKept(p)
    BY <1>1, <1>2, <1>3, <1>4, <1>5, <1>7, <2>b DEF At, LongKept, Putting
  <2>q. QED
    BY <1>1, <1>2, <1>3, <1>4, <1>5, <1>7, <2>b, <2>c, <2>d, <2>e, <2>f DEF Did, Counts
<1>q. QED
  BY <1>1, <1>6, <1>7 DEF Chdir

LEMMA CreateExistingStep ==
  ASSUME InodeInv, NEW p \in Procs, CreateExisting(p)
  PROVE  Did(p)
<1> DEFINE s == cur[p]
           t == Here(p)[Name(p)]
           x == SlotOf(Loaded(s), t)
<1>1. /\ pc[p] \in {"create", "mkdir"} /\ Ilock(s) /\ t # 0 /\ Get(Loaded(s), t)
      /\ dinode' = dinode /\ dirent' = dirent /\ lock' = lock
  BY DEF CreateExisting, disk
<1>2. InodeTypes /\ Good(icache, dinode) /\ Stage(p) /\ Holds(p) /\ Still(p) /\ dirent' \in DirentT
  BY <1>1, Begins DEF InodeTypes
<1>3. /\ ip[p] \in Slots \cup {None} /\ cur[p] \in Slots \cup {None} /\ put[p] \in Slots \cup {None}
      /\ file[p] \in Slots \cup {None} /\ Used(cwd[p]) /\ cwd[p] \in Slots /\ then[p] \in PC /\ rest[p] \in Seq(Entry)
      /\ Used(s) /\ s \in Slots /\ put[p] = None /\ ip[p] = None /\ rest[p] # <<>> /\ call[p] \in Calls[p]
  BY <1>1, <1>2, PointersUsed DEF Stage, Where, Doing, Putting, WithDir, WithInode, WithName, NoRest
<1>4. t \in Inums
  BY <1>1, <1>3, NameIs
<1>5. Counts(p, x) /\ x \in Slots
  BY <1>1, <1>3, <1>4, GetCounts
<1>6. Locks(p)
  BY <1>1, <1>2, LocksStay
<1>7. To(p, "put", "existing", call[p], rest[p], None, x, s, file[p], cwd[p])
  BY <1>1, <1>2 DEF CreateExisting, DropDir, Put, long, Still, To
<1> HIDE DEF x, t
<1>t. Fits("put", "existing", rest[p], None, x, s, file[p], cwd[p])
  BY <1>2, <1>3, <1>5, <1>6, <1>7 DEF Fits, PC, Used
<1>b. /\ Moves(p) /\ InodeTypes'
      /\ At(p, "put", "existing", call[p], rest[p], None, x, s, file[p], cwd[p])
  BY <1>2, <1>3, <1>5, <1>6, <1>7, <1>t, Arrives
<1>c. Stage(p)'
  BY <1>1, <1>2, <1>3, <1>5, <1>6, <1>b, SlotsAre
     DEF At, Stage, Where, Doing, Putting, WithDir, WithInode, WithName, Used
<1>d. Holds(p)'
  BY <1>1, <1>2, <1>3, <1>5, <1>6, <1>b, SlotsAre DEF At, Holds, HasDir, HasInode, Where, Putting, Used
<1>e. Balance(p)
  <2>1. \A y \in Slots : Pointing(y, None, x, s, file[p], cwd[p]) = Num(p, y) + Is(y, x)
    BY <1>1, <1>2, <1>3, <1>5, <1>6, SlotsAre DEF Num, One, Is, Pointing, Used
  <2>q. QED
    BY <1>1, <1>2, <1>3, <1>5, <1>6, <1>b, <2>1, Balances
<1>f. LongKept(p)
  BY <1>1, <1>2, <1>3, <1>5, <1>6, <1>b DEF At, LongKept, Putting
<1>q. QED
  BY <1>1, <1>2, <1>3, <1>5, <1>6, <1>b, <1>c, <1>d, <1>e, <1>f DEF Did, Counts

LEMMA UseExistingStep ==
  ASSUME InodeInv, NEW p \in Procs, UseExisting(p)
  PROVE  Did(p)
<1> DEFINE s == ip[p]
<1>1. /\ pc[p] = "existing" /\ Ilock(s) /\ icache' = Loaded(s)
      /\ dinode' = dinode /\ dirent' = dirent /\ lock' = lock
  BY DEF UseExisting, disk
<1>2. InodeTypes /\ Good(icache, dinode) /\ Stage(p) /\ Holds(p) /\ Still(p) /\ dirent' \in DirentT
  BY <1>1, Begins DEF InodeTypes
<1>3. /\ ip[p] \in Slots \cup {None} /\ cur[p] \in Slots \cup {None} /\ put[p] \in Slots \cup {None}
      /\ file[p] \in Slots \cup {None} /\ Used(cwd[p]) /\ cwd[p] \in Slots /\ then[p] \in PC /\ rest[p] \in Seq(Entry)
      /\ Used(s) /\ s \in Slots /\ put[p] = None /\ cur[p] = None /\ NoRest \in Seq(Entry)
  BY <1>1, <1>2, PointersUsed DEF Stage, Where, Doing, Putting, WithDir, WithInode, WithName, NoRest
<1>4. /\ Counts(p, None) /\ icache'[s].copy = dinode[icache[s].inum]
      /\ icache'[s].copy.type # "free" /\ icache'[s].inum = icache[s].inum
  BY <1>1, <1>3, LoadCounts
<1>5. Locks(p) /\ lock[s] = NoProc
  BY <1>1, <1>2, LocksStay DEF Ilock
<1>6. CASE Fail(p, s)
  <2>a. To(p, "put", "user", call[p], rest[p], cur[p], None, s, file[p], cwd[p])
    BY <1>1, <1>2, <1>3, <1>4, <1>5, <1>6 DEF UseExisting, Fail, Put, Goto, long, Still, To
  <2>t. Fits("put", "user", rest[p], cur[p], None, s, file[p], cwd[p])
    BY <1>2, <1>3, <1>5, <2>a DEF Fits, PC, Used
  <2>b. /\ Moves(p) /\ InodeTypes'
        /\ At(p, "put", "user", call[p], rest[p], cur[p], None, s, file[p], cwd[p])
    BY <1>2, <1>3, <1>5, <2>a, <2>t, Arrives
  <2>c. Stage(p)'
    BY <1>1, <1>2, <1>3, <1>4, <1>5, <1>6, <2>b, SlotsAre
       DEF At, Stage, Where, Doing, Putting, WithDir, WithInode, WithName, Used
  <2>d. Holds(p)'
    BY <1>1, <1>2, <1>3, <1>4, <1>5, <1>6, <2>b, SlotsAre DEF At, Holds, HasDir, HasInode, Where, Putting, Used
  <2>e. Balance(p)
    <3>1. \A y \in Slots : Pointing(y, cur[p], None, s, file[p], cwd[p]) = Num(p, y) + Is(y, None)
      BY <1>1, <1>2, <1>3, <1>4, <1>5, <1>6, SlotsAre DEF Num, One, Is, Pointing, Used
    <3>q. QED
      BY <1>1, <1>2, <1>3, <1>4, <1>5, <1>6, <2>b, <3>1, Balances
  <2>f. LongKept(p)
    BY <1>1, <1>2, <1>3, <1>4, <1>5, <1>6, <2>b DEF At, LongKept, Putting
  <2>q. QED
    BY <1>1, <1>2, <1>3, <1>4, <1>5, <1>6, <2>b, <2>c, <2>d, <2>e, <2>f DEF Did, Counts
<1>7. CASE file[p] = None /\ file' = [file EXCEPT ![p] = s] /\ Return(p) /\ UNCHANGED put
  <2>a. To(p, "user", then[p], NoCall, NoRest, cur[p], None, put[p], s, cwd[p])
    BY <1>1, <1>2, <1>3, <1>4, <1>5, <1>7 DEF UseExisting, Return, NoRest, Goto, long, Still, To
  <2>t. Fits("user", then[p], NoRest, cur[p], None, put[p], s, cwd[p])
    BY <1>2, <1>3, <1>5, <2>a DEF Fits, PC, Used
  <2>b. /\ Moves(p) /\ InodeTypes'
        /\ At(p, "user", then[p], NoCall, NoRest, cur[p], None, put[p], s, cwd[p])
    BY <1>2, <1>3, <1>5, <2>a, <2>t, Arrives
  <2>c. Stage(p)'
    BY <1>1, <1>2, <1>3, <1>4, <1>5, <1>7, <2>b, SlotsAre
       DEF At, Stage, Where, Doing, Putting, WithDir, WithInode, WithName, Used
  <2>d. Holds(p)'
    BY <1>1, <1>2, <1>3, <1>4, <1>5, <1>7, <2>b, SlotsAre DEF At, Holds, HasDir, HasInode, Where, Putting, Used
  <2>e. Balance(p)
    <3>1. \A y \in Slots : Pointing(y, cur[p], None, put[p], s, cwd[p]) = Num(p, y) + Is(y, None)
      BY <1>1, <1>2, <1>3, <1>4, <1>5, <1>7, SlotsAre DEF Num, One, Is, Pointing, Used
    <3>q. QED
      BY <1>1, <1>2, <1>3, <1>4, <1>5, <1>7, <2>b, <3>1, Balances
  <2>f. LongKept(p)
    BY <1>1, <1>2, <1>3, <1>4, <1>5, <1>7, <2>b DEF At, LongKept, Putting
  <2>q. QED
    BY <1>1, <1>2, <1>3, <1>4, <1>5, <1>7, <2>b, <2>c, <2>d, <2>e, <2>f DEF Did, Counts
<1>q. QED
  BY <1>6, <1>7 DEF UseExisting, Install

LEMMA CreateNewStep ==
  ASSUME InodeInv, NEW p \in Procs, CreateNew(p)
  PROVE  Did(p)
<1> DEFINE s == cur[p]
           ic == Loaded(s)
           x == SlotOf(ic, NewInum)
<1>1. /\ pc[p] \in {"create", "mkdir"} /\ Ilock(s) /\ FreeInums # {} /\ Get(ic, NewInum)
      /\ dinode' = [dinode EXCEPT ![NewInum] = [type |-> NewType(p), nlink |-> 0]]
      /\ dirent' = dirent /\ lock' = [lock EXCEPT ![s] = p]
  BY DEF CreateNew, NewInum
<1>2. InodeTypes /\ Good(icache, dinode) /\ Stage(p) /\ Holds(p) /\ Still(p) /\ dirent' \in DirentT
  BY <1>1, Begins DEF InodeTypes
<1>3. /\ ip[p] \in Slots \cup {None} /\ cur[p] \in Slots \cup {None} /\ put[p] \in Slots \cup {None}
      /\ file[p] \in Slots \cup {None} /\ Used(cwd[p]) /\ cwd[p] \in Slots /\ then[p] \in PC /\ rest[p] \in Seq(Entry)
      /\ Used(s) /\ s \in Slots /\ put[p] = None /\ ip[p] = None /\ rest[p] # <<>> /\ call[p] \in Calls[p]
  BY <1>1, <1>2, PointersUsed DEF Stage, Where, Doing, Putting, WithDir, WithInode, WithName, NoRest
<1>4. /\ Loads(ic, s) /\ Good(ic, dinode) /\ Keeps(icache, ic) /\ SameRefs(icache, ic)
      /\ ic[s].copy # Invalid
  BY <1>1, <1>3, FromLoaded
<1>5. NewType(p) \in {"file", "dir"}
  BY DEF NewType
<1>6. \A t \in Slots : ic[t].inum = icache[t].inum
  BY <1>4 DEF Loads
<1> HIDE DEF ic
<1>7. From(p, ic) /\ NewInum \in Inums
  BY <1>1, <1>4, <1>5, <1>6, AllocFrom
<1>8. Counts(p, x) /\ x \in Slots /\ icache'[s].copy # Invalid
  BY <1>1, <1>3, <1>4, <1>7, GetFrom DEF Used
<1>9. Locks(p) /\ Owned(s, p)
  BY <1>1, <1>2, <1>3, LockTaken DEF Ilock
<1>10. To(p, "new", then[p], call[p], rest[p], s, x, put[p], file[p], cwd[p])
  BY <1>1, <1>2 DEF CreateNew, NewInum, Goto, long, Still, To, ic
<1> HIDE DEF x
<1>t. Fits("new", then[p], rest[p], s, x, put[p], file[p], cwd[p])
  BY <1>2, <1>3, <1>8, <1>9, <1>10 DEF Fits, PC, Used
<1>b. /\ Moves(p) /\ InodeTypes'
      /\ At(p, "new", then[p], call[p], rest[p], s, x, put[p], file[p], cwd[p])
  BY <1>2, <1>3, <1>8, <1>9, <1>10, <1>t, Arrives
<1>c. Stage(p)'
  BY <1>1, <1>2, <1>3, <1>8, <1>9, <1>b, SlotsAre
     DEF At, Stage, Where, Doing, Putting, WithDir, WithInode, WithName, Used
<1>d. Holds(p)'
  BY <1>1, <1>2, <1>3, <1>8, <1>9, <1>b, SlotsAre
     DEF At, Holds, HasDir, HasInode, Where, Putting, Used, Has, Owned
<1>e. Balance(p)
  <2>1. \A y \in Slots : Pointing(y, s, x, put[p], file[p], cwd[p]) = Num(p, y) + Is(y, x)
    BY <1>1, <1>2, <1>3, <1>8, <1>9, SlotsAre DEF Num, One, Is, Pointing, Used
  <2>q. QED
    BY <1>1, <1>2, <1>3, <1>8, <1>9, <1>b, <2>1, Balances
<1>f. LongKept(p)
  BY <1>1, <1>2, <1>3, <1>8, <1>9, <1>b DEF At, LongKept, Putting
<1>q. QED
  BY <1>1, <1>2, <1>3, <1>8, <1>9, <1>b, <1>c, <1>d, <1>e, <1>f DEF Did, Counts

LEMMA CreateLinkStep ==
  ASSUME InodeInv, NEW p \in Procs, CreateLink(p)
  PROVE  Did(p)
<1> DEFINE s == ip[p]
           i == icache[s].inum
           d == cur[p]
           dd == icache[d].inum
           n == icache[d].copy.nlink + IF NewType(p) = "dir" THEN 1 ELSE 0
           ic == Loaded(s)
           one == 1
           new == WithLinks(ic[s].copy, one)
           jc == [ic EXCEPT ![s].copy = new]
           dn == [dinode EXCEPT ![i] = new]
           parent == WithLinks(jc[d].copy, n)
           kc == [jc EXCEPT ![d].copy = parent]
           en == [dn EXCEPT ![dd] = parent]
<1>1. /\ pc[p] = "new" /\ Ilock(s) /\ lock' = [lock EXCEPT ![s] = p, ![d] = NoProc]
  BY DEF CreateLink
<1>2. InodeTypes /\ Good(icache, dinode) /\ Stage(p) /\ Holds(p) /\ Still(p)
  BY Begins
<1>3. /\ ip[p] \in Slots \cup {None} /\ cur[p] \in Slots \cup {None} /\ put[p] \in Slots \cup {None}
      /\ file[p] \in Slots \cup {None} /\ Used(cwd[p]) /\ cwd[p] \in Slots /\ then[p] \in PC /\ rest[p] \in Seq(Entry)
      /\ Used(s) /\ s \in Slots /\ Used(d) /\ d \in Slots /\ put[p] = None /\ rest[p] # <<>> /\ call[p] \in Calls[p]
      /\ lock[d] = p /\ icache[d].copy # Invalid
  BY <1>1, <1>2, PointersUsed, Holders
     DEF HasDir, Stage, Where, Doing, Putting, WithDir, WithInode, WithName, NoRest
<1>4. s # d /\ lock[s] = NoProc
  BY <1>1, <1>3, NoProcAssumption DEF Ilock
<1>5. /\ Loads(ic, s) /\ Good(ic, dinode) /\ Keeps(icache, ic) /\ SameRefs(icache, ic)
      /\ ic[s].copy # Invalid /\ ic[s].ref > 0 /\ ic[s].inum = i /\ ic[s].copy = dinode[i] /\ i \in Inums
  BY <1>1, <1>3, FromLoaded
<1>6. (\A t \in Slots : ic[t].inum = icache[t].inum) /\ ic[d] = icache[d]
  BY <1>3, <1>4, <1>5 DEF Loads
<1>7. n \in Int /\ dd \in Inums /\ i # dd /\ icache[d].ref > 0
  <2>1. icache[d] \in EntryT /\ icache[d].copy \in DinodeT
    BY <1>2, <1>3 DEF Good, EntryT
  <2>2. i # dd
    BY <1>2, <1>3, <1>4 DEF Good, Used
  <2>q. QED
    BY <1>3, <2>1, <2>2 DEF EntryT, DinodeT, Used
<1>. one \in Int
  OBVIOUS
<1> HIDE DEF ic, n, one
<1>8. Writes(ic, dinode, jc, dn, s, new) /\ SameTypes(dinode, dn)
  BY <1>3, <1>5, UpdateIs
<1> HIDE DEF dn, jc
<1>9. Good(jc, dn) /\ jc[d] = icache[d]
  BY <1>3, <1>4, <1>6, <1>8 DEF Writes
<1>10. Writes(jc, dn, kc, en, d, parent) /\ SameTypes(dn, en)
  BY <1>3, <1>7, <1>9, UpdateIs
<1>11. icache' = kc /\ dinode' = en
  <2> DEFINE new0 == WithLinks(dinode[i], 1)
             parent0 == WithLinks(icache[d].copy, n)
  <2>1. /\ icache' = [icache EXCEPT ![s].copy = new0, ![d].copy = parent0]
        /\ dinode' = [dinode EXCEPT ![i] = new0, ![dd] = parent0]
    BY DEF CreateLink, n
  <2>2. new0 = new /\ parent0 = parent
    BY <1>5, <1>9 DEF one
  <2> HIDE DEF new0, parent0, new, parent
  <2>3. dinode' = en
    BY <2>1, <2>2 DEF en, dn
  <2>4. icache' = [[icache EXCEPT ![s].copy = new] EXCEPT ![d].copy = parent]
    BY <2>1, <2>2
  <2>5. jc = [icache EXCEPT ![s].copy = new]
    <3>1. /\ icache \in [Slots -> EntryT] /\ icache[s] \in EntryT
      BY <1>2, <1>3 DEF Good
    <3>2. jc = [ic EXCEPT ![s] = [ic[s] EXCEPT !.copy = new]]
      BY <1>3, <1>5 DEF jc, Good, Loads
    <3>3. [ic[s] EXCEPT !.copy = new] = [icache[s] EXCEPT !.copy = new]
      <4>1. ic[s] = [icache[s] EXCEPT
                       !.copy = IF icache[s].copy = Invalid THEN dinode[icache[s].inum] ELSE icache[s].copy]
        BY <1>3, <3>1 DEF ic, Loaded
      <4>q. QED
        BY <3>1, <4>1 DEF EntryT
    <3>4. ic \in [Slots -> EntryT] /\ \A t \in Slots : t # s => ic[t] = icache[t]
      BY <1>5 DEF Loads, Good
    <3>q. QED
      BY <1>3, <3>1, <3>2, <3>3, <3>4
  <2>q. QED
    BY <2>3, <2>4, <2>5 DEF kc
<1>12. From(p, icache')
  <2>1. Keeps(icache, jc) /\ SameRefs(icache, jc) /\ \A t \in Slots : jc[t].inum = icache[t].inum
    <3>1. \A t \in Slots : icache[t].ref \in Nat /\ ic[t].ref = icache[t].ref /\ jc[t].ref = ic[t].ref
                            /\ jc[t].inum = icache[t].inum
      BY <1>2, <1>5, <1>6, <1>8 DEF Good, EntryT, SameRefs, Writes
    <3>q. QED
      BY <1>5, <1>8, <3>1 DEF Keeps, SameRefs, Writes
  <2>q. QED
    BY <1>8, <1>10, <1>11, <2>1, WritesFrom
<1>13. Counts(p, None)
  BY <1>12, FromCounts
<1>14. icache'[s].copy # Invalid
  BY <1>3, <1>4, <1>8, <1>10, <1>11 DEF Writes
<1> HIDE DEF kc, en, new, parent
<1>15. Locks(p) /\ lock'[s] = p
  BY <1>1, <1>2, <1>3, <1>4 DEF Locks, InodeTypes
<1>16. dirent' \in DirentT
  <2> DEFINE m == Name(p)
             de == [dirent EXCEPT ![dd][m] = i]
             e == IF NewType(p) = "dir" THEN [Empty EXCEPT !["."] = i, ![".."] = dd] ELSE de[i]
  <2>1. m \in Entry /\ i \in 0..NInodes /\ dd \in 0..NInodes
    BY <1>3, <1>5, <1>7, NameIs, SizeAssumption DEF Inums
  <2>2. de \in DirentT
    BY <1>2, <1>7, <2>1, SetEntry DEF InodeTypes
  <2>3. e \in [Entry -> 0..NInodes]
    <3> HIDE DEF de
    <3>1. Empty \in [Entry -> 0..NInodes]
      BY SizeAssumption DEF Empty
    <3>2. \A f \in [Entry -> 0..NInodes] : [f EXCEPT !["."] = i, ![".."] = dd] \in [Entry -> 0..NInodes]
      BY <2>1
    <3>3. de[i] \in [Entry -> 0..NInodes]
      BY <1>5, <2>2 DEF DirentT
    <3>q. QED
      BY <3>1, <3>2, <3>3
  <2>4. dirent' = [de EXCEPT ![i] = e]
    <3>1. de[i] = dirent[i]
      BY <1>2, <1>5, <1>7 DEF InodeTypes, DirentT
    <3> HIDE DEF de
    <3>2. dirent' = [de EXCEPT ![i] = IF (IF NewType(p) = "dir" THEN 1 ELSE 0) = 1
                                      THEN [Empty EXCEPT !["."] = i, ![".."] = dd] ELSE @]
      BY <3>1 DEF CreateLink, de
    <3>3. e = IF (IF NewType(p) = "dir" THEN 1 ELSE 0) = 1
              THEN [Empty EXCEPT !["."] = i, ![".."] = dd] ELSE de[i]
      OBVIOUS
    <3> HIDE DEF e
    <3>q. QED
      BY <3>2, <3>3
  <2> HIDE DEF de, e
  <2>q. QED
    BY <1>5, <2>2, <2>3, <2>4 DEF DirentT
<1>17. To(p, "put", "created", call[p], rest[p], None, s, d, file[p], cwd[p])
  BY <1>1, <1>2 DEF CreateLink, DropDir, Put, long, Still, To
<1>t. Fits("put", "created", rest[p], None, s, d, file[p], cwd[p])
  BY <1>2, <1>3, <1>15, <1>16, <1>17 DEF Fits, PC, Used
<1>b. /\ Moves(p) /\ InodeTypes'
      /\ At(p, "put", "created", call[p], rest[p], None, s, d, file[p], cwd[p])
  BY <1>2, <1>3, <1>15, <1>16, <1>17, <1>t, Arrives
<1>c. Stage(p)'
  BY <1>1, <1>2, <1>3, <1>13, <1>14, <1>15, <1>16, <1>b, SlotsAre
     DEF At, Stage, Where, Doing, Putting, WithDir, WithInode, WithName, Used
<1>d. Holds(p)'
  BY <1>1, <1>2, <1>3, <1>13, <1>14, <1>15, <1>16, <1>b, SlotsAre
     DEF At, Holds, HasDir, HasInode, Where, Putting, Used, Has
<1>e. Balance(p)
  <2>1. \A y \in Slots : Pointing(y, None, s, d, file[p], cwd[p]) = Num(p, y) + Is(y, None)
    BY <1>1, <1>2, <1>3, <1>13, <1>14, <1>15, <1>16, SlotsAre DEF Num, One, Is, Pointing, Used
  <2>q. QED
    BY <1>1, <1>2, <1>3, <1>13, <1>14, <1>15, <1>16, <1>b, <2>1, Balances
<1>f. LongKept(p)
  BY <1>1, <1>2, <1>3, <1>13, <1>14, <1>15, <1>16, <1>b DEF At, LongKept, Putting
<1>q. QED
  BY <1>1, <1>2, <1>3, <1>13, <1>14, <1>15, <1>16, <1>b, <1>c, <1>d, <1>e, <1>f DEF Did, Counts

LEMMA CreatedStep ==
  ASSUME InodeInv, NEW p \in Procs, Created(p)
  PROVE  Did(p)
<1> DEFINE s == ip[p]
<1>1. /\ pc[p] = "created" /\ icache' = icache
      /\ dinode' = dinode /\ dirent' = dirent /\ lock' = [lock EXCEPT ![s] = NoProc]
  BY DEF Created, disk
<1>2. InodeTypes /\ Good(icache, dinode) /\ Stage(p) /\ Holds(p) /\ Still(p) /\ dirent' \in DirentT
  BY <1>1, Begins DEF InodeTypes
<1>3. /\ ip[p] \in Slots \cup {None} /\ cur[p] \in Slots \cup {None} /\ put[p] \in Slots \cup {None}
      /\ file[p] \in Slots \cup {None} /\ Used(cwd[p]) /\ cwd[p] \in Slots /\ then[p] \in PC /\ rest[p] \in Seq(Entry)
      /\ Used(s) /\ s \in Slots /\ lock[s] = p /\ icache[s].copy # Invalid
      /\ put[p] = None /\ cur[p] = None /\ NoRest \in Seq(Entry)
  BY <1>1, <1>2, PointersUsed, Holders
     DEF HasInode, Stage, Where, Doing, Putting, WithDir, WithInode, WithName, NoRest
<1>4. Counts(p, None) /\ dinode[icache[s].inum].type # "free"
  BY <1>1, <1>2, <1>3, NothingCounts DEF Good, Used
<1>5. Locks(p)
  BY <1>1, <1>2, <1>3, LockDropped
<1>6. CASE Fail(p, s)
  <2>a. To(p, "put", "user", call[p], rest[p], cur[p], None, s, file[p], cwd[p])
    BY <1>1, <1>2, <1>3, <1>4, <1>5, <1>6 DEF Created, Fail, Put, Goto, long, Still, To
  <2>t. Fits("put", "user", rest[p], cur[p], None, s, file[p], cwd[p])
    BY <1>2, <1>3, <1>5, <2>a DEF Fits, PC, Used
  <2>b. /\ Moves(p) /\ InodeTypes'
        /\ At(p, "put", "user", call[p], rest[p], cur[p], None, s, file[p], cwd[p])
    BY <1>2, <1>3, <1>5, <2>a, <2>t, Arrives
  <2>c. Stage(p)'
    BY <1>1, <1>2, <1>3, <1>4, <1>5, <1>6, <2>b, SlotsAre
       DEF At, Stage, Where, Doing, Putting, WithDir, WithInode, WithName, Used
  <2>d. Holds(p)'
    BY <1>1, <1>2, <1>3, <1>4, <1>5, <1>6, <2>b, SlotsAre DEF At, Holds, HasDir, HasInode, Where, Putting, Used
  <2>e. Balance(p)
    <3>1. \A y \in Slots : Pointing(y, cur[p], None, s, file[p], cwd[p]) = Num(p, y) + Is(y, None)
      BY <1>1, <1>2, <1>3, <1>4, <1>5, <1>6, SlotsAre DEF Num, One, Is, Pointing, Used
    <3>q. QED
      BY <1>1, <1>2, <1>3, <1>4, <1>5, <1>6, <2>b, <3>1, Balances
  <2>f. LongKept(p)
    BY <1>1, <1>2, <1>3, <1>4, <1>5, <1>6, <2>b DEF At, LongKept, Putting
  <2>q. QED
    BY <1>1, <1>2, <1>3, <1>4, <1>5, <1>6, <2>b, <2>c, <2>d, <2>e, <2>f DEF Did, Counts
<1>7. CASE file[p] = None /\ file' = [file EXCEPT ![p] = s] /\ Return(p) /\ UNCHANGED put
  <2>a. To(p, "user", then[p], NoCall, NoRest, cur[p], None, put[p], s, cwd[p])
    BY <1>1, <1>2, <1>3, <1>4, <1>5, <1>7 DEF Created, Return, NoRest, Goto, long, Still, To
  <2>t. Fits("user", then[p], NoRest, cur[p], None, put[p], s, cwd[p])
    BY <1>2, <1>3, <1>5, <2>a DEF Fits, PC, Used
  <2>b. /\ Moves(p) /\ InodeTypes'
        /\ At(p, "user", then[p], NoCall, NoRest, cur[p], None, put[p], s, cwd[p])
    BY <1>2, <1>3, <1>5, <2>a, <2>t, Arrives
  <2>c. Stage(p)'
    BY <1>1, <1>2, <1>3, <1>4, <1>5, <1>7, <2>b, SlotsAre
       DEF At, Stage, Where, Doing, Putting, WithDir, WithInode, WithName, Used
  <2>d. Holds(p)'
    BY <1>1, <1>2, <1>3, <1>4, <1>5, <1>7, <2>b, SlotsAre DEF At, Holds, HasDir, HasInode, Where, Putting, Used
  <2>e. Balance(p)
    <3>1. \A y \in Slots : Pointing(y, cur[p], None, put[p], s, cwd[p]) = Num(p, y) + Is(y, None)
      BY <1>1, <1>2, <1>3, <1>4, <1>5, <1>7, SlotsAre DEF Num, One, Is, Pointing, Used
    <3>q. QED
      BY <1>1, <1>2, <1>3, <1>4, <1>5, <1>7, <2>b, <3>1, Balances
  <2>f. LongKept(p)
    BY <1>1, <1>2, <1>3, <1>4, <1>5, <1>7, <2>b DEF At, LongKept, Putting
  <2>q. QED
    BY <1>1, <1>2, <1>3, <1>4, <1>5, <1>7, <2>b, <2>c, <2>d, <2>e, <2>f DEF Did, Counts
<1>q. QED
  BY <1>6, <1>7 DEF Created, Install

-----------------------------------------------------------------------------
(* sys_unlink and sys_link *)

LEMMA UnlinkFailsStep ==
  ASSUME InodeInv, NEW p \in Procs, UnlinkFails(p)
  PROVE  Did(p)
<1> DEFINE s == cur[p]
<1>1. /\ pc[p] = "unlink" /\ Ilock(s) /\ icache' = Loaded(s)
      /\ dinode' = dinode /\ dirent' = dirent /\ lock' = lock
  BY DEF UnlinkFails, disk
<1>2. InodeTypes /\ Good(icache, dinode) /\ Stage(p) /\ Holds(p) /\ Still(p) /\ dirent' \in DirentT
  BY <1>1, Begins DEF InodeTypes
<1>3. /\ ip[p] \in Slots \cup {None} /\ cur[p] \in Slots \cup {None} /\ put[p] \in Slots \cup {None}
      /\ file[p] \in Slots \cup {None} /\ Used(cwd[p]) /\ cwd[p] \in Slots /\ then[p] \in PC /\ rest[p] \in Seq(Entry)
      /\ Used(s) /\ s \in Slots /\ put[p] = None /\ ip[p] = None
  BY <1>1, <1>2, PointersUsed DEF Stage, Where, Doing, Putting, WithDir, WithInode, WithName, NoRest
<1>4. Counts(p, None) /\ Locks(p)
  BY <1>1, <1>2, <1>3, LoadCounts, LocksStay
<1>a. To(p, "put", "user", call[p], rest[p], None, ip[p], s, file[p], cwd[p])
  BY <1>1, <1>2, <1>3, <1>4 DEF UnlinkFails, DropDir, Put, long, Still, To
<1>t. Fits("put", "user", rest[p], None, ip[p], s, file[p], cwd[p])
  BY <1>2, <1>3, <1>4, <1>a DEF Fits, PC, Used
<1>b. /\ Moves(p) /\ InodeTypes'
      /\ At(p, "put", "user", call[p], rest[p], None, ip[p], s, file[p], cwd[p])
  BY <1>2, <1>3, <1>4, <1>a, <1>t, Arrives
<1>c. Stage(p)'
  BY <1>1, <1>2, <1>3, <1>4, <1>b, SlotsAre
     DEF At, Stage, Where, Doing, Putting, WithDir, WithInode, WithName, Used
<1>d. Holds(p)'
  BY <1>1, <1>2, <1>3, <1>4, <1>b, SlotsAre DEF At, Holds, HasDir, HasInode, Where, Putting, Used
<1>e. Balance(p)
  <2>1. \A y \in Slots : Pointing(y, None, ip[p], s, file[p], cwd[p]) = Num(p, y) + Is(y, None)
    BY <1>1, <1>2, <1>3, <1>4, SlotsAre DEF Num, One, Is, Pointing, Used
  <2>q. QED
    BY <1>1, <1>2, <1>3, <1>4, <1>b, <2>1, Balances
<1>f. LongKept(p)
  BY <1>1, <1>2, <1>3, <1>4, <1>b DEF At, LongKept, Putting
<1>q. QED
  BY <1>1, <1>2, <1>3, <1>4, <1>b, <1>c, <1>d, <1>e, <1>f DEF Did, Counts

LEMMA LinkRefusedStep ==
  ASSUME InodeInv, NEW p \in Procs, LinkRefused(p)
  PROVE  Did(p)
<1> DEFINE s == cur[p]
<1>1. /\ pc[p] = "link" /\ Ilock(s) /\ icache' = Loaded(s)
      /\ dinode' = dinode /\ dirent' = dirent /\ lock' = lock
  BY DEF LinkRefused, disk
<1>2. InodeTypes /\ Good(icache, dinode) /\ Stage(p) /\ Holds(p) /\ Still(p) /\ dirent' \in DirentT
  BY <1>1, Begins DEF InodeTypes
<1>3. /\ ip[p] \in Slots \cup {None} /\ cur[p] \in Slots \cup {None} /\ put[p] \in Slots \cup {None}
      /\ file[p] \in Slots \cup {None} /\ Used(cwd[p]) /\ cwd[p] \in Slots /\ then[p] \in PC /\ rest[p] \in Seq(Entry)
      /\ Used(s) /\ s \in Slots /\ put[p] = None /\ ip[p] = None
  BY <1>1, <1>2, PointersUsed DEF Stage, Where, Doing, Putting, WithDir, WithInode, WithName, NoRest
<1>4. Counts(p, None) /\ Locks(p)
  BY <1>1, <1>2, <1>3, LoadCounts, LocksStay
<1>a. To(p, "put", "user", call[p], rest[p], None, ip[p], s, file[p], cwd[p])
  BY <1>1, <1>2, <1>3, <1>4 DEF LinkRefused, DropDir, Put, long, Still, To
<1>t. Fits("put", "user", rest[p], None, ip[p], s, file[p], cwd[p])
  BY <1>2, <1>3, <1>4, <1>a DEF Fits, PC, Used
<1>b. /\ Moves(p) /\ InodeTypes'
      /\ At(p, "put", "user", call[p], rest[p], None, ip[p], s, file[p], cwd[p])
  BY <1>2, <1>3, <1>4, <1>a, <1>t, Arrives
<1>c. Stage(p)'
  BY <1>1, <1>2, <1>3, <1>4, <1>b, SlotsAre
     DEF At, Stage, Where, Doing, Putting, WithDir, WithInode, WithName, Used
<1>d. Holds(p)'
  BY <1>1, <1>2, <1>3, <1>4, <1>b, SlotsAre DEF At, Holds, HasDir, HasInode, Where, Putting, Used
<1>e. Balance(p)
  <2>1. \A y \in Slots : Pointing(y, None, ip[p], s, file[p], cwd[p]) = Num(p, y) + Is(y, None)
    BY <1>1, <1>2, <1>3, <1>4, SlotsAre DEF Num, One, Is, Pointing, Used
  <2>q. QED
    BY <1>1, <1>2, <1>3, <1>4, <1>b, <2>1, Balances
<1>f. LongKept(p)
  BY <1>1, <1>2, <1>3, <1>4, <1>b DEF At, LongKept, Putting
<1>q. QED
  BY <1>1, <1>2, <1>3, <1>4, <1>b, <1>c, <1>d, <1>e, <1>f DEF Did, Counts

LEMMA UnlinkFindStep ==
  ASSUME InodeInv, NEW p \in Procs, UnlinkFind(p)
  PROVE  Did(p)
<1> DEFINE s == cur[p]
           t == Here(p)[Name(p)]
           x == SlotOf(Loaded(s), t)
<1>1. /\ pc[p] = "unlink" /\ Ilock(s) /\ t # 0 /\ Get(Loaded(s), t)
      /\ dinode' = dinode /\ dirent' = dirent /\ lock' = [lock EXCEPT ![s] = p]
  BY DEF UnlinkFind, disk
<1>2. InodeTypes /\ Good(icache, dinode) /\ Stage(p) /\ Holds(p) /\ Still(p) /\ dirent' \in DirentT
  BY <1>1, Begins DEF InodeTypes
<1>3. /\ ip[p] \in Slots \cup {None} /\ cur[p] \in Slots \cup {None} /\ put[p] \in Slots \cup {None}
      /\ file[p] \in Slots \cup {None} /\ Used(cwd[p]) /\ cwd[p] \in Slots /\ then[p] \in PC /\ rest[p] \in Seq(Entry)
      /\ Used(s) /\ s \in Slots /\ ip[p] = None
      /\ put[p] = None /\ rest[p] # <<>> /\ call[p] \in Calls[p]
  BY <1>1, <1>2, PointersUsed DEF Stage, Where, Doing, Putting, WithDir, WithInode, WithName, NoRest
<1>4. t \in Inums /\ call[p].op = "unlink"
  BY <1>1, <1>2, <1>3, NameIs DEF Stage, Where, Doing, Putting
<1>5. Counts(p, x) /\ x \in Slots /\ icache'[s].copy # Invalid
  BY <1>1, <1>3, <1>4, GetCounts
<1>6. Locks(p) /\ Owned(s, p)
  BY <1>1, <1>2, <1>3, LockTaken DEF Ilock
<1>7. To(p, "victim", then[p], call[p], rest[p], s, x, put[p], file[p], cwd[p])
  BY <1>1, <1>2 DEF UnlinkFind, Goto, long, Still, To
<1> HIDE DEF x, t
<1>t. Fits("victim", then[p], rest[p], s, x, put[p], file[p], cwd[p])
  BY <1>2, <1>3, <1>5, <1>6, <1>7 DEF Fits, PC, Used
<1>b. /\ Moves(p) /\ InodeTypes'
      /\ At(p, "victim", then[p], call[p], rest[p], s, x, put[p], file[p], cwd[p])
  BY <1>2, <1>3, <1>5, <1>6, <1>7, <1>t, Arrives
<1>c. Stage(p)'
  BY <1>1, <1>2, <1>3, <1>4, <1>5, <1>6, <1>b, SlotsAre
     DEF At, Stage, Where, Doing, Putting, WithDir, WithInode, WithName, Used
<1>d. Holds(p)'
  BY <1>1, <1>2, <1>3, <1>4, <1>5, <1>6, <1>b, SlotsAre
     DEF At, Holds, HasDir, HasInode, Where, Putting, Used, Has, Owned
<1>e. Balance(p)
  <2>1. \A y \in Slots : Pointing(y, s, x, put[p], file[p], cwd[p]) = Num(p, y) + Is(y, x)
    BY <1>1, <1>2, <1>3, <1>4, <1>5, <1>6, SlotsAre DEF Num, One, Is, Pointing, Used
  <2>q. QED
    BY <1>1, <1>2, <1>3, <1>4, <1>5, <1>6, <1>b, <2>1, Balances
<1>f. LongKept(p)
  BY <1>1, <1>2, <1>3, <1>4, <1>5, <1>6, <1>b DEF At, LongKept, Putting
<1>q. QED
  BY <1>1, <1>2, <1>3, <1>4, <1>5, <1>6, <1>b, <1>c, <1>d, <1>e, <1>f DEF Did, Counts

LEMMA UnlinkRefusedStep ==
  ASSUME InodeInv, NEW p \in Procs, UnlinkRefused(p)
  PROVE  Did(p)
<1> DEFINE s == ip[p]
           d == cur[p]
<1>1. /\ pc[p] = "victim" /\ Ilock(s) /\ icache' = Loaded(s)
      /\ dinode' = dinode /\ dirent' = dirent /\ lock' = lock
  BY DEF UnlinkRefused, disk
<1>2. InodeTypes /\ Good(icache, dinode) /\ Stage(p) /\ Holds(p) /\ Still(p) /\ dirent' \in DirentT
  BY <1>1, Begins DEF InodeTypes
<1>3. /\ ip[p] \in Slots \cup {None} /\ cur[p] \in Slots \cup {None} /\ put[p] \in Slots \cup {None}
      /\ file[p] \in Slots \cup {None} /\ Used(cwd[p]) /\ cwd[p] \in Slots /\ then[p] \in PC /\ rest[p] \in Seq(Entry)
      /\ Used(s) /\ s \in Slots /\ Used(d) /\ d \in Slots /\ lock[d] = p /\ icache[d].copy # Invalid
      /\ put[p] = None /\ rest[p] # <<>> /\ call[p] \in Calls[p]
  BY <1>1, <1>2, PointersUsed, Holders
     DEF HasDir, Stage, Where, Doing, Putting, WithDir, WithInode, WithName, NoRest
<1>4. Counts(p, None) /\ Locks(p)
  BY <1>1, <1>2, <1>3, LoadCounts, LocksStay
<1>5. icache'[d].copy # Invalid
  BY <1>1, <1>3, <1>4 DEF Counts, KeepsOthers, Frees, Used
<1>a. To(p, "put", "unlockdp", call[p], rest[p], d, None, s, file[p], cwd[p])
  BY <1>1, <1>2, <1>3, <1>4, <1>5 DEF UnlinkRefused, Put, long, Still, To
<1>t. Fits("put", "unlockdp", rest[p], d, None, s, file[p], cwd[p])
  BY <1>2, <1>3, <1>4, <1>a DEF Fits, PC, Used
<1>b. /\ Moves(p) /\ InodeTypes'
      /\ At(p, "put", "unlockdp", call[p], rest[p], d, None, s, file[p], cwd[p])
  BY <1>2, <1>3, <1>4, <1>a, <1>t, Arrives
<1>c. Stage(p)'
  BY <1>1, <1>2, <1>3, <1>4, <1>5, <1>b, SlotsAre
     DEF At, Stage, Where, Doing, Putting, WithDir, WithInode, WithName, Used
<1>d. Holds(p)'
  BY <1>1, <1>2, <1>3, <1>4, <1>5, <1>b, SlotsAre DEF At, Holds, HasDir, HasInode, Where, Putting, Used, Has
<1>e. Balance(p)
  <2>1. \A y \in Slots : Pointing(y, d, None, s, file[p], cwd[p]) = Num(p, y) + Is(y, None)
    BY <1>1, <1>2, <1>3, <1>4, <1>5, SlotsAre DEF Num, One, Is, Pointing, Used
  <2>q. QED
    BY <1>1, <1>2, <1>3, <1>4, <1>5, <1>b, <2>1, Balances
<1>f. LongKept(p)
  BY <1>1, <1>2, <1>3, <1>4, <1>5, <1>b DEF At, LongKept, Putting
<1>q. QED
  BY <1>1, <1>2, <1>3, <1>4, <1>5, <1>b, <1>c, <1>d, <1>e, <1>f DEF Did, Counts

LEMMA UnlockDirStep ==
  ASSUME InodeInv, NEW p \in Procs, UnlockDir(p)
  PROVE  Did(p)
<1> DEFINE d == cur[p]
<1>1. /\ pc[p] = "unlockdp" /\ icache' = icache
      /\ dinode' = dinode /\ dirent' = dirent /\ lock' = [lock EXCEPT ![d] = NoProc]
  BY DEF UnlockDir, disk
<1>2. InodeTypes /\ Good(icache, dinode) /\ Stage(p) /\ Holds(p) /\ Still(p) /\ dirent' \in DirentT
  BY <1>1, Begins DEF InodeTypes
<1>3. /\ ip[p] \in Slots \cup {None} /\ cur[p] \in Slots \cup {None} /\ put[p] \in Slots \cup {None}
      /\ file[p] \in Slots \cup {None} /\ Used(cwd[p]) /\ cwd[p] \in Slots /\ then[p] \in PC /\ rest[p] \in Seq(Entry)
      /\ Used(d) /\ d \in Slots /\ lock[d] = p /\ put[p] = None
      /\ call[p] \in Calls[p] /\ (ip[p] # None => call[p].op = "link")
  BY <1>1, <1>2, PointersUsed, Holders
     DEF HasDir, Stage, Where, Doing, Putting, WithDir, WithInode, WithName, NoRest
<1>4. Counts(p, None) /\ Locks(p)
  BY <1>1, <1>2, <1>3, NothingCounts, LockDropped
<1>5. Failed(p) \in {"bad", "user"} /\ (Failed(p) = "bad" <=> ip[p] # None)
  BY <1>3 DEF Failed, Relinking
<1>a. To(p, "put", Failed(p), call[p], rest[p], None, ip[p], d, file[p], cwd[p])
  BY <1>1, <1>2, <1>3, <1>4, <1>5 DEF UnlockDir, DropDir, Put, long, Still, To
<1>t. Fits("put", Failed(p), rest[p], None, ip[p], d, file[p], cwd[p])
  BY <1>2, <1>3, <1>4, <1>5, <1>a DEF Fits, PC, Used
<1>b. /\ Moves(p) /\ InodeTypes'
      /\ At(p, "put", Failed(p), call[p], rest[p], None, ip[p], d, file[p], cwd[p])
  BY <1>2, <1>3, <1>4, <1>5, <1>a, <1>t, Arrives
<1>c. Stage(p)'
  BY <1>1, <1>2, <1>3, <1>4, <1>5, <1>b, SlotsAre
     DEF At, Stage, Where, Doing, Putting, WithDir, WithInode, WithName, Used
<1>d. Holds(p)'
  BY <1>1, <1>2, <1>3, <1>4, <1>5, <1>b, SlotsAre DEF At, Holds, HasDir, HasInode, Where, Putting, Used
<1>e. Balance(p)
  <2>1. \A y \in Slots : Pointing(y, None, ip[p], d, file[p], cwd[p]) = Num(p, y) + Is(y, None)
    BY <1>1, <1>2, <1>3, <1>4, <1>5, SlotsAre DEF Num, One, Is, Pointing, Used
  <2>q. QED
    BY <1>1, <1>2, <1>3, <1>4, <1>5, <1>b, <2>1, Balances
<1>f. LongKept(p)
  BY <1>1, <1>2, <1>3, <1>4, <1>5, <1>b DEF At, LongKept, Putting
<1>q. QED
  BY <1>1, <1>2, <1>3, <1>4, <1>5, <1>b, <1>c, <1>d, <1>e, <1>f DEF Did, Counts

LEMMA UnlinkEntryStep ==
  ASSUME InodeInv, NEW p \in Procs, UnlinkEntry(p)
  PROVE  Did(p)
<1> DEFINE s == ip[p]
           d == cur[p]
           ic == Loaded(s)
           n == ic[d].copy.nlink - IF ic[s].copy.type = "dir" THEN 1 ELSE 0
           parent == WithLinks(ic[d].copy, n)
           jc == [ic EXCEPT ![d].copy = parent]
           en == [dinode EXCEPT ![ic[d].inum] = parent]
<1>1. /\ pc[p] = "victim" /\ Ilock(s) /\ lock' = [lock EXCEPT ![s] = p, ![d] = NoProc]
      /\ dirent' = [dirent EXCEPT ![icache[d].inum][Name(p)] = 0]
      /\ icache' = jc /\ dinode' = [dinode EXCEPT ![icache[d].inum] = parent]
  BY DEF UnlinkEntry, Update
<1>2. InodeTypes /\ Good(icache, dinode) /\ Stage(p) /\ Holds(p) /\ Still(p)
  BY Begins
<1>3. /\ ip[p] \in Slots \cup {None} /\ cur[p] \in Slots \cup {None} /\ put[p] \in Slots \cup {None}
      /\ file[p] \in Slots \cup {None} /\ Used(cwd[p]) /\ cwd[p] \in Slots /\ then[p] \in PC /\ rest[p] \in Seq(Entry)
      /\ Used(s) /\ s \in Slots /\ Used(d) /\ d \in Slots /\ lock[d] = p /\ icache[d].copy # Invalid
      /\ put[p] = None /\ rest[p] # <<>> /\ call[p] \in Calls[p]
  BY <1>1, <1>2, PointersUsed, Holders
     DEF HasDir, Stage, Where, Doing, Putting, WithDir, WithInode, WithName, NoRest
<1>4. s # d /\ lock[s] = NoProc
  BY <1>1, <1>3, NoProcAssumption DEF Ilock
<1>5. /\ Loads(ic, s) /\ Good(ic, dinode) /\ Keeps(icache, ic) /\ SameRefs(icache, ic)
      /\ ic[s].copy # Invalid /\ ic[s].ref > 0
  BY <1>1, <1>3, FromLoaded
<1>6. (\A t \in Slots : ic[t].inum = icache[t].inum) /\ ic[d] = icache[d] /\ icache[d].inum \in Inums
  BY <1>2, <1>3, <1>4, <1>5 DEF Loads, Good, EntryT
<1> HIDE DEF ic
<1>7. n \in Int /\ ic[d].ref > 0 /\ ic[d].copy # Invalid
  <2>1. icache[d] \in EntryT /\ icache[d].copy \in DinodeT
    BY <1>2, <1>3 DEF Good, EntryT
  <2>q. QED
    BY <1>3, <1>6, <2>1 DEF DinodeT, Used
<1> HIDE DEF n
<1>8. Writes(ic, dinode, jc, en, d, parent) /\ SameTypes(dinode, en)
  BY <1>3, <1>5, <1>7, UpdateIs
<1>9. icache' = jc /\ dinode' = en /\ SameTypes(dinode, dinode)
  BY <1>1, <1>6 DEF SameTypes
<1> HIDE DEF jc, en, parent
<1>10. From(p, icache')
  BY <1>5, <1>6, <1>8, <1>9, WritesFrom
<1>11. Counts(p, None)
  BY <1>10, FromCounts
<1>12. icache'[s].copy # Invalid
  BY <1>3, <1>4, <1>5, <1>8, <1>9 DEF Writes
<1>13. Locks(p) /\ lock'[s] = p
  BY <1>1, <1>2, <1>3, <1>4 DEF Locks, InodeTypes
<1>14. dirent' \in DirentT
  <2>1. Name(p) \in Entry /\ 0 \in 0..NInodes
    BY <1>3, NameIs, SizeAssumption
  <2>q. QED
    BY <1>1, <1>2, <1>6, <2>1, SetEntry DEF InodeTypes
<1>15. call[p].op = "unlink"
  BY <1>1, <1>2 DEF Stage, Where, Doing, Putting
<1>16. To(p, "put", "unlinked", call[p], rest[p], None, s, d, file[p], cwd[p])
  BY <1>1, <1>2 DEF UnlinkEntry, DropDir, Put, long, Still, To
<1>t. Fits("put", "unlinked", rest[p], None, s, d, file[p], cwd[p])
  BY <1>2, <1>3, <1>13, <1>14, <1>16 DEF Fits, PC, Used
<1>b. /\ Moves(p) /\ InodeTypes'
      /\ At(p, "put", "unlinked", call[p], rest[p], None, s, d, file[p], cwd[p])
  BY <1>2, <1>3, <1>13, <1>14, <1>16, <1>t, Arrives
<1>c. Stage(p)'
  BY <1>1, <1>2, <1>3, <1>11, <1>12, <1>13, <1>14, <1>15, <1>b, SlotsAre
     DEF At, Stage, Where, Doing, Putting, WithDir, WithInode, WithName, Used
<1>d. Holds(p)'
  BY <1>1, <1>2, <1>3, <1>11, <1>12, <1>13, <1>14, <1>15, <1>b, SlotsAre
     DEF At, Holds, HasDir, HasInode, Where, Putting, Used, Has
<1>e. Balance(p)
  <2>1. \A y \in Slots : Pointing(y, None, s, d, file[p], cwd[p]) = Num(p, y) + Is(y, None)
    BY <1>1, <1>2, <1>3, <1>11, <1>12, <1>13, <1>14, <1>15, SlotsAre DEF Num, One, Is, Pointing, Used
  <2>q. QED
    BY <1>1, <1>2, <1>3, <1>11, <1>12, <1>13, <1>14, <1>15, <1>b, <2>1, Balances
<1>f. LongKept(p)
  BY <1>1, <1>2, <1>3, <1>11, <1>12, <1>13, <1>14, <1>15, <1>b DEF At, LongKept, Putting
<1>q. QED
  BY <1>1, <1>2, <1>3, <1>11, <1>12, <1>13, <1>14, <1>15, <1>b, <1>c, <1>d, <1>e, <1>f DEF Did, Counts

LEMMA UnlinkedStep ==
  ASSUME InodeInv, NEW p \in Procs, Unlinked(p)
  PROVE  Did(p)
<1> DEFINE s == ip[p]
           n == icache[s].copy.nlink - 1
           d == WithLinks(icache[s].copy, n)
           jc == [icache EXCEPT ![s].copy = d]
           en == [dinode EXCEPT ![icache[s].inum] = d]
<1>1. /\ pc[p] = "unlinked" /\ lock' = [lock EXCEPT ![s] = NoProc] /\ dirent' = dirent
      /\ icache' = jc /\ dinode' = en
  BY DEF Unlinked, Update
<1>2. InodeTypes /\ Good(icache, dinode) /\ Stage(p) /\ Holds(p) /\ Still(p) /\ dirent' \in DirentT
  BY <1>1, Begins DEF InodeTypes
<1>3. /\ ip[p] \in Slots \cup {None} /\ cur[p] \in Slots \cup {None} /\ put[p] \in Slots \cup {None}
      /\ file[p] \in Slots \cup {None} /\ Used(cwd[p]) /\ cwd[p] \in Slots /\ then[p] \in PC /\ rest[p] \in Seq(Entry)
      /\ Used(s) /\ s \in Slots /\ lock[s] = p /\ icache[s].copy # Invalid /\ put[p] = None /\ cur[p] = None
  BY <1>1, <1>2, PointersUsed, Holders
     DEF HasInode, Stage, Where, Doing, Putting, WithDir, WithInode, WithName, NoRest
<1>4. n \in Int /\ icache[s].ref > 0
  <2>1. icache[s] \in EntryT /\ icache[s].copy \in DinodeT
    BY <1>2, <1>3 DEF Good, EntryT
  <2>q. QED
    BY <1>3, <2>1 DEF DinodeT, Used
<1> HIDE DEF n
<1>5. Writes(icache, dinode, jc, en, s, d) /\ SameTypes(dinode, en)
  BY <1>2, <1>3, <1>4, UpdateIs
<1> HIDE DEF jc, en, d
<1>6. Keeps(icache, icache) /\ SameRefs(icache, icache) /\ SameTypes(dinode, dinode)
  BY DEF Keeps, SameRefs, SameTypes
<1>7. From(p, icache')
  BY <1>1, <1>5, <1>6, WritesFrom
<1>8. Counts(p, None) /\ Locks(p)
  BY <1>1, <1>2, <1>3, <1>7, FromCounts, LockDropped
<1>a. To(p, "put", "user", call[p], rest[p], cur[p], None, s, file[p], cwd[p])
  BY <1>1, <1>2, <1>3, <1>8 DEF Unlinked, Put, long, Still, To
<1>t. Fits("put", "user", rest[p], cur[p], None, s, file[p], cwd[p])
  BY <1>2, <1>3, <1>8, <1>a DEF Fits, PC, Used
<1>b. /\ Moves(p) /\ InodeTypes'
      /\ At(p, "put", "user", call[p], rest[p], cur[p], None, s, file[p], cwd[p])
  BY <1>2, <1>3, <1>8, <1>a, <1>t, Arrives
<1>c. Stage(p)'
  BY <1>1, <1>2, <1>3, <1>8, <1>b, SlotsAre
     DEF At, Stage, Where, Doing, Putting, WithDir, WithInode, WithName, Used
<1>d. Holds(p)'
  BY <1>1, <1>2, <1>3, <1>8, <1>b, SlotsAre DEF At, Holds, HasDir, HasInode, Where, Putting, Used
<1>e. Balance(p)
  <2>1. \A y \in Slots : Pointing(y, cur[p], None, s, file[p], cwd[p]) = Num(p, y) + Is(y, None)
    BY <1>1, <1>2, <1>3, <1>8, SlotsAre DEF Num, One, Is, Pointing, Used
  <2>q. QED
    BY <1>1, <1>2, <1>3, <1>8, <1>b, <2>1, Balances
<1>f. LongKept(p)
  BY <1>1, <1>2, <1>3, <1>8, <1>b DEF At, LongKept, Putting
<1>q. QED
  BY <1>1, <1>2, <1>3, <1>8, <1>b, <1>c, <1>d, <1>e, <1>f DEF Did, Counts

LEMMA LinkOldStep ==
  ASSUME InodeInv, NEW p \in Procs, LinkOld(p)
  PROVE  Did(p)
<1> DEFINE s == cur[p]
           ic == Loaded(s)
           n == ic[s].copy.nlink + 1
           d == WithLinks(ic[s].copy, n)
           jc == [ic EXCEPT ![s].copy = d]
           en == [dinode EXCEPT ![ic[s].inum] = d]
           i == IF call[p].abs THEN Root ELSE jc[cwd[p]].inum
           x == SlotOf(jc, i)
<1>1. /\ pc[p] = "link" /\ Ilock(s) /\ dirent' = dirent /\ lock' = lock
      /\ dinode' = [dinode EXCEPT ![icache[s].inum] = d] /\ Get(jc, i)
  BY DEF LinkOld, Namex
<1>2. InodeTypes /\ Good(icache, dinode) /\ Stage(p) /\ Holds(p) /\ Still(p) /\ dirent' \in DirentT
  BY <1>1, Begins DEF InodeTypes
<1>3. /\ ip[p] \in Slots \cup {None} /\ cur[p] \in Slots \cup {None} /\ put[p] \in Slots \cup {None}
      /\ file[p] \in Slots \cup {None} /\ Used(cwd[p]) /\ cwd[p] \in Slots /\ then[p] \in PC /\ rest[p] \in Seq(Entry)
      /\ Used(s) /\ s \in Slots /\ put[p] = None /\ ip[p] = None /\ call[p] \in Calls[p] /\ call[p].op = "link"
  BY <1>1, <1>2, PointersUsed DEF Stage, Where, Doing, Putting, WithDir, WithInode, WithName, NoRest
<1>4. call[p].new \in Seq(Entry) /\ call[p].new # <<>>
  BY <1>3, CallsAssumption DEF Paths
<1>5. /\ Loads(ic, s) /\ Good(ic, dinode) /\ Keeps(icache, ic) /\ SameRefs(icache, ic)
      /\ ic[s].copy # Invalid /\ ic[s].ref > 0 /\ ic[s].inum = icache[s].inum
      /\ \A t \in Slots : ic[t].inum = icache[t].inum
  BY <1>1, <1>3, FromLoaded DEF Loads
<1>6. To(p, "walk", then[p], call[p], call[p].new, x, s, put[p], file[p], cwd[p])
  BY <1>1, <1>2 DEF LinkOld, Namex, Goto, long, Still, To
<1> HIDE DEF ic, i, x
<1>7. n \in Int
  <2>1. ic[s] \in EntryT /\ ic[s].copy \in DinodeT
    BY <1>3, <1>5 DEF Good, EntryT
  <2>q. QED
    BY <2>1 DEF DinodeT
<1> HIDE DEF n
<1>8. Writes(ic, dinode, jc, en, s, d) /\ SameTypes(dinode, en)
  BY <1>3, <1>5, <1>7, UpdateIs
<1>9. dinode' = en /\ SameTypes(dinode, dinode)
  BY <1>1, <1>5 DEF SameTypes
<1> HIDE DEF jc, en, d
<1>10. From(p, jc)
  BY <1>5, <1>8, <1>9, WritesFrom
<1>11. i \in Inums
  BY <1>2, <1>3, <1>8, SlotsAre DEF i, Used, Writes, Good, EntryT
<1>12. Counts(p, x) /\ x \in Slots
  BY <1>1, <1>10, <1>11, GetFrom DEF x
<1>13. Locks(p)
  BY <1>1, <1>2, LocksStay
<1>t. Fits("walk", then[p], call[p].new, x, s, put[p], file[p], cwd[p])
  BY <1>2, <1>3, <1>4, <1>12, <1>13, <1>6 DEF Fits, PC, Used
<1>b. /\ Moves(p) /\ InodeTypes'
      /\ At(p, "walk", then[p], call[p], call[p].new, x, s, put[p], file[p], cwd[p])
  BY <1>2, <1>3, <1>4, <1>12, <1>13, <1>6, <1>t, Arrives
<1>c. Stage(p)'
  BY <1>1, <1>2, <1>3, <1>4, <1>12, <1>13, <1>b, SlotsAre
     DEF At, Stage, Where, Doing, Putting, WithDir, WithInode, WithName, Used
<1>d. Holds(p)'
  BY <1>1, <1>2, <1>3, <1>4, <1>12, <1>13, <1>b, SlotsAre DEF At, Holds, HasDir, HasInode, Where, Putting, Used
<1>e. Balance(p)
  <2>1. \A y \in Slots : Pointing(y, x, s, put[p], file[p], cwd[p]) = Num(p, y) + Is(y, x)
    BY <1>1, <1>2, <1>3, <1>4, <1>12, <1>13, SlotsAre DEF Num, One, Is, Pointing, Used
  <2>q. QED
    BY <1>1, <1>2, <1>3, <1>4, <1>12, <1>13, <1>b, <2>1, Balances
<1>f. LongKept(p)
  BY <1>1, <1>2, <1>3, <1>4, <1>12, <1>13, <1>b DEF At, LongKept, Putting
<1>q. QED
  BY <1>1, <1>2, <1>3, <1>4, <1>12, <1>13, <1>b, <1>c, <1>d, <1>e, <1>f DEF Did, Counts

LEMMA LinkNewStep ==
  ASSUME InodeInv, NEW p \in Procs, LinkNew(p)
  PROVE  Did(p)
<1> DEFINE s == cur[p]
<1>1. /\ pc[p] = "linkdp" /\ Ilock(s) /\ icache' = Loaded(s) /\ dinode' = dinode /\ lock' = lock
      /\ dirent' = [dirent EXCEPT ![icache[s].inum][Name(p)] = icache[ip[p]].inum]
  BY DEF LinkNew
<1>2. InodeTypes /\ Good(icache, dinode) /\ Stage(p) /\ Holds(p) /\ Still(p)
  BY Begins
<1>3. /\ ip[p] \in Slots \cup {None} /\ cur[p] \in Slots \cup {None} /\ put[p] \in Slots \cup {None}
      /\ file[p] \in Slots \cup {None} /\ Used(cwd[p]) /\ cwd[p] \in Slots /\ then[p] \in PC /\ rest[p] \in Seq(Entry)
      /\ Used(s) /\ s \in Slots /\ Used(ip[p]) /\ call[p].op = "link"
      /\ put[p] = None /\ rest[p] # <<>> /\ call[p] \in Calls[p]
  BY <1>1, <1>2, PointersUsed DEF Stage, Where, Doing, Putting, WithDir, WithInode, WithName, NoRest
<1>4. Counts(p, None) /\ Locks(p)
  BY <1>1, <1>2, <1>3, LoadCounts, LocksStay
<1>5. dirent' \in DirentT
  <2>1. Name(p) \in Entry
    BY <1>3, NameIs
  <2>2. icache[s].inum \in Inums /\ icache[ip[p]].inum \in 0..NInodes
    BY <1>2, <1>3, SizeAssumption DEF Used, Good, EntryT, Inums
  <2>q. QED
    BY <1>1, <1>2, <2>1, <2>2, SetEntry DEF InodeTypes
<1>a. To(p, "put", "linked", call[p], rest[p], None, ip[p], s, file[p], cwd[p])
  BY <1>1, <1>2, <1>3, <1>4, <1>5 DEF LinkNew, DropDir, Put, long, Still, To
<1>t. Fits("put", "linked", rest[p], None, ip[p], s, file[p], cwd[p])
  BY <1>2, <1>3, <1>4, <1>5, <1>a DEF Fits, PC, Used
<1>b. /\ Moves(p) /\ InodeTypes'
      /\ At(p, "put", "linked", call[p], rest[p], None, ip[p], s, file[p], cwd[p])
  BY <1>2, <1>3, <1>4, <1>5, <1>a, <1>t, Arrives
<1>c. Stage(p)'
  BY <1>1, <1>2, <1>3, <1>4, <1>5, <1>b, SlotsAre
     DEF At, Stage, Where, Doing, Putting, WithDir, WithInode, WithName, Used
<1>d. Holds(p)'
  BY <1>1, <1>2, <1>3, <1>4, <1>5, <1>b, SlotsAre DEF At, Holds, HasDir, HasInode, Where, Putting, Used
<1>e. Balance(p)
  <2>1. \A y \in Slots : Pointing(y, None, ip[p], s, file[p], cwd[p]) = Num(p, y) + Is(y, None)
    BY <1>1, <1>2, <1>3, <1>4, <1>5, SlotsAre DEF Num, One, Is, Pointing, Used
  <2>q. QED
    BY <1>1, <1>2, <1>3, <1>4, <1>5, <1>b, <2>1, Balances
<1>f. LongKept(p)
  BY <1>1, <1>2, <1>3, <1>4, <1>5, <1>b DEF At, LongKept, Putting
<1>q. QED
  BY <1>1, <1>2, <1>3, <1>4, <1>5, <1>b, <1>c, <1>d, <1>e, <1>f DEF Did, Counts

LEMMA LinkTakenStep ==
  ASSUME InodeInv, NEW p \in Procs, LinkTaken(p)
  PROVE  Did(p)
<1> DEFINE s == cur[p]
           t == Here(p)[Name(p)]
           x == SlotOf(Loaded(s), t)
<1>1. /\ pc[p] = "linkdp" /\ Ilock(s) /\ t # 0 /\ Get(Loaded(s), t)
      /\ dinode' = dinode /\ dirent' = dirent /\ lock' = [lock EXCEPT ![s] = p]
  BY DEF LinkTaken, disk
<1>2. InodeTypes /\ Good(icache, dinode) /\ Stage(p) /\ Holds(p) /\ Still(p) /\ dirent' \in DirentT
  BY <1>1, Begins DEF InodeTypes
<1>3. /\ ip[p] \in Slots \cup {None} /\ cur[p] \in Slots \cup {None} /\ put[p] \in Slots \cup {None}
      /\ file[p] \in Slots \cup {None} /\ Used(cwd[p]) /\ cwd[p] \in Slots /\ then[p] \in PC /\ rest[p] \in Seq(Entry)
      /\ Used(s) /\ s \in Slots /\ call[p].op = "link"
      /\ put[p] = None /\ rest[p] # <<>> /\ call[p] \in Calls[p]
  BY <1>1, <1>2, PointersUsed DEF Stage, Where, Doing, Putting, WithDir, WithInode, WithName, NoRest
<1>4. t \in Inums
  BY <1>1, <1>3, NameIs
<1>5. Counts(p, x) /\ x \in Slots /\ icache'[s].copy # Invalid
  BY <1>1, <1>3, <1>4, GetCounts
<1>6. Locks(p) /\ Owned(s, p)
  BY <1>1, <1>2, <1>3, LockTaken DEF Ilock
<1>7. To(p, "put", "unlockdp", call[p], rest[p], s, ip[p], x, file[p], cwd[p])
  BY <1>1, <1>2 DEF LinkTaken, Put, long, Still, To
<1> HIDE DEF x, t
<1>t. Fits("put", "unlockdp", rest[p], s, ip[p], x, file[p], cwd[p])
  BY <1>2, <1>3, <1>5, <1>6, <1>7 DEF Fits, PC, Used
<1>b. /\ Moves(p) /\ InodeTypes'
      /\ At(p, "put", "unlockdp", call[p], rest[p], s, ip[p], x, file[p], cwd[p])
  BY <1>2, <1>3, <1>5, <1>6, <1>7, <1>t, Arrives
<1>c. Stage(p)'
  BY <1>1, <1>2, <1>3, <1>5, <1>6, <1>b, SlotsAre
     DEF At, Stage, Where, Doing, Putting, WithDir, WithInode, WithName, Used
<1>d. Holds(p)'
  BY <1>1, <1>2, <1>3, <1>5, <1>6, <1>b, SlotsAre
     DEF At, Holds, HasDir, HasInode, Where, Putting, Used, Has, Owned
<1>e. Balance(p)
  <2>1. \A y \in Slots : Pointing(y, s, ip[p], x, file[p], cwd[p]) = Num(p, y) + Is(y, x)
    BY <1>1, <1>2, <1>3, <1>5, <1>6, SlotsAre DEF Num, One, Is, Pointing, Used
  <2>q. QED
    BY <1>1, <1>2, <1>3, <1>5, <1>6, <1>b, <2>1, Balances
<1>f. LongKept(p)
  BY <1>1, <1>2, <1>3, <1>5, <1>6, <1>b DEF At, LongKept, Putting
<1>q. QED
  BY <1>1, <1>2, <1>3, <1>5, <1>6, <1>b, <1>c, <1>d, <1>e, <1>f DEF Did, Counts

LEMMA LinkBadStep ==
  ASSUME InodeInv, NEW p \in Procs, LinkBad(p)
  PROVE  Did(p)
<1> DEFINE s == ip[p]
           ic == Loaded(s)
           n == ic[s].copy.nlink - 1
           d == WithLinks(ic[s].copy, n)
           jc == [ic EXCEPT ![s].copy = d]
           en == [dinode EXCEPT ![ic[s].inum] = d]
<1>1. /\ pc[p] = "bad" /\ Ilock(s) /\ lock' = lock /\ dirent' = dirent
      /\ icache' = jc /\ dinode' = [dinode EXCEPT ![icache[s].inum] = d]
  BY DEF LinkBad, Update
<1>2. InodeTypes /\ Good(icache, dinode) /\ Stage(p) /\ Holds(p) /\ Still(p) /\ dirent' \in DirentT
  BY <1>1, Begins DEF InodeTypes
<1>3. /\ ip[p] \in Slots \cup {None} /\ cur[p] \in Slots \cup {None} /\ put[p] \in Slots \cup {None}
      /\ file[p] \in Slots \cup {None} /\ Used(cwd[p]) /\ cwd[p] \in Slots /\ then[p] \in PC /\ rest[p] \in Seq(Entry)
      /\ Used(s) /\ s \in Slots /\ put[p] = None /\ cur[p] = None
  BY <1>1, <1>2, PointersUsed DEF Stage, Where, Doing, Putting, WithDir, WithInode, WithName, NoRest
<1>4. /\ Loads(ic, s) /\ Good(ic, dinode) /\ Keeps(icache, ic) /\ SameRefs(icache, ic)
      /\ ic[s].copy # Invalid /\ ic[s].ref > 0 /\ ic[s].inum = icache[s].inum
      /\ \A t \in Slots : ic[t].inum = icache[t].inum
  BY <1>1, <1>3, FromLoaded DEF Loads
<1> HIDE DEF ic
<1>5. n \in Int
  <2>1. ic[s] \in EntryT /\ ic[s].copy \in DinodeT
    BY <1>3, <1>4 DEF Good, EntryT
  <2>q. QED
    BY <2>1 DEF DinodeT
<1> HIDE DEF n
<1>6. Writes(ic, dinode, jc, en, s, d) /\ SameTypes(dinode, en)
  BY <1>3, <1>4, <1>5, UpdateIs
<1>7. icache' = jc /\ dinode' = en /\ SameTypes(dinode, dinode)
  BY <1>1, <1>4 DEF SameTypes
<1> HIDE DEF jc, en, d
<1>8. From(p, icache')
  BY <1>4, <1>6, <1>7, WritesFrom
<1>9. Counts(p, None) /\ Locks(p)
  BY <1>1, <1>2, <1>8, FromCounts, LocksStay
<1>a. To(p, "put", "user", call[p], rest[p], cur[p], None, s, file[p], cwd[p])
  BY <1>1, <1>2, <1>3, <1>9 DEF LinkBad, Put, long, Still, To
<1>t. Fits("put", "user", rest[p], cur[p], None, s, file[p], cwd[p])
  BY <1>2, <1>3, <1>9, <1>a DEF Fits, PC, Used
<1>b. /\ Moves(p) /\ InodeTypes'
      /\ At(p, "put", "user", call[p], rest[p], cur[p], None, s, file[p], cwd[p])
  BY <1>2, <1>3, <1>9, <1>a, <1>t, Arrives
<1>c. Stage(p)'
  BY <1>1, <1>2, <1>3, <1>9, <1>b, SlotsAre
     DEF At, Stage, Where, Doing, Putting, WithDir, WithInode, WithName, Used
<1>d. Holds(p)'
  BY <1>1, <1>2, <1>3, <1>9, <1>b, SlotsAre DEF At, Holds, HasDir, HasInode, Where, Putting, Used
<1>e. Balance(p)
  <2>1. \A y \in Slots : Pointing(y, cur[p], None, s, file[p], cwd[p]) = Num(p, y) + Is(y, None)
    BY <1>1, <1>2, <1>3, <1>9, SlotsAre DEF Num, One, Is, Pointing, Used
  <2>q. QED
    BY <1>1, <1>2, <1>3, <1>9, <1>b, <2>1, Balances
<1>f. LongKept(p)
  BY <1>1, <1>2, <1>3, <1>9, <1>b DEF At, LongKept, Putting
<1>q. QED
  BY <1>1, <1>2, <1>3, <1>9, <1>b, <1>c, <1>d, <1>e, <1>f DEF Did, Counts

LEMMA LinkedStep ==
  ASSUME InodeInv, NEW p \in Procs, Linked(p)
  PROVE  Did(p)
<1>1. /\ pc[p] = "linked" /\ icache' = icache
      /\ dinode' = dinode /\ dirent' = dirent /\ lock' = lock
  BY DEF Linked, disk
<1>2. InodeTypes /\ Good(icache, dinode) /\ Stage(p) /\ Holds(p) /\ Still(p) /\ dirent' \in DirentT
  BY <1>1, Begins DEF InodeTypes
<1>3. /\ ip[p] \in Slots \cup {None} /\ cur[p] \in Slots \cup {None} /\ put[p] \in Slots \cup {None}
      /\ file[p] \in Slots \cup {None} /\ Used(cwd[p]) /\ cwd[p] \in Slots /\ then[p] \in PC /\ rest[p] \in Seq(Entry)
      /\ Used(ip[p]) /\ put[p] = None /\ cur[p] = None
  BY <1>1, <1>2, PointersUsed DEF Stage, Where, Doing, Putting, WithDir, WithInode, WithName, NoRest
<1>4. Counts(p, None) /\ Locks(p)
  BY <1>1, <1>2, <1>3, NothingCounts, LocksStay
<1>a. To(p, "put", "user", call[p], rest[p], cur[p], None, ip[p], file[p], cwd[p])
  BY <1>1, <1>2, <1>3, <1>4 DEF Linked, Put, long, Still, To
<1>t. Fits("put", "user", rest[p], cur[p], None, ip[p], file[p], cwd[p])
  BY <1>2, <1>3, <1>4, <1>a DEF Fits, PC, Used
<1>b. /\ Moves(p) /\ InodeTypes'
      /\ At(p, "put", "user", call[p], rest[p], cur[p], None, ip[p], file[p], cwd[p])
  BY <1>2, <1>3, <1>4, <1>a, <1>t, Arrives
<1>c. Stage(p)'
  BY <1>1, <1>2, <1>3, <1>4, <1>b, SlotsAre
     DEF At, Stage, Where, Doing, Putting, WithDir, WithInode, WithName, Used
<1>d. Holds(p)'
  BY <1>1, <1>2, <1>3, <1>4, <1>b, SlotsAre DEF At, Holds, HasDir, HasInode, Where, Putting, Used
<1>e. Balance(p)
  <2>1. \A y \in Slots : Pointing(y, cur[p], None, ip[p], file[p], cwd[p]) = Num(p, y) + Is(y, None)
    BY <1>1, <1>2, <1>3, <1>4, SlotsAre DEF Num, One, Is, Pointing, Used
  <2>q. QED
    BY <1>1, <1>2, <1>3, <1>4, <1>b, <2>1, Balances
<1>f. LongKept(p)
  BY <1>1, <1>2, <1>3, <1>4, <1>b DEF At, LongKept, Putting
<1>q. QED
  BY <1>1, <1>2, <1>3, <1>4, <1>b, <1>c, <1>d, <1>e, <1>f DEF Did, Counts

-----------------------------------------------------------------------------
(* The invariant *)

LEMMA InitIs ==
  ASSUME Init
  PROVE  InodeInv
<1>1. Cardinality(Procs) \in Nat /\ IsFiniteSet(Procs)
  BY SizeAssumption, FS_CardinalityType
<1>2. Good(icache, dinode)
  <2>1. dinode \in [Inums -> DinodeT]
    <3>1. Free \in DinodeT /\ [type |-> "dir", nlink |-> 1] \in DinodeT
      BY DEF Free, DinodeT
    <3>q. QED
      BY <3>1 DEF Init
  <2>2. \A s \in Slots :
          /\ icache[s] = [ref |-> IF s = 1 THEN Cardinality(Procs) ELSE 0, inum |-> Root, copy |-> Invalid]
          /\ icache[s] \in EntryT
    BY <1>1, SlotsAre DEF Init, EntryT
  <2>3. icache \in [Slots -> EntryT]
    BY <2>2 DEF Init
  <2>4. ASSUME NEW s \in Slots
        PROVE  icache[s].ref = (IF s = 1 THEN Cardinality(Procs) ELSE 0) /\ icache[s].copy = Invalid
    <3>1. icache[s] = [ref |-> IF s = 1 THEN Cardinality(Procs) ELSE 0, inum |-> Root, copy |-> Invalid]
      BY <2>2
    <3>q. QED
      BY <3>1
  <2>q. QED
    BY <2>1, <2>3, <2>4 DEF Good
<1>3. InodeTypes
  <2>1. dirent \in DirentT
    BY SlotsAre, SizeAssumption DEF Init, DirentT, Inums
  <2>2. lock \in [Slots -> Procs \cup {NoProc}] /\ pc \in [Procs -> PC] /\ then \in [Procs -> PC]
    BY DEF Init, PC
  <2>3. call = [q \in Procs |-> call[q]] /\ rest \in [Procs -> Seq(Entry)]
    BY DEF Init
  <2>4. cur \in Pointer /\ ip \in Pointer /\ put \in Pointer /\ file \in Pointer /\ cwd \in [Procs -> Slots]
    BY SlotsAre DEF Init, Pointer
  <2>q. QED
    BY <2>1, <2>2, <2>3, <2>4 DEF InodeTypes
<1>4. ASSUME NEW p \in Procs PROVE Stage(p) /\ Holds(p)
  <2>1. pc[p] = "user" /\ put[p] = None /\ cur[p] = None /\ ip[p] = None
    BY DEF Init
  <2>q. QED
    BY <2>1 DEF Stage, Holds, Where, Doing, Putting, WithDir, WithInode, WithName, HasDir, HasInode
<1>5. ASSUME NEW s \in Slots PROVE icache[s].ref = Cardinality(Pointers(s))
  <2>1. /\ icache[s].ref = (IF s = 1 THEN Cardinality(Procs) ELSE 0) /\ s # None
        /\ \A p \in Procs : cur[p] = None /\ ip[p] = None /\ put[p] = None /\ file[p] = None /\ cwd[p] = 1
    BY SlotsAre DEF Init
  <2>2. CASE s = 1
    <3>1. Pointers(s) = Procs \X {"cwd"}
      BY <2>1, <2>2 DEF Pointers
    <3>2. IsFiniteSet({"cwd"}) /\ Cardinality({"cwd"}) = 1
      BY FS_Singleton
    <3>3. Cardinality(Procs \X {"cwd"}) = Cardinality(Procs) * Cardinality({"cwd"})
      BY <1>1, <3>2, FS_Product
    <3>4. \A n \in Nat : n * 1 = n
      OBVIOUS
    <3>5. Cardinality(Procs \X {"cwd"}) = Cardinality(Procs)
      BY <1>1, <3>2, <3>3, <3>4
    <3>q. QED
      BY <2>1, <2>2, <3>1, <3>5
  <2>3. CASE s # 1
    <3>1. Pointers(s) = {}
      BY <2>1, <2>3 DEF Pointers
    <3>q. QED
      BY <2>1, <2>3, <3>1, FS_EmptySet
  <2>q. QED
    BY <2>2, <2>3
<1>q. QED
  BY <1>2, <1>3, <1>4, <1>5 DEF InodeInv, RefsCounted

LEMMA NextDid ==
  ASSUME InodeInv, Next
  PROVE  \E p \in Procs : Did(p)
<1>1. PICK p \in Procs :
        \/ \E c \in Calls[p] : Enter(p, c)
        \/ Close(p) \/ IputLock(p) \/ IputFree(p) \/ IputDrop(p) \/ Walk(p)
        \/ Open(p) \/ Chdir(p)
        \/ CreateExisting(p) \/ UseExisting(p) \/ CreateNew(p) \/ CreateLink(p) \/ Created(p)
        \/ UnlinkFails(p) \/ UnlinkFind(p) \/ UnlinkRefused(p) \/ UnlockDir(p) \/ UnlinkEntry(p) \/ Unlinked(p)
        \/ LinkRefused(p) \/ LinkOld(p) \/ LinkNew(p) \/ LinkTaken(p) \/ LinkBad(p) \/ Linked(p)
  BY Zenon DEF Next
<1>2. CASE \E c \in Calls[p] : Enter(p, c)
  BY <1>2, EnterStep
<1>3. CASE Close(p) \/ IputLock(p) \/ IputFree(p) \/ IputDrop(p) \/ Walk(p) \/ Open(p) \/ Chdir(p)
  BY <1>3, CloseStep, IputLockStep, IputFreeStep, IputDropStep, WalkStep, OpenStep, ChdirStep
<1>4. CASE CreateExisting(p) \/ UseExisting(p) \/ CreateNew(p) \/ CreateLink(p) \/ Created(p)
  BY <1>4, CreateExistingStep, UseExistingStep, CreateNewStep, CreateLinkStep, CreatedStep
<1>5. CASE UnlinkFails(p) \/ UnlinkFind(p) \/ UnlinkRefused(p) \/ UnlockDir(p) \/ UnlinkEntry(p) \/ Unlinked(p)
  BY <1>5, UnlinkFailsStep, UnlinkFindStep, UnlinkRefusedStep, UnlockDirStep, UnlinkEntryStep, UnlinkedStep
<1>6. CASE LinkRefused(p) \/ LinkOld(p) \/ LinkNew(p) \/ LinkTaken(p) \/ LinkBad(p) \/ Linked(p)
  BY <1>6, LinkRefusedStep, LinkOldStep, LinkNewStep, LinkTakenStep, LinkBadStep, LinkedStep
<1>q. QED
  BY <1>1, <1>2, <1>3, <1>4, <1>5, <1>6

LEMMA StutterKeeps ==
  ASSUME InodeInv, UNCHANGED vars
  PROVE  InodeInv'
<1>1. /\ dinode' = dinode /\ dirent' = dirent /\ icache' = icache /\ lock' = lock /\ pc' = pc /\ then' = then
      /\ call' = call /\ rest' = rest /\ cur' = cur /\ ip' = ip /\ put' = put /\ file' = file /\ cwd' = cwd
  BY DEF vars, disk, long
<1>2. InodeTypes' /\ Good(icache, dinode)'
  BY <1>1 DEF InodeInv, InodeTypes, Good
<1>3. RefsCounted'
  BY <1>1 DEF InodeInv, RefsCounted, Pointers
<1>4. \A p \in Procs : Stage(p)' /\ Holds(p)'
  BY <1>1 DEF InodeInv, Stage, Holds, Where, HasDir, HasInode, Has
<1>q. QED
  BY <1>2, <1>3, <1>4 DEF InodeInv

\* The types, what each process points to and has locked, and the counts, for
\* any numbers of processes, i-nodes and entries and any calls.
THEOREM InodeInvariant == Spec => []InodeInv
<1>1. Init => InodeInv
  BY InitIs
<1>2. InodeInv /\ [Next]_vars => InodeInv'
  BY NextDid, StepKeeps, StutterKeeps
<1>q. QED
  BY <1>1, <1>2, PTL DEF Spec

LEMMA CoherentIs ==
  ASSUME InodeInv
  PROVE  RefsAreCounted
<1>1. ASSUME NEW i \in Inums PROVE Cardinality(Entries(icache, i)) <= 1
  <2>1. \A s, t \in Entries(icache, i) : s = t
    BY DEF InodeInv, Good, Entries
  <2>2. CASE Entries(icache, i) = {}
    BY <2>2, FS_EmptySet
  <2>3. CASE Entries(icache, i) # {}
    <3>1. PICK s \in Entries(icache, i) : TRUE
      BY <2>3
    <3>2. Entries(icache, i) = {s}
      BY <2>1, <3>1
    <3>3. Cardinality({s}) = 1
      BY FS_Singleton
    <3>q. QED
      BY <3>2, <3>3
  <2>q. QED
    BY <2>2, <2>3
<1>2. \A s \in Slots : icache[s].ref > 0 /\ icache[s].copy # Invalid => icache[s].copy = dinode[icache[s].inum]
  BY DEF InodeInv, Good
<1>3. \A s \in Slots : icache[s].ref = Cardinality(Pointers(s))
  BY DEF InodeInv, RefsCounted
<1>q. QED
  BY <1>1, <1>2, <1>3 DEF RefsAreCounted, CacheIsCoherent

\* ip->ref counts the pointers that processes have to the entry (cwd, open file
\* and the local variables of calls), an i-node has one entry at most, and a
\* valid entry has what iupdate has written (iget, iput, idup; fs.c).
THEOREM InodeRefsAreCounted == Spec => []RefsAreCounted
  BY InodeInvariant, CoherentIs, PTL

-----------------------------------------------------------------------------
(* What is open stays allocated *)

Alive(p) ==
  /\ file[p] # None => dinode[icache[file[p]].inum].type # "free"
  /\ dinode[icache[cwd[p]].inum].type = "dir"
\* What iput frees is nobody's open file or directory.
Unshared(p) == pc[p] = "free" => \A q \in Procs : file[q] # put[p] /\ cwd[q] # put[p]
LiveInv == \A p \in Procs : Alive(p) /\ Unshared(p)

LEMMA LiveStep ==
  ASSUME InodeInv, LiveInv, NEW p \in Procs, Did(p)
  PROVE  LiveInv'
<1>1. /\ Moves(p) /\ Stage(p)' /\ KeepsOthers(p) /\ TypesKept(p) /\ LongKept(p)
  BY DEF Did
<1>2. ASSUME NEW s, Used(s), NEW q \in Procs, s \in {file[q], cwd[q]},
             dinode[icache[s].inum].type # "free"
      PROVE  dinode'[icache'[s].inum].type = dinode[icache[s].inum].type
  <2>1. icache'[s].inum = icache[s].inum /\ icache[s].inum \in Inums /\ s \in Slots /\ icache[s].ref > 0
    BY <1>1, <1>2 DEF KeepsOthers, Used, InodeInv, Good, EntryT
  <2>2. ASSUME NEW t \in Slots, Frees(p, t), icache[t].inum = icache[s].inum PROVE FALSE
    <3>1. Used(t)
      BY <2>2, Holders DEF Frees
    <3>2. t = s
      BY <2>1, <2>2, <3>1 DEF Used, InodeInv, Good
    <3>q. QED
      BY <1>2, <2>2, <3>2 DEF LiveInv, Unshared, Frees
  <2>q. QED
    BY <1>1, <1>2, <2>1, <2>2 DEF TypesKept
<1>3. ASSUME NEW q \in Procs PROVE Alive(q)'
  <2>1. Alive(q) /\ Used(cwd[q]) /\ (file[q] # None => Used(file[q]))
    BY PointersUsed DEF LiveInv
  <2>2. /\ file[q] # None => dinode'[icache'[file[q]].inum].type # "free"
        /\ dinode'[icache'[cwd[q]].inum].type = "dir"
    BY <1>2, <2>1 DEF Alive
  <2>3. CASE q # p
    BY <1>1, <2>2, <2>3 DEF Moves, Alive
  <2>4. CASE q = p
    BY <1>1, <2>2, <2>4 DEF LongKept, Alive
  <2>q. QED
    BY <2>3, <2>4
<1>4. ASSUME NEW q \in Procs, pc'[q] = "free", NEW r \in Procs
      PROVE  file'[r] # put'[q] /\ cwd'[r] # put'[q]
  <2>1. CASE q # p
    <3>1. pc[q] = "free" /\ put'[q] = put[q]
      BY <1>1, <1>4, <2>1 DEF Moves
    <3>2. file[r] # put[q] /\ cwd[r] # put[q] /\ put[q] # None /\ lock[put[q]] = q
      BY <3>1, Holders, SlotsAre DEF LiveInv, Unshared, Used
    <3>3. CASE r # p
      BY <1>1, <3>1, <3>2, <3>3 DEF Moves
    <3>4. CASE r = p
      BY <1>1, <2>1, <3>1, <3>2, <3>4, NoProcAssumption DEF LongKept
    <3>q. QED
      BY <3>3, <3>4
  <2>2. CASE q = p
    <3> DEFINE s == put[p]
    <3>1. pc[p] = "put" /\ icache[s].ref = 1 /\ put' = put /\ file' = file /\ cwd' = cwd
      BY <1>1, <1>4, <2>2 DEF LongKept
    <3>2. Used(s) /\ s \in Slots
      BY <3>1, PointersUsed DEF InodeInv, Stage, Putting, Used
    <3>3. Cardinality(Pointers(s)) = 1
      BY <3>1, <3>2 DEF InodeInv, RefsCounted
    <3>4. /\ Cardinality(Pointers(s)) = Cardinality(Others(p, s)) + Num(p, s)
          /\ Cardinality(Others(p, s)) \in Nat /\ Num(p, s) \in Nat /\ IsFiniteSet(Others(p, s))
      BY <3>2, PointersAreCounted DEF NumIs
    <3>5. Num(p, s) >= 1 /\ (s = file[p] \/ s = cwd[p] => Num(p, s) >= 2)
      BY DEF Num, One
    <3> HIDE DEF s
    <3>6. Cardinality(Others(p, s)) = 0 /\ s # file[p] /\ s # cwd[p]
      BY <3>3, <3>4, <3>5
    <3>7. Others(p, s) = {}
      BY <3>4, <3>6, FS_EmptySet
    <3>8. ASSUME r # p PROVE s # file[r] /\ s # cwd[r]
      <4>1. /\ s = file[r] => <<r, "file">> \in Pointers(s)
            /\ s = cwd[r] => <<r, "cwd">> \in Pointers(s)
        BY DEF Pointers
      <4>2. <<r, "file">>[1] = r /\ <<r, "cwd">>[1] = r
        OBVIOUS
      <4>q. QED
        BY <3>7, <3>8, <4>1, <4>2 DEF Others
    <3>q. QED
      BY <2>2, <3>1, <3>6, <3>8 DEF s
  <2>q. QED
    BY <2>1, <2>2
<1>5. \A q \in Procs : Unshared(q)'
  BY <1>4 DEF Unshared
<1>q. QED
  BY <1>3, <1>5 DEF LiveInv

\* No open file and no current directory loses its i-node, and a current
\* directory stays a directory: iput frees what has one reference and no links
\* while it alone has the entry locked (fs.c, iput; sysfile.c).
THEOREM InodesLive == Spec => []OpenInodesLive
<1>1. Init => LiveInv
  BY SlotsAre DEF Init, LiveInv, Alive, Unshared
<1>2. InodeInv /\ LiveInv /\ [Next]_vars => LiveInv'
  <2> SUFFICES ASSUME InodeInv, LiveInv, [Next]_vars PROVE LiveInv'
    OBVIOUS
  <2>1. CASE Next
    BY <2>1, NextDid, LiveStep
  <2>2. CASE UNCHANGED vars
    BY <2>2 DEF vars, disk, long, LiveInv, Alive, Unshared
  <2>q. QED
    BY <2>1, <2>2
<1>3. LiveInv => OpenInodesLive
  BY DEF LiveInv, Alive, OpenInodesLive, Free
<1>q. QED
  BY <1>1, <1>2, <1>3, InodeInvariant, PTL DEF Spec

-----------------------------------------------------------------------------
(* Links: what is true of the tree of directories and of the calls on it *)

\* Entry s of the cache is for i-node i, which p has, or goes on with, a pointer
\* to: what iput has only to drop does not count.
Points(s, i) == s # None /\ icache[s].inum = i
Reaches(p, i) == \/ Points(cur[p], i) \/ Points(ip[p], i) \/ Points(file[p], i) \/ Points(cwd[p], i)
                 \/ pc[p] # "drop" /\ Points(put[p], i)

\* p frees i-node i, or has allocated it and not yet named it. Nobody else can get
\* hold of it then.
Freeing(p, i) == pc[p] = "free" /\ Points(put[p], i)
Making(p, i) == pc[p] = "new" /\ Points(ip[p], i)
Alone(p, i) ==
  /\ ~Points(cur[p], i) /\ ~Points(file[p], i) /\ ~Points(cwd[p], i)
  /\ \A q \in Procs : q # p => ~Reaches(q, i)
Private(p, i) ==
  /\ Freeing(p, i) => dinode[i].nlink = 0 /\ ~Points(ip[p], i) /\ Alone(p, i)
  /\ Making(p, i) => dinode[i] = [type |-> NewType(p), nlink |-> 0] /\ dirent[i] = Empty /\ Alone(p, i)
Typed(p, i) == Reaches(p, i) => dinode[i].type # "free"

\* What a call relies on that it has found out and not locked, or locked since.
InDir == {"create", "mkdir", "new", "unlink", "victim", "unlockdp", "linkdp"}
Knows(p, i) ==
  /\ Where(p) \in InDir /\ Points(cur[p], i) => dinode[i].type = "dir"
  /\ call[p].op = "link" /\ Points(ip[p], i) => dinode[i].type = "file"
Relies(p) ==
  /\ pc[p] = "victim" => Name(p) \in Names /\ Here(p)[Name(p)] = icache[ip[p]].inum
  /\ pc[p] = "new" => Name(p) \in Names /\ Here(p)[Name(p)] = 0
  /\ pc[p] \in Putting => then[p] \notin {"new", "victim"}
CallInv(p) == Relies(p) /\ \A i \in Inums : Private(p, i) /\ Typed(p, i) /\ Knows(p, i)

\* The directories are a tree, but for those without a name.
Shape(i) ==
  /\ dinode[i].type # "dir" => dirent[i] = Empty
  /\ dinode[i].type = "free" => dinode[i].nlink = 0
  /\ dirent[i]["."] \in {0, i}
  /\ dinode[i].type = "dir" => \/ dirent[i]["."] = i /\ dirent[i][".."] # 0
                               \/ \E p \in Procs : Making(p, i)
OneName ==
  \A t \in Inums : dinode[t].type = "dir" =>
    \A d, e \in Inums, n, m \in Names :
      dirent[d][n] = t /\ dirent[e][m] = t => d = e /\ n = m /\ dirent[t][".."] = d
RootIsTop ==
  /\ dinode[Root].type = "dir" /\ dirent[Root][".."] = Root
  /\ \A d \in Inums, n \in Names : dirent[d][n] # Root

TreeInv == (\A i \in Inums : Shape(i)) /\ OneName /\ RootIsTop
CallsInv == \A p \in Procs : CallInv(p)
LinkInv == TreeInv /\ CallsInv /\ LinksAreCounted

\* The parent of a directory in use has links: that of a removed directory may
\* have been removed too, and its i-node have been given away.
ParentsLinked ==
  \A d \in Inums : Entries(icache, d) # {} /\ dirent[d][".."] # 0 => dinode[dirent[d][".."]].nlink > 0

\* It always has if directories are made in the root only.
OneLevel == \A p \in Procs : \A c \in Calls[p] : c.op = "mkdir" => c.abs /\ Len(c.path) = 1
InRoot(p) ==
  Where(p) \in {"walk", "mkdir", "new"} /\ call[p].op = "mkdir" =>
    Last(p) /\ icache[cur[p]].inum = Root
Flat == (\A p \in Procs : InRoot(p)) /\ \A i \in Inums : dirent[i][".."] \in {0, Root}

-----------------------------------------------------------------------------
(* Links: counting *)

LEMMA SetsCount ==
  ASSUME NEW S, NEW T, IsFiniteSet(S), IsFiniteSet(T)
  PROVE  /\ Cardinality(S) \in Nat /\ Cardinality(T) \in Nat
         /\ S \subseteq T => Cardinality(S) <= Cardinality(T)
         /\ \A x : S \subseteq T \cup {x} => Cardinality(S) <= Cardinality(T) + 1
         /\ \A x \in T : S \subseteq T \ {x} => Cardinality(S) <= Cardinality(T) - 1
         /\ T # {} => Cardinality(T) > 0
<1>1. Cardinality(S) \in Nat /\ Cardinality(T) \in Nat
  BY FS_CardinalityType
<1>2. S \subseteq T => Cardinality(S) <= Cardinality(T)
  BY FS_Subset
<1>3. ASSUME NEW x, S \subseteq T \cup {x} PROVE Cardinality(S) <= Cardinality(T) + 1
  <2>1. IsFiniteSet(T \cup {x}) /\ Cardinality(T \cup {x}) \in {Cardinality(T), Cardinality(T) + 1}
    BY FS_AddElement
  <2>2. Cardinality(S) <= Cardinality(T \cup {x})
    BY <1>3, <2>1, FS_Subset
  <2>q. QED
    BY <1>1, <2>1, <2>2
<1>4. ASSUME NEW x \in T, S \subseteq T \ {x} PROVE Cardinality(S) <= Cardinality(T) - 1
  <2>1. IsFiniteSet(T \ {x}) /\ Cardinality(T \ {x}) = Cardinality(T) - 1
    BY FS_RemoveElement
  <2>q. QED
    BY <1>4, <2>1, FS_Subset
<1>5. T # {} => Cardinality(T) > 0
  BY <1>1, FS_EmptySet
<1>q. QED
  BY <1>1, <1>2, <1>3, <1>4, <1>5

LinksAreFinite == \A i \in Inums : IsFiniteSet(LinksTo(i)) /\ IsFiniteSet(Ahead(i))
LEMMA FiniteLinks == LinksAreFinite
<1>1. IsFiniteSet(Inums)
  BY SizeAssumption, FS_Interval DEF Inums
<1>2. IsFiniteSet(Entry)
  <2>1. IsFiniteSet({".", ".."})
    <3>1. IsFiniteSet({"."} \cup {".."})
      BY FS_Singleton, FS_AddElement
    <3>q. QED
      BY <3>1
  <2>q. QED
    BY <2>1, NamesAssumption, FS_Union DEF Entry
<1>3. IsFiniteSet(Inums \X Entry)
  BY <1>1, <1>2, FS_Product
<1>4. \A i \in Inums : LinksTo(i) \subseteq Inums \X Entry /\ Ahead(i) \subseteq Procs
  BY DEF LinksTo, Ahead
<1>q. QED
  BY <1>3, <1>4, SizeAssumption, FS_Subset DEF LinksAreFinite

LEMMA FiniteLinksNext == LinksAreFinite'
  BY FiniteLinks, PTL

\* What the counts mean: a name, the ".." of a named directory, or a call that is
\* ahead of its entry.
NumLinks(i) == Cardinality(LinksTo(i))
NumAhead(i) == Cardinality(Ahead(i))
LEMMA LinksMean ==
  ASSUME InodeInv, LinksAreCounted, NEW i \in Inums
  PROVE  /\ dinode[i].nlink \in Int /\ NumLinks(i) \in Nat /\ NumAhead(i) \in Nat
         /\ dinode[i].nlink >= NumLinks(i) + NumAhead(i) /\ dinode[i].nlink >= 0
         /\ LinksTo(i) # {} \/ Ahead(i) # {} => dinode[i].nlink > 0
<1>1. dinode[i].nlink \in Int
  BY DEF InodeInv, Good, DinodeT
<1>2. IsFiniteSet(LinksTo(i)) /\ IsFiniteSet(Ahead(i))
  BY FiniteLinks DEF LinksAreFinite
<1>3. NumLinks(i) \in Nat /\ NumAhead(i) \in Nat
  BY <1>2, FS_CardinalityType DEF NumLinks, NumAhead
<1>4. dinode[i].nlink >= NumLinks(i) + NumAhead(i)
  BY DEF LinksAreCounted, NumLinks, NumAhead
<1>5. /\ LinksTo(i) # {} => NumLinks(i) > 0
      /\ Ahead(i) # {} => NumAhead(i) > 0
  BY <1>2, SetsCount DEF NumLinks, NumAhead
<1>q. QED
  BY <1>1, <1>3, <1>4, <1>5

\* A name, and the parent of what has one, has links; the root has.
LEMMA NamesLink ==
  ASSUME InodeInv, LinkInv, NEW d \in Inums, NEW t \in Inums
  PROVE  /\ \A n \in Names : dirent[d][n] = t => <<d, n>> \in LinksTo(t) /\ dinode[t].nlink > 0
         /\ dirent[d][".."] = t /\ Named(d) => <<d, "..">> \in LinksTo(t) /\ dinode[t].nlink > 0
<1>1. \A n \in Names : n \in Entry /\ n # "." /\ n # ".."
  BY NamesAssumption DEF Entry
<1>2. ".." \in Entry /\ ".." # "."
  BY DEF Entry
<1>3. ASSUME NEW n \in Names, dirent[d][n] = t PROVE <<d, n>> \in LinksTo(t)
  BY <1>1, <1>3 DEF LinksTo
<1>4. ASSUME dirent[d][".."] = t, Named(d) PROVE <<d, "..">> \in LinksTo(t)
  BY <1>2, <1>4 DEF LinksTo
<1>5. LinksTo(t) # {} => dinode[t].nlink > 0
  BY LinksMean DEF LinkInv
<1>q. QED
  BY <1>3, <1>4, <1>5

LEMMA RootLinked ==
  ASSUME InodeInv, LinkInv
  PROVE  dinode[Root].nlink > 0
<1>1. Root \in Inums /\ dirent[Root][".."] = Root /\ Named(Root)
  BY SlotsAre DEF LinkInv, TreeInv, RootIsTop, Named
<1>q. QED
  BY <1>1, NamesLink

\* What a directory in use names has links, or is that directory.
LEMMA TargetLinked ==
  ASSUME InodeInv, LinkInv, ParentsLinked, NEW s, Used(s), NEW n \in Entry,
         dirent[icache[s].inum][n] # 0
  PROVE  /\ dirent[icache[s].inum][n] \in Inums
         /\ \/ dinode[dirent[icache[s].inum][n]].nlink > 0
            \/ dirent[icache[s].inum][n] = icache[s].inum
<1> DEFINE d == icache[s].inum
           t == dirent[d][n]
<1>1. d \in Inums /\ s \in Slots /\ icache[s].ref > 0
  BY DEF Used, InodeInv, Good, EntryT
<1>2. t \in Inums
  BY <1>1, SizeAssumption DEF InodeInv, InodeTypes, DirentT, Inums
<1>3. CASE n \in Names
  BY <1>1, <1>2, <1>3, NamesLink
<1>4. CASE n = "."
  BY <1>1, <1>2, <1>4, SlotsAre DEF LinkInv, TreeInv, Shape
<1>5. CASE n = ".."
  <2>1. s \in Entries(icache, d)
    BY <1>1 DEF Entries
  <2>2. dirent[d][".."] # 0 => dinode[dirent[d][".."]].nlink > 0
    <3> HIDE DEF d
    <3>q. QED
      BY <1>1, <2>1 DEF ParentsLinked
  <2>3. t = dirent[d][".."] /\ t # 0
    BY <1>5
  <2>q. QED
    BY <1>2, <2>2, <2>3
<1>q. QED
  BY <1>2, <1>3, <1>4, <1>5 DEF Entry

-----------------------------------------------------------------------------
(* Links: a step and the calls *)

Holding(p) == {cur[p], ip[p], file[p], cwd[p]} \cup IF pc[p] = "drop" THEN {} ELSE {put[p]}
LEMMA ReachIs ==
  ASSUME NEW p, NEW i
  PROVE  Reaches(p, i) <=> \E s \in Holding(p) : Points(s, i)
  BY DEF Reaches, Holding

\* p holds what it held, and the entry g.
Takes(p, g) ==
  \A s \in {cur'[p], ip'[p], file'[p], cwd'[p]} \cup IF pc'[p] = "drop" THEN {} ELSE {put'[p]} :
    s \in Holding(p) \/ s = None \/ s = g
\* What it comes to has links, or is new; what it frees it loses.
Reached(p) ==
  \A i \in Inums : Reaches(p, i)' =>
    Reaches(p, i) \/ dinode[i].nlink > 0 \/ (dinode[i].type = "free" /\ dinode'[i].type # "free")
FreesLast(p) == \A i \in Inums : Freeing(p, i) => ~Reaches(p, i)'

\* It writes to what it points to or allocates, and to directories with the lock.
Touches(p) ==
  \A i \in Inums :
    /\ dinode'[i] # dinode[i] \/ dirent'[i] # dirent[i] => Reaches(p, i) \/ dinode[i].type = "free"
    /\ dirent'[i] # dirent[i] => \E s : Used(s) /\ icache[s].inum = i /\ lock[s] \in {NoProc, p}

LEMMA PointsKept ==
  ASSUME InodeInv, NEW p \in Procs, KeepsOthers(p), NEW q \in Procs, NEW s \in Holding(q), NEW i
  PROVE  Points(s, i)' <=> Points(s, i)
<1>1. s # None => Used(s)
  BY PointersUsed DEF Holding
<1>q. QED
  BY <1>1 DEF Points, Used, KeepsOthers

LEMMA TakesReached ==
  ASSUME InodeInv, NEW p \in Procs, KeepsOthers(p), NEW g, Takes(p, g),
         g # None => dinode[icache'[g].inum].nlink > 0 \/ Reaches(p, icache'[g].inum)
  PROVE  Reached(p)
<1>1. SUFFICES ASSUME NEW i \in Inums, Reaches(p, i)'
               PROVE  Reaches(p, i) \/ dinode[i].nlink > 0
  BY DEF Reached
<1>2. PICK s \in {cur'[p], ip'[p], file'[p], cwd'[p]} \cup IF pc'[p] = "drop" THEN {} ELSE {put'[p]} :
        s # None /\ icache'[s].inum = i
  BY <1>1 DEF Reaches, Points
<1>3. CASE s \in Holding(p)
  BY <1>2, <1>3, PointsKept, ReachIs DEF Points
<1>4. CASE s = g
  BY <1>2, <1>4
<1>q. QED
  BY <1>2, <1>3, <1>4 DEF Takes

\* The calls of the others rely on what they did.
SameCall(q) ==
  /\ pc'[q] = pc[q] /\ then'[q] = then[q] /\ call'[q] = call[q] /\ rest'[q] = rest[q]
  /\ cur'[q] = cur[q] /\ ip'[q] = ip[q] /\ put'[q] = put[q] /\ file'[q] = file[q] /\ cwd'[q] = cwd[q]
SamePoints(q) ==
  \A i : /\ Reaches(q, i)' <=> Reaches(q, i)
         /\ Points(cur[q], i)' <=> Points(cur[q], i)
         /\ Points(ip[q], i)' <=> Points(ip[q], i)
         /\ Points(file[q], i)' <=> Points(file[q], i)
         /\ Points(cwd[q], i)' <=> Points(cwd[q], i)
         /\ pc[q] # "drop" => (Points(put[q], i)' <=> Points(put[q], i))
LEMMA OthersPoint ==
  ASSUME InodeInv, NEW p \in Procs, Moves(p), KeepsOthers(p), NEW q \in Procs, q # p
  PROVE  SameCall(q) /\ SamePoints(q)
<1>1. SameCall(q)
  BY DEF Moves, SameCall
<1>2. ASSUME NEW s \in Holding(q), NEW i PROVE (icache'[s].inum = i /\ s # None) <=> Points(s, i)
  BY <1>2, PointsKept DEF Points
<1>3. /\ cur[q] \in Holding(q) /\ ip[q] \in Holding(q) /\ file[q] \in Holding(q) /\ cwd[q] \in Holding(q)
      /\ pc[q] # "drop" => put[q] \in Holding(q)
  BY DEF Holding
<1>4. ASSUME NEW i
      PROVE  /\ Points(cur[q], i)' <=> Points(cur[q], i)
             /\ Points(ip[q], i)' <=> Points(ip[q], i)
             /\ Points(file[q], i)' <=> Points(file[q], i)
             /\ Points(cwd[q], i)' <=> Points(cwd[q], i)
             /\ pc[q] # "drop" => (Points(put[q], i)' <=> Points(put[q], i))
  <2>1. Points(cur[q], i)' <=> Points(cur[q], i)
    BY <1>1, <1>2, <1>3 DEF Points, SameCall
  <2>2. Points(ip[q], i)' <=> Points(ip[q], i)
    BY <1>1, <1>2, <1>3 DEF Points, SameCall
  <2>3. Points(file[q], i)' <=> Points(file[q], i)
    BY <1>1, <1>2, <1>3 DEF Points, SameCall
  <2>4. Points(cwd[q], i)' <=> Points(cwd[q], i)
    BY <1>1, <1>2, <1>3 DEF Points, SameCall
  <2>5. pc[q] # "drop" => (Points(put[q], i)' <=> Points(put[q], i))
    BY <1>1, <1>2, <1>3 DEF Points, SameCall
  <2>q. QED
    BY <2>1, <2>2, <2>3, <2>4, <2>5
<1>5. \A i : Reaches(q, i)' <=> Reaches(q, i)
  BY <1>1, <1>4 DEF Reaches, SameCall
<1>q. QED
  BY <1>1, <1>4, <1>5 DEF SamePoints

\* Types change only where an i-node is allocated or freed.
LEMMA TypeStays ==
  ASSUME InodeInv, LinkInv, NEW p \in Procs, TypesKept(p), NEW i \in Inums, dinode[i].type # "free", ~Freeing(p, i)
  PROVE  dinode'[i].type = dinode[i].type
<1>1. ASSUME NEW s \in Slots, Frees(p, s), icache[s].inum = i PROVE FALSE
  BY <1>1, SlotsAre DEF Frees, Freeing, Points
<1>q. QED
  BY <1>1 DEF TypesKept

\* What is private to one process no other reaches.
LEMMA PrivateIs ==
  ASSUME LinkInv, NEW p \in Procs, NEW i \in Inums, Freeing(p, i) \/ Making(p, i)
  PROVE  /\ Private(p, i) /\ Typed(p, i) /\ Alone(p, i) /\ dinode[i].nlink = 0 /\ dinode[i].type # "free"
         /\ Reaches(p, i)
<1>1. Private(p, i) /\ Typed(p, i)
  BY DEF LinkInv, CallsInv, CallInv
<1>2. Reaches(p, i)
  BY DEF Freeing, Making, Reaches
<1>q. QED
  BY <1>1, <1>2 DEF Private, Typed

LEMMA OthersPrivate ==
  ASSUME InodeInv, LinkInv, NEW p \in Procs, Moves(p), KeepsOthers(p), Touches(p), Reached(p),
         NEW q \in Procs, q # p, NEW i \in Inums
  PROVE  Private(q, i)'
<1>1. SameCall(q) /\ SamePoints(q)
  BY OthersPoint
<1>2. SUFFICES ASSUME Freeing(q, i)' \/ Making(q, i)' PROVE Private(q, i)'
  BY DEF Private
<1>3. Freeing(q, i)' => Freeing(q, i)
  BY <1>1 DEF Freeing, SameCall, SamePoints
<1>4. Making(q, i)' => Making(q, i)
  BY <1>1 DEF Making, SameCall, SamePoints
<1>5. Private(q, i) /\ Alone(q, i) /\ dinode[i].nlink = 0 /\ dinode[i].type # "free"
  BY <1>2, <1>3, <1>4, PrivateIs
<1>6. ~Reaches(p, i) /\ ~Reaches(p, i)'
  BY <1>5 DEF Alone, Reached
<1>7. dinode'[i] = dinode[i] /\ dirent'[i] = dirent[i]
  BY <1>5, <1>6 DEF Touches
<1>8. ASSUME NEW r \in Procs, r # q PROVE ~Reaches(r, i)'
  <2>1. CASE r = p
    BY <1>6, <2>1
  <2>2. CASE r # p
    BY <1>5, <1>8, <2>2, OthersPoint DEF Alone, SamePoints
  <2>q. QED
    BY <2>1, <2>2
<1>9. Alone(q, i)'
  BY <1>1, <1>5, <1>8 DEF Alone, SamePoints
<1>10. ~Points(ip[q], i) => ~Points(ip[q], i)'
  BY <1>1 DEF SamePoints
<1>11. NewType(q)' = NewType(q)
  BY <1>1 DEF NewType, SameCall
<1>q. QED
  BY <1>3, <1>4, <1>5, <1>7, <1>9, <1>10, <1>11 DEF Private

LEMMA OthersRely ==
  ASSUME InodeInv, NEW p \in Procs, Moves(p), KeepsOthers(p), Touches(p), NEW q \in Procs, q # p, Relies(q)
  PROVE  Relies(q)'
<1>1. SameCall(q) /\ Stage(q)
  BY OthersPoint DEF InodeInv
<1>2. pc[q] \in {"victim", "new"} => Used(cur[q]) /\ Used(ip[q]) /\ lock[cur[q]] = q /\ cur[q] \in Slots
  BY <1>1, Holders, PointersUsed DEF HasDir, Where, Putting, Stage, WithInode, Used
<1>3. pc[q] \in {"victim", "new"} => icache'[cur[q]].inum = icache[cur[q]].inum /\ icache'[ip[q]].inum = icache[ip[q]].inum
  BY <1>2 DEF KeepsOthers, Used
<1>4. ASSUME pc[q] \in {"victim", "new"} PROVE Here(q)' = Here(q)
  <2> DEFINE d == icache[cur[q]].inum
  <2>1. d \in Inums
    BY <1>2, <1>4 DEF InodeInv, Good, EntryT, Used
  <2>2. ASSUME NEW s, Used(s), icache[s].inum = d, lock[s] \in {NoProc, p} PROVE FALSE
    <3>1. s = cur[q]
      BY <1>2, <1>4, <2>2 DEF Used, InodeInv, Good
    <3>q. QED
      BY <1>2, <1>4, <2>2, <3>1, NoProcAssumption
  <2>3. dirent'[d] = dirent[d]
    BY <2>1, <2>2 DEF Touches
  <2>q. QED
    BY <1>1, <1>3, <1>4, <2>3 DEF Here, SameCall
<1>5. Name(q)' = Name(q)
  BY <1>1 DEF Name, SameCall
<1>q. QED
  BY <1>1, <1>3, <1>4, <1>5 DEF Relies, SameCall

LEMMA OthersCall ==
  ASSUME InodeInv, LinkInv, NEW p \in Procs, Moves(p), KeepsOthers(p), TypesKept(p), Touches(p), Reached(p),
         NEW q \in Procs, q # p
  PROVE  CallInv(q)'
<1>1. SameCall(q) /\ SamePoints(q) /\ CallInv(q)
  BY OthersPoint DEF LinkInv, CallsInv
<1>2. ASSUME NEW i \in Inums, Reaches(q, i) PROVE dinode'[i].type = dinode[i].type /\ dinode[i].type # "free"
  <2>1. dinode[i].type # "free"
    BY <1>1, <1>2 DEF CallInv, Typed
  <2>2. ~Freeing(p, i)
    BY <1>2, PrivateIs DEF Alone
  <2>q. QED
    BY <2>1, <2>2, TypeStays
<1>3. ASSUME NEW i \in Inums PROVE Typed(q, i)'
  BY <1>1, <1>2 DEF Typed, SamePoints
<1>4. ASSUME NEW i \in Inums PROVE Knows(q, i)'
  <2>1. Points(cur[q], i) \/ Points(ip[q], i) => dinode'[i].type = dinode[i].type
    BY <1>2 DEF Reaches
  <2>2. Where(q)' = Where(q) /\ call'[q] = call[q]
    BY <1>1 DEF Where, SameCall
  <2>3. (Points(cur[q], i)' <=> Points(cur[q], i)) /\ (Points(ip[q], i)' <=> Points(ip[q], i))
    BY <1>1 DEF SamePoints
  <2>q. QED
    BY <1>1, <2>1, <2>2, <2>3 DEF Knows, CallInv
<1>q. QED
  BY <1>1, <1>3, <1>4, OthersPrivate, OthersRely DEF CallInv

LEMMA OwnTyped ==
  ASSUME InodeInv, LinkInv, NEW p \in Procs, TypesKept(p), Reached(p), FreesLast(p), NEW i \in Inums
  PROVE  Typed(p, i)'
<1>1. SUFFICES ASSUME Reaches(p, i)' PROVE dinode'[i].type # "free"
  BY DEF Typed
<1>2. ~Freeing(p, i)
  BY <1>1 DEF FreesLast
<1>3. CASE Reaches(p, i)
  BY <1>2, <1>3, TypeStays DEF LinkInv, CallsInv, CallInv, Typed
<1>4. CASE dinode[i].nlink > 0
  BY <1>2, <1>4, TypeStays DEF LinkInv, TreeInv, Shape
<1>q. QED
  BY <1>1, <1>3, <1>4 DEF Reached

\* What has to be seen of a step of p.
OwnCall(p) == Relies(p)' /\ \A i \in Inums : Private(p, i)' /\ Knows(p, i)'
LEMMA CallsKept ==
  ASSUME InodeInv, LinkInv, NEW p \in Procs, Did(p), Touches(p), Reached(p), FreesLast(p), OwnCall(p)
  PROVE  CallsInv'
<1>1. Moves(p) /\ KeepsOthers(p) /\ TypesKept(p)
  BY DEF Did
<1>2. CallInv(p)'
  BY <1>1, OwnTyped DEF OwnCall, CallInv
<1>3. \A q \in Procs : q # p => CallInv(q)'
  BY <1>1, OthersCall
<1>q. QED
  BY <1>2, <1>3 DEF CallsInv

\* A step that writes nothing to the disk and gets ahead of no entry.
LEMMA AheadOthers ==
  ASSUME InodeInv, NEW p \in Procs, Moves(p), KeepsOthers(p), NEW q \in Procs, q # p, NEW i
  PROVE  q \in Ahead(i)' <=> q \in Ahead(i)
<1>1. SameCall(q) /\ SamePoints(q)
  BY OthersPoint
<1>2. Where(q)' = Where(q) /\ call'[q] = call[q] /\ (Points(ip[q], i)' <=> Points(ip[q], i))
  BY <1>1 DEF Where, SameCall, SamePoints
<1>q. QED
  BY <1>2 DEF Ahead, Points

LEMMA QuietKeeps ==
  ASSUME InodeInv, LinkInv, NEW p \in Procs, Did(p), dinode' = dinode, dirent' = dirent,
         pc[p] \notin {"free", "new"}, Reached(p), OwnCall(p), \A i \in Inums : p \in Ahead(i)' => p \in Ahead(i)
  PROVE  LinkInv'
<1>1. Moves(p) /\ KeepsOthers(p)
  BY DEF Did
<1>2. Touches(p) /\ FreesLast(p)
  BY DEF Touches, FreesLast, Freeing
<1>3. CallsInv'
  BY <1>2, CallsKept
<1>4. ASSUME NEW i \in Inums, NEW q \in Procs, Making(q, i) PROVE Making(q, i)'
  <2>1. SameCall(q) /\ SamePoints(q)
    BY <1>1, <1>4, OthersPoint DEF Making
  <2>q. QED
    BY <1>4, <2>1 DEF Making, SameCall, SamePoints
<1>5. TreeInv'
  <2>1. \A i \in Inums : Shape(i)'
    BY <1>4 DEF LinkInv, TreeInv, Shape
  <2>2. OneName' /\ RootIsTop'
    BY DEF LinkInv, TreeInv, OneName, RootIsTop
  <2>q. QED
    BY <2>1, <2>2 DEF TreeInv
<1>6. ASSUME NEW i \in Inums
      PROVE  dinode'[i].nlink >= Cardinality(LinksTo(i))' + Cardinality(Ahead(i))'
  <2>1. LinksTo(i)' = LinksTo(i)
    BY DEF LinksTo, Named
  <2>2. Ahead(i)' \subseteq Ahead(i)
    <3>1. ASSUME NEW q \in Ahead(i)' PROVE q \in Ahead(i)
      <4>1. q \in Procs
        BY <3>1 DEF Ahead
      <4>q. QED
        BY <1>1, <3>1, <4>1, AheadOthers
    <3>q. QED
      BY <3>1
  <2>3. IsFiniteSet(Ahead(i))
    BY FiniteLinks DEF LinksAreFinite
  <2>4. Cardinality(Ahead(i)') <= Cardinality(Ahead(i)) /\ Cardinality(Ahead(i)') \in Nat
    BY <2>2, <2>3, FS_Subset, FS_CardinalityType
  <2>5. /\ dinode[i].nlink \in Int /\ NumLinks(i) \in Nat /\ NumAhead(i) \in Nat
        /\ dinode[i].nlink >= NumLinks(i) + NumAhead(i)
    BY LinksMean DEF LinkInv
  <2>q. QED
    BY <2>1, <2>4, <2>5 DEF NumLinks, NumAhead
<1>q. QED
  BY <1>3, <1>5, <1>6 DEF LinkInv, LinksAreCounted

-----------------------------------------------------------------------------
(* Links: steps that write nothing to the disk *)

Forward(p) == (call[p].op = "link" /\ Where(p) # "linked") \/ Where(p) = "unlinked"
LEMMA AheadIs ==
  ASSUME NEW p \in Procs, NEW i
  PROVE  p \in Ahead(i) <=> Points(ip[p], i) /\ Forward(p)
  BY DEF Ahead, Points, Forward

\* What such a step may do.
Minor(p, g) ==
  /\ dinode' = dinode /\ dirent' = dirent /\ pc[p] \notin {"free", "new"} /\ Takes(p, g)
  /\ Where(p)' \in InDir =>
       \/ cur'[p] = None
       \/ cur'[p] = cur[p] /\ (Where(p) \in InDir \/ dinode[icache[cur[p]].inum].type = "dir")
  /\ call'[p].op = "link" => ip'[p] = None \/ (ip'[p] = ip[p] /\ call[p].op = "link")
  /\ Forward(p)' => ip'[p] = None \/ (ip'[p] = ip[p] /\ Forward(p))
Comes(p, g) == g # None => dinode[icache'[g].inum].nlink > 0 \/ Reaches(p, icache'[g].inum)
LEMMA MinorKeeps ==
  ASSUME InodeInv, LinkInv, NEW p \in Procs, Did(p), NEW g, Minor(p, g), Comes(p, g),
         Relies(p)', \A i \in Inums : Private(p, i)'
  PROVE  LinkInv'
<1>1. Moves(p) /\ KeepsOthers(p)
  BY DEF Did
<1>2. Reached(p)
  BY <1>1, TakesReached DEF Minor, Comes
<1>3. \A i : cur'[p] = cur[p] => (Points(cur[p], i)' <=> Points(cur[p], i))
  BY <1>1, PointsKept DEF Points, Holding
<1>4. \A i : ip'[p] = ip[p] => (Points(ip[p], i)' <=> Points(ip[p], i))
  BY <1>1, PointsKept DEF Points, Holding
<1>5. ASSUME NEW i \in Inums PROVE Knows(p, i)'
  <2>1. Knows(p, i)
    BY DEF LinkInv, CallsInv, CallInv
  <2>2. ASSUME Where(p)' \in InDir, Points(cur[p], i)' PROVE dinode[i].type = "dir"
    <3>1. cur'[p] # None
      BY <2>2 DEF Points
    <3>2. cur'[p] = cur[p] /\ (Where(p) \in InDir \/ dinode[icache[cur[p]].inum].type = "dir")
      BY <2>2, <3>1 DEF Minor
    <3>3. Points(cur[p], i)
      BY <1>3, <2>2, <3>2
    <3>q. QED
      BY <2>1, <3>2, <3>3 DEF Knows, Points
  <2>3. ASSUME (call[p].op = "link")', Points(ip[p], i)' PROVE dinode[i].type = "file"
    <3>1. ip'[p] # None
      BY <2>3 DEF Points
    <3>2. ip'[p] = ip[p] /\ call[p].op = "link"
      BY <2>3, <3>1 DEF Minor
    <3>q. QED
      BY <1>4, <2>1, <2>3, <3>2 DEF Knows
  <2>q. QED
    BY <2>2, <2>3 DEF Knows, Minor
<1>6. ASSUME NEW i \in Inums, p \in Ahead(i)' PROVE p \in Ahead(i)
  <2>1. Points(ip[p], i)' /\ Forward(p)'
    BY <1>6 DEF Ahead, Points, Forward
  <2>2. ip'[p] # None
    BY <2>1 DEF Points
  <2>3. ip'[p] = ip[p] /\ Forward(p)
    BY <2>1, <2>2 DEF Minor
  <2>q. QED
    BY <1>4, <2>1, <2>3, AheadIs
<1>q. QED
  BY <1>2, <1>5, <1>6, QuietKeeps DEF Minor, OwnCall

Plain(p) == pc'[p] \notin {"free", "new", "victim"} /\ (pc'[p] \in Putting => then'[p] \notin {"new", "victim"})
LEMMA PlainCall ==
  ASSUME NEW p \in Procs, Plain(p)
  PROVE  Relies(p)' /\ \A i \in Inums : Private(p, i)'
  BY DEF Plain, Relies, Private, Freeing, Making

LEMMA PlainKeeps ==
  ASSUME InodeInv, LinkInv, NEW p \in Procs, Did(p), NEW g, Minor(p, g), Comes(p, g), Plain(p)
  PROVE  LinkInv'
  BY PlainCall, MinorKeeps

\* The entry that iget gives for an element of the path.
LEMMA GotName ==
  ASSUME InodeInv, LinkInv, ParentsLinked, NEW p \in Procs, cur[p] # None, rest[p] # <<>>, Ilock(cur[p]),
         dinode' = dinode, Here(p)[Name(p)] # 0, Get(Loaded(cur[p]), Here(p)[Name(p)])
  PROVE  LET g == SlotOf(Loaded(cur[p]), Here(p)[Name(p)]) IN
         g \in Slots /\ icache'[g].inum = Here(p)[Name(p)] /\ Comes(p, g)
<1> DEFINE g == SlotOf(Loaded(cur[p]), Here(p)[Name(p)])
           t == Here(p)[Name(p)]
<1>1. Used(cur[p])
  BY PointersUsed
<1>2. Name(p) \in Entry /\ t \in Inums
  BY <1>1, NameIs
<1>3. g \in Slots /\ icache'[g].inum = t
  BY <1>1, <1>2, GetCounts
<1>4. dinode[t].nlink > 0 \/ t = icache[cur[p]].inum
  BY <1>1, <1>2, TargetLinked DEF Here
<1>5. Reaches(p, icache[cur[p]].inum)
  BY DEF Reaches, Points
<1> HIDE DEF g, t
<1>6. Comes(p, g)
  BY <1>3, <1>4, <1>5 DEF Comes
<1>q. QED
  BY <1>3, <1>6 DEF g, t

LEMMA ToAt ==
  ASSUME InodeTypes, NEW p \in Procs,
         NEW at, NEW on, NEW cl, NEW r, NEW c, NEW i, NEW u, NEW f, NEW w, To(p, at, on, cl, r, c, i, u, f, w)
  PROVE  At(p, at, on, cl, r, c, i, u, f, w)
<1>1. /\ pc \in [Procs -> PC] /\ then \in [Procs -> PC] /\ call = [q \in Procs |-> call[q]]
      /\ rest \in [Procs -> Seq(Entry)]
      /\ cur \in [Procs -> Slots \cup {None}] /\ ip \in [Procs -> Slots \cup {None}]
      /\ put \in [Procs -> Slots \cup {None}] /\ file \in [Procs -> Slots \cup {None}]
      /\ cwd \in [Procs -> Slots]
  BY DEF InodeTypes, Pointer
<1>q. QED
  BY <1>1 DEF To, At

LEMMA CloseLinks ==
  ASSUME InodeInv, LinkInv, NEW p \in Procs, Close(p)
  PROVE  LinkInv'
<1>1. Did(p) /\ InodeTypes /\ Still(p)
  BY CloseStep, Begins
<1>2. pc[p] = "user" /\ dinode' = dinode /\ dirent' = dirent
  BY DEF Close, disk
<1>a. To(p, "put", "user", call[p], rest[p], cur[p], ip[p], file[p], None, cwd[p])
  BY <1>1 DEF Close, Put, Still, To
<1>b. At(p, "put", "user", call[p], rest[p], cur[p], ip[p], file[p], None, cwd[p])
  BY <1>1, <1>a, ToAt
<1>3. Minor(p, None)
  BY <1>2, <1>b DEF At, Minor, Takes, Holding, Forward, Where, InDir, Putting
<1>4. Plain(p) /\ Comes(p, None)
  BY <1>b DEF At, Plain, Comes
<1>q. QED
  BY <1>1, <1>3, <1>4, PlainKeeps

LEMMA EnterLinks ==
  ASSUME InodeInv, LinkInv, NEW p \in Procs, NEW c \in Calls[p], Enter(p, c)
  PROVE  LinkInv'
<1> DEFINE i == IF c.abs THEN Root ELSE icache[cwd[p]].inum
           t == SlotOf(icache, i)
<1>1. Did(p) /\ InodeTypes /\ Still(p) /\ Stage(p)
  BY EnterStep, Begins
<1>2. pc[p] = "user" /\ dinode' = dinode /\ dirent' = dirent /\ Get(icache, i)
  BY DEF Enter, Namex, disk
<1>3. ip[p] = None
  BY <1>1, <1>2 DEF Stage, Where, Putting, WithInode
<1>a. To(p, "walk", then[p], c, c.path, t, ip[p], put[p], file[p], cwd[p])
  BY <1>1, <1>2 DEF Enter, Namex, Goto, long, Still, To
<1>4. i \in Inums /\ (dinode[i].nlink > 0 \/ Reaches(p, i))
  <2>1. Used(cwd[p]) /\ icache[cwd[p]].inum \in Inums
    BY PointersUsed DEF InodeInv, Good, EntryT, Used
  <2>2. Reaches(p, icache[cwd[p]].inum)
    BY <2>1, SlotsAre DEF Reaches, Points, Used
  <2>q. QED
    BY <2>1, <2>2, RootLinked, SlotsAre
<1>5. From(p, icache)
  BY <1>2 DEF From, Keeps, SameRefs, TypesKept, InodeInv, Good
<1> HIDE DEF i
<1>6. icache'[t].inum = i
  BY <1>2, <1>4, <1>5, GetFrom
<1> HIDE DEF t
<1>b. At(p, "walk", then[p], c, c.path, t, ip[p], put[p], file[p], cwd[p])
  BY <1>1, <1>a, ToAt
<1>7. Minor(p, t)
  BY <1>2, <1>3, <1>b DEF At, Minor, Takes, Holding, Forward, Where, InDir, Putting
<1>8. Plain(p) /\ Comes(p, t)
  BY <1>4, <1>6, <1>b DEF At, Plain, Comes, Putting
<1>q. QED
  BY <1>1, <1>7, <1>8, PlainKeeps

LEMMA IputDropLinks ==
  ASSUME InodeInv, LinkInv, NEW p \in Procs, IputDrop(p)
  PROVE  LinkInv'
<1>1. Did(p) /\ InodeTypes /\ Still(p) /\ Stage(p) /\ Relies(p)
  BY IputDropStep, Begins DEF LinkInv, CallsInv, CallInv
<1>2. pc[p] = "drop" /\ dinode' = dinode /\ dirent' = dirent
  BY DEF IputDrop, disk
<1>3. Where(p) = then[p] /\ then[p] \notin {"new", "victim"} \cup Putting
  BY <1>1, <1>2 DEF Where, Relies, Putting, Stage
<1>4. CASE then[p] = "user"
  <2>1. ip[p] = None
    BY <1>1, <1>3, <1>4 DEF Stage, WithInode
  <2>a. To(p, "user", then[p], NoCall, <<>>, cur[p], ip[p], None, file[p], cwd[p])
    BY <1>1, <1>4 DEF IputDrop, Return, Goto, long, Still, To
  <2>b. At(p, "user", then[p], NoCall, <<>>, cur[p], ip[p], None, file[p], cwd[p])
    BY <1>1, <2>a, ToAt
  <2>2. Minor(p, None)
    BY <1>2, <2>1, <2>b DEF At, Minor, Takes, Holding, Forward, Where, InDir, Putting, NoCall
  <2>3. Plain(p) /\ Comes(p, None)
    BY <2>b DEF At, Plain, Comes, Putting
  <2>q. QED
    BY <1>1, <2>2, <2>3, PlainKeeps
<1>5. CASE then[p] # "user"
  <2>a. To(p, then[p], then[p], call[p], rest[p], cur[p], ip[p], None, file[p], cwd[p])
    BY <1>1, <1>5 DEF IputDrop, Goto, long, Still, To
  <2>b. At(p, then[p], then[p], call[p], rest[p], cur[p], ip[p], None, file[p], cwd[p])
    BY <1>1, <2>a, ToAt
  <2>1. Where(p)' = Where(p)
    BY <1>3, <2>b DEF At, Where, Putting
  <2>2. Minor(p, None)
    BY <1>2, <2>1, <2>b DEF At, Minor, Takes, Holding, Forward
  <2>3. Plain(p) /\ Comes(p, None)
    BY <1>3, <2>b DEF At, Plain, Comes, Putting
  <2>q. QED
    BY <1>1, <2>2, <2>3, PlainKeeps
<1>q. QED
  BY <1>4, <1>5

LEMMA UnlockDirLinks ==
  ASSUME InodeInv, LinkInv, NEW p \in Procs, UnlockDir(p)
  PROVE  LinkInv'
<1>1. Did(p) /\ InodeTypes /\ Still(p) /\ Stage(p)
  BY UnlockDirStep, Begins
<1>2. pc[p] = "unlockdp" /\ dinode' = dinode /\ dirent' = dirent
  BY DEF UnlockDir, disk
<1>3. Failed(p) \in {"bad", "user"} /\ (ip[p] # None => Failed(p) = "bad" /\ call[p].op = "link")
  BY <1>1, <1>2 DEF Stage, Where, WithInode, Putting, Failed, Relinking
<1>a. To(p, "put", Failed(p), call[p], rest[p], None, ip[p], cur[p], file[p], cwd[p])
  BY <1>1 DEF UnlockDir, DropDir, Put, long, Still, To
<1>b. At(p, "put", Failed(p), call[p], rest[p], None, ip[p], cur[p], file[p], cwd[p])
  BY <1>1, <1>a, ToAt
<1>4. Minor(p, None)
  BY <1>2, <1>3, <1>b DEF At, Minor, Takes, Holding, Forward, Where, InDir, Putting
<1>5. Plain(p) /\ Comes(p, None)
  BY <1>3, <1>b DEF At, Plain, Comes
<1>q. QED
  BY <1>1, <1>4, <1>5, PlainKeeps

LEMMA LinkedLinks ==
  ASSUME InodeInv, LinkInv, NEW p \in Procs, Linked(p)
  PROVE  LinkInv'
<1>1. Did(p) /\ InodeTypes /\ Still(p)
  BY LinkedStep, Begins
<1>2. pc[p] = "linked" /\ dinode' = dinode /\ dirent' = dirent
  BY DEF Linked, disk
<1>a. To(p, "put", "user", call[p], rest[p], cur[p], None, ip[p], file[p], cwd[p])
  BY <1>1 DEF Linked, Put, long, Still, To
<1>b. At(p, "put", "user", call[p], rest[p], cur[p], None, ip[p], file[p], cwd[p])
  BY <1>1, <1>a, ToAt
<1>3. Minor(p, None)
  BY <1>2, <1>b DEF At, Minor, Takes, Holding, Forward, Where, InDir, Putting
<1>4. Plain(p) /\ Comes(p, None)
  BY <1>b DEF At, Plain, Comes
<1>q. QED
  BY <1>1, <1>3, <1>4, PlainKeeps

LEMMA OpenLinks ==
  ASSUME InodeInv, LinkInv, NEW p \in Procs, Open(p)
  PROVE  LinkInv'
<1>1. Did(p) /\ InodeTypes /\ Still(p) /\ Stage(p)
  BY OpenStep, Begins
<1>2. pc[p] = "open" /\ dinode' = dinode /\ dirent' = dirent
  BY DEF Open, disk
<1>3. ip[p] = None
  BY <1>1, <1>2 DEF Stage, Where, Doing, WithInode, Putting
<1>4. CASE Fail(p, cur[p])
  <2>a. To(p, "put", "user", call[p], rest[p], None, ip[p], cur[p], file[p], cwd[p])
    BY <1>1, <1>4 DEF Open, Fail, Put, Return, Goto, long, Still, To
  <2>b. At(p, "put", "user", call[p], rest[p], None, ip[p], cur[p], file[p], cwd[p])
    BY <1>1, <2>a, ToAt
  <2>1. Minor(p, None)
    BY <1>1, <1>2, <1>3, <2>b DEF At, Minor, Takes, Holding, Forward, Where, InDir, Putting, NoCall
  <2>2. Plain(p) /\ Comes(p, None)
    BY <2>b DEF At, Plain, Comes, Putting
  <2>q. QED
    BY <1>1, <2>1, <2>2, PlainKeeps
<1>5. CASE file[p] = None /\ file' = [file EXCEPT ![p] = cur[p]] /\ Return(p) /\ UNCHANGED put
  <2>a. To(p, "user", then[p], NoCall, <<>>, None, ip[p], put[p], cur[p], cwd[p])
    BY <1>1, <1>5 DEF Open, Fail, Put, Return, Goto, long, Still, To
  <2>b. At(p, "user", then[p], NoCall, <<>>, None, ip[p], put[p], cur[p], cwd[p])
    BY <1>1, <2>a, ToAt
  <2>1. Minor(p, None)
    BY <1>1, <1>2, <1>3, <2>b DEF At, Minor, Takes, Holding, Forward, Where, InDir, Putting, NoCall
  <2>2. Plain(p) /\ Comes(p, None)
    BY <2>b DEF At, Plain, Comes, Putting
  <2>q. QED
    BY <1>1, <2>1, <2>2, PlainKeeps
<1>q. QED
  BY <1>4, <1>5 DEF Open, Install

LEMMA ChdirLinks ==
  ASSUME InodeInv, LinkInv, NEW p \in Procs, Chdir(p)
  PROVE  LinkInv'
<1>1. Did(p) /\ InodeTypes /\ Still(p) /\ Stage(p)
  BY ChdirStep, Begins
<1>2. pc[p] = "chdir" /\ dinode' = dinode /\ dirent' = dirent
  BY DEF Chdir, disk
<1>3. ip[p] = None
  BY <1>1, <1>2 DEF Stage, Where, Doing, WithInode, Putting
<1>4. CASE Put(p, cur[p], "user") /\ UNCHANGED cwd
  <2>a. To(p, "put", "user", call[p], rest[p], None, ip[p], cur[p], file[p], cwd[p])
    BY <1>1, <1>4 DEF Chdir, Put, long, Still, To
  <2>b. At(p, "put", "user", call[p], rest[p], None, ip[p], cur[p], file[p], cwd[p])
    BY <1>1, <2>a, ToAt
  <2>1. Minor(p, None)
    BY <1>1, <1>2, <1>3, <2>b DEF At, Minor, Takes, Holding, Forward, Where, InDir, Putting, NoCall
  <2>2. Plain(p) /\ Comes(p, None)
    BY <2>b DEF At, Plain, Comes, Putting
  <2>q. QED
    BY <1>1, <2>1, <2>2, PlainKeeps
<1>5. CASE Put(p, cwd[p], "user") /\ cwd' = [cwd EXCEPT ![p] = cur[p]]
  <2>a. To(p, "put", "user", call[p], rest[p], None, ip[p], cwd[p], file[p], cur[p])
    BY <1>1, <1>5 DEF Chdir, Put, long, Still, To
  <2>b. At(p, "put", "user", call[p], rest[p], None, ip[p], cwd[p], file[p], cur[p])
    BY <1>1, <2>a, ToAt
  <2>1. Minor(p, None)
    BY <1>1, <1>2, <1>3, <2>b DEF At, Minor, Takes, Holding, Forward, Where, InDir, Putting, NoCall
  <2>2. Plain(p) /\ Comes(p, None)
    BY <2>b DEF At, Plain, Comes, Putting
  <2>q. QED
    BY <1>1, <2>1, <2>2, PlainKeeps
<1>q. QED
  BY <1>4, <1>5 DEF Chdir

LEMMA UseExistingLinks ==
  ASSUME InodeInv, LinkInv, NEW p \in Procs, UseExisting(p)
  PROVE  LinkInv'
<1>1. Did(p) /\ InodeTypes /\ Still(p) /\ Stage(p)
  BY UseExistingStep, Begins
<1>2. pc[p] = "existing" /\ dinode' = dinode /\ dirent' = dirent
  BY DEF UseExisting, disk
<1>4. CASE Fail(p, ip[p])
  <2>a. To(p, "put", "user", call[p], rest[p], cur[p], None, ip[p], file[p], cwd[p])
    BY <1>1, <1>4 DEF UseExisting, Fail, Put, Return, Goto, long, Still, To
  <2>b. At(p, "put", "user", call[p], rest[p], cur[p], None, ip[p], file[p], cwd[p])
    BY <1>1, <2>a, ToAt
  <2>1. Minor(p, None)
    BY <1>1, <1>2, <2>b DEF At, Minor, Takes, Holding, Forward, Where, InDir, Putting, NoCall
  <2>2. Plain(p) /\ Comes(p, None)
    BY <2>b DEF At, Plain, Comes, Putting
  <2>q. QED
    BY <1>1, <2>1, <2>2, PlainKeeps
<1>5. CASE file[p] = None /\ file' = [file EXCEPT ![p] = ip[p]] /\ Return(p) /\ UNCHANGED put
  <2>a. To(p, "user", then[p], NoCall, <<>>, cur[p], None, put[p], ip[p], cwd[p])
    BY <1>1, <1>5 DEF UseExisting, Fail, Put, Return, Goto, long, Still, To
  <2>b. At(p, "user", then[p], NoCall, <<>>, cur[p], None, put[p], ip[p], cwd[p])
    BY <1>1, <2>a, ToAt
  <2>1. Minor(p, None)
    BY <1>1, <1>2, <2>b DEF At, Minor, Takes, Holding, Forward, Where, InDir, Putting, NoCall
  <2>2. Plain(p) /\ Comes(p, None)
    BY <2>b DEF At, Plain, Comes, Putting
  <2>q. QED
    BY <1>1, <2>1, <2>2, PlainKeeps
<1>q. QED
  BY <1>4, <1>5 DEF UseExisting, Install

LEMMA CreatedLinks ==
  ASSUME InodeInv, LinkInv, NEW p \in Procs, Created(p)
  PROVE  LinkInv'
<1>1. Did(p) /\ InodeTypes /\ Still(p) /\ Stage(p)
  BY CreatedStep, Begins
<1>2. pc[p] = "created" /\ dinode' = dinode /\ dirent' = dirent
  BY DEF Created, disk
<1>4. CASE Fail(p, ip[p])
  <2>a. To(p, "put", "user", call[p], rest[p], cur[p], None, ip[p], file[p], cwd[p])
    BY <1>1, <1>4 DEF Created, Fail, Put, Return, Goto, long, Still, To
  <2>b. At(p, "put", "user", call[p], rest[p], cur[p], None, ip[p], file[p], cwd[p])
    BY <1>1, <2>a, ToAt
  <2>1. Minor(p, None)
    BY <1>1, <1>2, <2>b DEF At, Minor, Takes, Holding, Forward, Where, InDir, Putting, NoCall
  <2>2. Plain(p) /\ Comes(p, None)
    BY <2>b DEF At, Plain, Comes, Putting
  <2>q. QED
    BY <1>1, <2>1, <2>2, PlainKeeps
<1>5. CASE file[p] = None /\ file' = [file EXCEPT ![p] = ip[p]] /\ Return(p) /\ UNCHANGED put
  <2>a. To(p, "user", then[p], NoCall, <<>>, cur[p], None, put[p], ip[p], cwd[p])
    BY <1>1, <1>5 DEF Created, Fail, Put, Return, Goto, long, Still, To
  <2>b. At(p, "user", then[p], NoCall, <<>>, cur[p], None, put[p], ip[p], cwd[p])
    BY <1>1, <2>a, ToAt
  <2>1. Minor(p, None)
    BY <1>1, <1>2, <2>b DEF At, Minor, Takes, Holding, Forward, Where, InDir, Putting, NoCall
  <2>2. Plain(p) /\ Comes(p, None)
    BY <2>b DEF At, Plain, Comes, Putting
  <2>q. QED
    BY <1>1, <2>1, <2>2, PlainKeeps
<1>q. QED
  BY <1>4, <1>5 DEF Created, Install

LEMMA UnlinkFailsLinks ==
  ASSUME InodeInv, LinkInv, NEW p \in Procs, UnlinkFails(p)
  PROVE  LinkInv'
<1>1. Did(p) /\ InodeTypes /\ Still(p) /\ Stage(p)
  BY UnlinkFailsStep, Begins
<1>2. pc[p] = "unlink" /\ dinode' = dinode /\ dirent' = dirent
  BY DEF UnlinkFails, disk
<1>3. ip[p] = None
  BY <1>1, <1>2 DEF Stage, Where, Doing, WithInode, Putting
<1>a. To(p, "put", "user", call[p], rest[p], None, ip[p], cur[p], file[p], cwd[p])
  BY <1>1 DEF UnlinkFails, DropDir, Put, long, Still, To
<1>b. At(p, "put", "user", call[p], rest[p], None, ip[p], cur[p], file[p], cwd[p])
  BY <1>1, <1>a, ToAt
<1>4. Minor(p, None)
  BY <1>1, <1>2, <1>3, <1>b DEF At, Minor, Takes, Holding, Forward, Where, InDir, Putting
<1>5. Plain(p) /\ Comes(p, None)
  BY <1>b DEF At, Plain, Comes
<1>q. QED
  BY <1>1, <1>4, <1>5, PlainKeeps

LEMMA LinkRefusedLinks ==
  ASSUME InodeInv, LinkInv, NEW p \in Procs, LinkRefused(p)
  PROVE  LinkInv'
<1>1. Did(p) /\ InodeTypes /\ Still(p) /\ Stage(p)
  BY LinkRefusedStep, Begins
<1>2. pc[p] = "link" /\ dinode' = dinode /\ dirent' = dirent
  BY DEF LinkRefused, disk
<1>3. ip[p] = None
  BY <1>1, <1>2 DEF Stage, Where, Doing, WithInode, Putting
<1>a. To(p, "put", "user", call[p], rest[p], None, ip[p], cur[p], file[p], cwd[p])
  BY <1>1 DEF LinkRefused, DropDir, Put, long, Still, To
<1>b. At(p, "put", "user", call[p], rest[p], None, ip[p], cur[p], file[p], cwd[p])
  BY <1>1, <1>a, ToAt
<1>4. Minor(p, None)
  BY <1>1, <1>2, <1>3, <1>b DEF At, Minor, Takes, Holding, Forward, Where, InDir, Putting
<1>5. Plain(p) /\ Comes(p, None)
  BY <1>b DEF At, Plain, Comes
<1>q. QED
  BY <1>1, <1>4, <1>5, PlainKeeps

LEMMA UnlinkRefusedLinks ==
  ASSUME InodeInv, LinkInv, NEW p \in Procs, UnlinkRefused(p)
  PROVE  LinkInv'
<1>1. Did(p) /\ InodeTypes /\ Still(p) /\ Stage(p)
  BY UnlinkRefusedStep, Begins
<1>2. pc[p] = "victim" /\ dinode' = dinode /\ dirent' = dirent
  BY DEF UnlinkRefused, disk
<1>a. To(p, "put", "unlockdp", call[p], rest[p], cur[p], None, ip[p], file[p], cwd[p])
  BY <1>1 DEF UnlinkRefused, Put, long, Still, To
<1>b. At(p, "put", "unlockdp", call[p], rest[p], cur[p], None, ip[p], file[p], cwd[p])
  BY <1>1, <1>a, ToAt
<1>4. Minor(p, None)
  BY <1>1, <1>2, <1>b DEF At, Minor, Takes, Holding, Forward, Where, InDir, Putting
<1>5. Plain(p) /\ Comes(p, None)
  BY <1>b DEF At, Plain, Comes
<1>q. QED
  BY <1>1, <1>4, <1>5, PlainKeeps

LEMMA CreateExistingLinks ==
  ASSUME InodeInv, LinkInv, ParentsLinked, NEW p \in Procs, CreateExisting(p)
  PROVE  LinkInv'
<1> DEFINE g == SlotOf(Loaded(cur[p]), Here(p)[Name(p)])
<1>1. Did(p) /\ InodeTypes /\ Still(p) /\ Stage(p)
  BY CreateExistingStep, Begins
<1>2. pc[p] \in {"create", "mkdir"} /\ dinode' = dinode /\ dirent' = dirent
  BY DEF CreateExisting, disk
<1>3. call[p].op # "link" /\ cur[p] # None /\ rest[p] # <<>>
  BY <1>1, <1>2 DEF Stage, Where, Doing, WithDir, WithName, Putting
<1>4. Comes(p, g)
  BY <1>2, <1>3, GotName DEF CreateExisting
<1>a. To(p, "put", "existing", call[p], rest[p], None, g, cur[p], file[p], cwd[p])
  BY <1>1 DEF CreateExisting, DropDir, Put, long, Still, To
<1> HIDE DEF g
<1>b. At(p, "put", "existing", call[p], rest[p], None, g, cur[p], file[p], cwd[p])
  BY <1>1, <1>a, ToAt
<1>5. Minor(p, g)
  BY <1>1, <1>2, <1>3, <1>b DEF At, Minor, Takes, Holding, Forward, Where, InDir, Putting
<1>6. Plain(p)
  BY <1>b DEF At, Plain
<1>q. QED
  BY <1>1, <1>4, <1>5, <1>6, PlainKeeps

LEMMA LinkTakenLinks ==
  ASSUME InodeInv, LinkInv, ParentsLinked, NEW p \in Procs, LinkTaken(p)
  PROVE  LinkInv'
<1> DEFINE g == SlotOf(Loaded(cur[p]), Here(p)[Name(p)])
<1>1. Did(p) /\ InodeTypes /\ Still(p) /\ Stage(p)
  BY LinkTakenStep, Begins
<1>2. pc[p] = "linkdp" /\ dinode' = dinode /\ dirent' = dirent
  BY DEF LinkTaken, disk
<1>3. call[p].op = "link" /\ cur[p] # None /\ rest[p] # <<>>
  BY <1>1, <1>2 DEF Stage, Where, Doing, WithDir, WithName, Putting
<1>4. Comes(p, g)
  BY <1>2, <1>3, GotName DEF LinkTaken
<1>a. To(p, "put", "unlockdp", call[p], rest[p], cur[p], ip[p], g, file[p], cwd[p])
  BY <1>1 DEF LinkTaken, Put, long, Still, To
<1> HIDE DEF g
<1>b. At(p, "put", "unlockdp", call[p], rest[p], cur[p], ip[p], g, file[p], cwd[p])
  BY <1>1, <1>a, ToAt
<1>5. Minor(p, g)
  BY <1>1, <1>2, <1>3, <1>b DEF At, Minor, Takes, Holding, Forward, Where, InDir, Putting
<1>6. Plain(p)
  BY <1>b DEF At, Plain
<1>q. QED
  BY <1>1, <1>4, <1>5, <1>6, PlainKeeps

LEMMA UnlinkFindLinks ==
  ASSUME InodeInv, LinkInv, ParentsLinked, NEW p \in Procs, UnlinkFind(p)
  PROVE  LinkInv'
<1> DEFINE t == Here(p)[Name(p)]
           g == SlotOf(Loaded(cur[p]), t)
<1>1. Did(p) /\ InodeTypes /\ Still(p) /\ Stage(p)
  BY UnlinkFindStep, Begins
<1>2. pc[p] = "unlink" /\ dinode' = dinode /\ dirent' = dirent /\ Name(p) \in Names
  BY DEF UnlinkFind, disk
<1>3. call[p].op # "link" /\ cur[p] # None /\ rest[p] # <<>>
  BY <1>1, <1>2 DEF Stage, Where, Doing, WithDir, WithName, Putting
<1>4. Comes(p, g) /\ icache'[g].inum = t
  BY <1>2, <1>3, GotName DEF UnlinkFind
<1>a. To(p, "victim", then[p], call[p], rest[p], cur[p], g, put[p], file[p], cwd[p])
  BY <1>1 DEF UnlinkFind, Goto, long, Still, To
<1> HIDE DEF g
<1>b. At(p, "victim", then[p], call[p], rest[p], cur[p], g, put[p], file[p], cwd[p])
  BY <1>1, <1>a, ToAt
<1>5. Minor(p, g)
  BY <1>1, <1>2, <1>3, <1>b DEF At, Minor, Takes, Holding, Forward, Where, InDir, Putting
<1>6. icache'[cur[p]].inum = icache[cur[p]].inum
  BY <1>1, <1>3, PointersUsed DEF Did, KeepsOthers, Used
<1>7. Relies(p)'
  BY <1>2, <1>4, <1>6, <1>b DEF At, Relies, Name, Here, Putting
<1>8. \A i \in Inums : Private(p, i)'
  BY <1>b DEF At, Private, Freeing, Making
<1>q. QED
  BY <1>1, <1>4, <1>5, <1>7, <1>8, MinorKeeps

LEMMA WalkLinks ==
  ASSUME InodeInv, LinkInv, ParentsLinked, NEW p \in Procs, Walk(p)
  PROVE  LinkInv'
<1> DEFINE s == cur[p]
           ic == Loaded(s)
           t == Here(p)[Name(p)]
<1>1. Did(p) /\ InodeTypes /\ Still(p) /\ Stage(p)
  BY WalkStep, Begins
<1>2. pc[p] = "walk" /\ dinode' = dinode /\ dirent' = dirent /\ Ilock(s)
  BY DEF Walk, disk
<1>3. Where(p) = "walk" /\ s # None /\ rest[p] # <<>> /\ (ip[p] # None => call[p].op = "link") /\ call[p] \in Calls[p]
  BY <1>1, <1>2 DEF Stage, Where, WithDir, WithName, WithInode, Putting
<1>4. call[p].op \in {"open", "chdir", "create", "mkdir", "unlink", "link"}
  BY <1>3, CallsAssumption
<1>5. ic[s].copy = dinode[icache[s].inum]
  BY <1>2, <1>3, PointersUsed, FromLoaded
<1>6. CASE /\ icache' = ic /\ cur' = [cur EXCEPT ![p] = None] /\ Put(p, s, Failed(p)) /\ UNCHANGED rest
  <2>1. Failed(p) \in {"bad", "user"} /\ (ip[p] # None => Failed(p) = "bad")
    BY <1>3 DEF Failed, Relinking
  <2>a. To(p, "put", Failed(p), call[p], rest[p], None, ip[p], s, file[p], cwd[p])
    BY <1>1, <1>6 DEF Walk, Put, long, Still, To
  <2>b. At(p, "put", Failed(p), call[p], rest[p], None, ip[p], s, file[p], cwd[p])
    BY <1>1, <2>a, ToAt
  <2>2. Minor(p, None)
    BY <1>2, <1>3, <2>1, <2>b DEF At, Minor, Takes, Holding, Forward, Where, InDir, Putting
  <2>3. Plain(p) /\ Comes(p, None)
    BY <2>1, <2>b DEF At, Plain, Comes
  <2>q. QED
    BY <1>1, <2>2, <2>3, PlainKeeps
<1>7. CASE /\ ic[s].copy.type = "dir" /\ WantsParent(p)
           /\ icache' = ic /\ Goto(p, Found(p)) /\ UNCHANGED <<cur, put, rest>>
  <2>1. /\ Found(p) \in {"linkdp", "create", "mkdir", "unlink"}
        /\ call[p].op = "link" <=> Found(p) = "linkdp"
    BY <1>3, <1>7 DEF Found, Relinking, WantsParent
  <2>a. To(p, Found(p), then[p], call[p], rest[p], cur[p], ip[p], put[p], file[p], cwd[p])
    BY <1>1, <1>7 DEF Walk, Goto, long, Still, To
  <2>b. At(p, Found(p), then[p], call[p], rest[p], cur[p], ip[p], put[p], file[p], cwd[p])
    BY <1>1, <2>a, ToAt
  <2>2. dinode[icache[cur[p]].inum].type = "dir"
    BY <1>5, <1>7
  <2>3. Minor(p, None)
    BY <1>2, <1>3, <2>1, <2>2, <2>b DEF At, Minor, Takes, Holding, Forward, Where, Putting
  <2>4. Plain(p) /\ Comes(p, None)
    BY <2>1, <2>b DEF At, Plain, Comes, Putting
  <2>q. QED
    BY <1>1, <2>3, <2>4, PlainKeeps
<1>8. CASE /\ t # 0 /\ ~(WantsParent(p) /\ Last(p)) /\ Get(ic, t) /\ cur' = [cur EXCEPT ![p] = SlotOf(ic, t)]
           /\ rest' = [rest EXCEPT ![p] = Tail(@)] /\ Put(p, s, IF Last(p) THEN Found(p) ELSE "walk")
  <2> DEFINE on == IF Last(p) THEN Found(p) ELSE "walk"
             g == SlotOf(ic, t)
             r == Tail(rest[p])
  <2>1. Comes(p, g)
    BY <1>2, <1>3, <1>8, GotName
  <2>2. on \in {"open", "chdir", "link", "walk"}
    BY <1>4, <1>8 DEF Found, Relinking, WantsParent
  <2>3. To(p, "put", on, call[p], r, g, ip[p], s, file[p], cwd[p])
    BY <1>1, <1>8 DEF Walk, Put, long, Still, To
  <2> HIDE DEF on, g, r, t
  <2>b. At(p, "put", on, call[p], r, g, ip[p], s, file[p], cwd[p])
    BY <1>1, <2>3, ToAt
  <2>4. Minor(p, g)
    BY <1>2, <1>3, <2>2, <2>b DEF At, Minor, Takes, Holding, Forward, Where, InDir, Putting
  <2>5. Plain(p)
    BY <2>2, <2>b DEF At, Plain
  <2>q. QED
    BY <1>1, <2>1, <2>4, <2>5, PlainKeeps
<1>q. QED
  BY <1>6, <1>7, <1>8 DEF Walk

\* iput finds that it has the last reference: then nobody else has the i-node.
LEMMA LastReference ==
  ASSUME InodeInv, NEW p \in Procs, put[p] # None, icache[put[p]].ref = 1
  PROVE  Used(put[p]) /\ \A i : Points(put[p], i) => ~Points(ip[p], i) /\ Alone(p, i)
<1> DEFINE s == put[p]
<1>1. Used(s) /\ s \in Slots
  BY PointersUsed DEF Used
<1>2. Cardinality(Pointers(s)) = 1
  BY <1>1 DEF InodeInv, RefsCounted
<1>3. /\ Cardinality(Pointers(s)) = Cardinality(Others(p, s)) + Num(p, s)
      /\ Cardinality(Others(p, s)) \in Nat /\ Num(p, s) \in Nat /\ IsFiniteSet(Others(p, s))
  BY <1>1, PointersAreCounted DEF NumIs
<1>4. Num(p, s) >= 1 /\ (s \in {cur[p], ip[p], file[p], cwd[p]} => Num(p, s) >= 2)
  BY DEF Num, One
<1>5. s \notin {cur[p], ip[p], file[p], cwd[p]} /\ Cardinality(Others(p, s)) = 0
  BY <1>2, <1>3, <1>4
<1>6. Others(p, s) = {}
  BY <1>3, <1>5, FS_EmptySet
<1>7. ASSUME NEW q \in Procs, q # p PROVE s \notin {cur[q], ip[q], put[q], file[q], cwd[q]}
  <2>1. /\ s = cur[q] => <<q, "cur">> \in Pointers(s)
        /\ s = ip[q] => <<q, "ip">> \in Pointers(s)
        /\ s = put[q] => <<q, "put">> \in Pointers(s)
        /\ s = file[q] => <<q, "file">> \in Pointers(s)
        /\ s = cwd[q] => <<q, "cwd">> \in Pointers(s)
    BY DEF Pointers
  <2>2. \A x : <<q, x>>[1] = q
    OBVIOUS
  <2>q. QED
    BY <1>6, <1>7, <2>1, <2>2 DEF Others
<1>8. ASSUME NEW i, Points(s, i), NEW q \in Procs, NEW t \in {cur[q], ip[q], put[q], file[q], cwd[q]}, Points(t, i)
      PROVE  t = s
  <2>1. t # None /\ Used(t) /\ icache[t].inum = i /\ icache[s].inum = i
    BY <1>8, PointersUsed DEF Points
  <2>q. QED
    BY <1>1, <2>1 DEF Used, InodeInv, Good
<1> HIDE DEF s
<1>9. ASSUME NEW i, Points(s, i) PROVE ~Points(ip[p], i) /\ Alone(p, i)
  BY <1>5, <1>7, <1>8, <1>9 DEF Alone, Reaches
<1>q. QED
  BY <1>1, <1>9 DEF s

LEMMA IputLockLinks ==
  ASSUME InodeInv, LinkInv, NEW p \in Procs, IputLock(p)
  PROVE  LinkInv'
<1>1. Did(p) /\ InodeTypes /\ Still(p) /\ Stage(p) /\ Relies(p)
  BY IputLockStep, Begins DEF LinkInv, CallsInv, CallInv
<1>2. pc[p] = "put" /\ dinode' = dinode /\ dirent' = dirent /\ icache' = icache
  BY DEF IputLock, disk
<1>3. put[p] # None /\ then[p] \notin {"new", "victim"}
  BY <1>1, <1>2 DEF Stage, Relies, Putting
<1>4. CASE icache[put[p]].copy # Invalid /\ icache[put[p]].copy.nlink = 0 /\ icache[put[p]].ref = 1
  <2>a. To(p, "free", then[p], call[p], rest[p], cur[p], ip[p], put[p], file[p], cwd[p])
    BY <1>1, <1>4 DEF IputLock, Goto, long, Still, To
  <2>b. At(p, "free", then[p], call[p], rest[p], cur[p], ip[p], put[p], file[p], cwd[p])
    BY <1>1, <2>a, ToAt
  <2>1. Minor(p, None)
    BY <1>2, <2>b DEF At, Minor, Takes, Holding, Forward, Where, Putting
  <2>2. Relies(p)'
    BY <1>3, <2>b DEF At, Relies
  <2>3. ASSUME NEW i \in Inums PROVE Private(p, i)'
    <3>1. SUFFICES ASSUME Points(put[p], i)
                   PROVE  dinode[i].nlink = 0 /\ (~Points(ip[p], i) /\ Alone(p, i))'
      BY <1>2, <2>b DEF At, Private, Freeing, Making, Points
    <3>2. ~Points(ip[p], i) /\ Alone(p, i) /\ Used(put[p])
      BY <1>3, <1>4, <3>1, LastReference
    <3>3. dinode[i].nlink = 0
      BY <1>4, <3>1, <3>2 DEF Points, Used, InodeInv, Good
    <3>4. \A q \in Procs : q # p => (Reaches(q, i)' <=> Reaches(q, i))
      BY <1>1, OthersPoint DEF Did, SamePoints
    <3>q. QED
      BY <1>2, <2>b, <3>2, <3>3, <3>4 DEF At, Alone, Points
  <2>4. Comes(p, None)
    BY DEF Comes
  <2>q. QED
    BY <1>1, <2>1, <2>2, <2>3, <2>4, MinorKeeps
<1>5. CASE ~(icache[put[p]].copy # Invalid /\ icache[put[p]].copy.nlink = 0 /\ icache[put[p]].ref = 1)
  <2>a. To(p, "drop", then[p], call[p], rest[p], cur[p], ip[p], put[p], file[p], cwd[p])
    BY <1>1, <1>5 DEF IputLock, Goto, long, Still, To
  <2>b. At(p, "drop", then[p], call[p], rest[p], cur[p], ip[p], put[p], file[p], cwd[p])
    BY <1>1, <2>a, ToAt
  <2>1. Minor(p, None)
    BY <1>2, <2>b DEF At, Minor, Takes, Holding, Forward, Where, Putting
  <2>2. Plain(p) /\ Comes(p, None)
    BY <1>3, <2>b DEF At, Plain, Comes
  <2>q. QED
    BY <1>1, <2>1, <2>2, PlainKeeps
<1>q. QED
  BY <1>4, <1>5

-----------------------------------------------------------------------------
(* Links: steps that write to the disk *)

Counted(i) == dinode[i].nlink >= NumLinks(i) + NumAhead(i)
LinksGrow(i, a) == NumLinks(i)' <= NumLinks(i) + a
AheadGrows(i, b) == NumAhead(i)' <= NumAhead(i) + b
LEMMA LinksChange ==
  ASSUME NEW i \in Inums
  PROVE  /\ LinksTo(i)' \subseteq LinksTo(i) => LinksGrow(i, 0)
         /\ \A x : LinksTo(i)' \subseteq LinksTo(i) \cup {x} => LinksGrow(i, 1)
         /\ \A x \in LinksTo(i) : LinksTo(i)' \subseteq LinksTo(i) \ {x} => LinksGrow(i, -1)
<1> DEFINE S == LinksTo(i)
<1>1. IsFiniteSet(S) /\ IsFiniteSet(S')
  BY FiniteLinks, FiniteLinksNext DEF LinksAreFinite
<1>2. NumLinks(i) = Cardinality(S) /\ NumLinks(i)' = Cardinality(S')
  BY DEF NumLinks
<1> HIDE DEF S
<1>3. /\ Cardinality(S) \in Nat /\ Cardinality(S') \in Nat
      /\ S' \subseteq S => Cardinality(S') <= Cardinality(S)
      /\ \A x : S' \subseteq S \cup {x} => Cardinality(S') <= Cardinality(S) + 1
      /\ \A x \in S : S' \subseteq S \ {x} => Cardinality(S') <= Cardinality(S) - 1
  BY <1>1, SetsCount
<1>q. QED
  BY <1>2, <1>3 DEF LinksGrow, S

LEMMA AheadChange ==
  ASSUME InodeInv, NEW p \in Procs, Moves(p), KeepsOthers(p), NEW i \in Inums
  PROVE  /\ AheadGrows(i, 1)
         /\ (p \in Ahead(i)' => p \in Ahead(i)) => AheadGrows(i, 0)
         /\ p \notin Ahead(i)' /\ p \in Ahead(i) => AheadGrows(i, -1)
<1> DEFINE S == Ahead(i)
<1>1. IsFiniteSet(S) /\ IsFiniteSet(S')
  BY FiniteLinks, FiniteLinksNext DEF LinksAreFinite
<1>2. NumAhead(i) = Cardinality(S) /\ NumAhead(i)' = Cardinality(S')
  BY DEF NumAhead
<1>3. \A q \in Procs : q # p => (q \in S' <=> q \in S)
  BY AheadOthers
<1>4. S \subseteq Procs /\ S' \subseteq Procs
  BY DEF Ahead
<1> HIDE DEF S
<1>5. /\ Cardinality(S) \in Nat /\ Cardinality(S') \in Nat
      /\ S' \subseteq S => Cardinality(S') <= Cardinality(S)
      /\ \A x : S' \subseteq S \cup {x} => Cardinality(S') <= Cardinality(S) + 1
      /\ \A x \in S : S' \subseteq S \ {x} => Cardinality(S') <= Cardinality(S) - 1
  BY <1>1, SetsCount
<1>6. S' \subseteq S \cup {p}
  BY <1>3, <1>4
<1>7. ASSUME p \in S' => p \in S PROVE S' \subseteq S
  BY <1>3, <1>4, <1>7
<1>8. ASSUME p \notin S' PROVE S' \subseteq S \ {p}
  BY <1>3, <1>4, <1>8
<1>9. AheadGrows(i, 1)
  BY <1>2, <1>5, <1>6 DEF AheadGrows
<1>10. (p \in S' => p \in S) => AheadGrows(i, 0)
  BY <1>2, <1>5, <1>7 DEF AheadGrows
<1>11. p \notin S' /\ p \in S => AheadGrows(i, -1)
  BY <1>2, <1>5, <1>8 DEF AheadGrows
<1>q. QED
  BY <1>9, <1>10, <1>11 DEF S

LEMMA Recount ==
  ASSUME InodeInv, LinkInv, NEW i \in Inums, NEW a \in {-1, 0, 1}, NEW b \in {-1, 0, 1},
         LinksGrow(i, a), AheadGrows(i, b), dinode'[i].nlink >= dinode[i].nlink + a + b, dinode'[i].nlink \in Int
  PROVE  Counted(i)'
<1>1. /\ dinode[i].nlink \in Int /\ NumLinks(i) \in Nat /\ NumAhead(i) \in Nat
      /\ dinode[i].nlink >= NumLinks(i) + NumAhead(i)
  BY LinksMean DEF LinkInv
<1>2. NumLinks(i)' \in Nat /\ NumAhead(i)' \in Nat
  BY FiniteLinksNext, FS_CardinalityType DEF NumLinks, NumAhead, LinksAreFinite
<1>q. QED
  BY <1>1, <1>2 DEF LinksGrow, AheadGrows, Counted

LEMMA DataKeeps ==
  ASSUME InodeInv, LinkInv, NEW p \in Procs, Did(p), Touches(p), Reached(p), FreesLast(p), OwnCall(p),
         TreeInv', \A i \in Inums : Counted(i)'
  PROVE  LinkInv'
<1>1. CallsInv'
  BY CallsKept
<1>2. LinksAreCounted'
  BY DEF LinksAreCounted, Counted, NumLinks, NumAhead
<1>q. QED
  BY <1>1, <1>2 DEF LinkInv

\* The shape of an i-node whose type, "." and ".." stay.
SameShape(i) ==
  /\ dinode'[i].type = dinode[i].type
  /\ dinode[i].type = "free" => dinode'[i].nlink = 0
  /\ dinode[i].type # "dir" => dirent'[i] = Empty
  /\ dirent'[i]["."] = dirent[i]["."] /\ dirent'[i][".."] = dirent[i][".."]
LEMMA ShapeKept ==
  ASSUME InodeInv, LinkInv, NEW p \in Procs, Did(p), NEW i \in Inums, SameShape(i), ~Making(p, i)
  PROVE  Shape(i)'
<1>1. Shape(i)
  BY DEF LinkInv, TreeInv
<1>2. ASSUME NEW q \in Procs, Making(q, i) PROVE Making(q, i)'
  <2>1. SameCall(q) /\ SamePoints(q)
    BY <1>2, OthersPoint DEF Did
  <2>q. QED
    BY <1>2, <2>1 DEF Making, SameCall, SamePoints
<1>q. QED
  BY <1>1, <1>2 DEF Shape, SameShape

\* iupdate with another nlink.
NewLinks(i, k) == dinode' = [dinode EXCEPT ![i] = WithLinks(dinode[i], dinode[i].nlink + k)]
LEMMA NewLinksIs ==
  ASSUME InodeInv, NEW i \in Inums, NEW k \in Int, NewLinks(i, k)
  PROVE  /\ dinode'[i].nlink = dinode[i].nlink + k /\ dinode'[i].nlink \in Int
         /\ \A j \in Inums : dinode'[j].type = dinode[j].type /\ (j # i => dinode'[j] = dinode[j])
<1>1. dinode \in [Inums -> DinodeT] /\ dinode[i] \in DinodeT
  BY DEF InodeInv, Good
<1>q. QED
  BY <1>1 DEF NewLinks, WithLinks, DinodeT

\* A count follows a call that gets ahead of an entry, or gives up.
LEMMA NlinkKeeps ==
  ASSUME InodeInv, LinkInv, NEW p \in Procs, Did(p), NEW i \in Inums, NEW k \in {-1, 1}, NewLinks(i, k),
         dirent' = dirent, Reaches(p, i), pc[p] \notin {"free", "new"}, Reached(p), OwnCall(p),
         AheadGrows(i, k), \A j \in Inums : j # i => AheadGrows(j, 0)
  PROVE  LinkInv'
<1>1. /\ dinode'[i].nlink = dinode[i].nlink + k /\ dinode'[i].nlink \in Int
      /\ \A j \in Inums : dinode'[j].type = dinode[j].type /\ (j # i => dinode'[j] = dinode[j])
  BY NewLinksIs
<1>2. Touches(p) /\ FreesLast(p)
  BY <1>1 DEF Touches, FreesLast, Freeing
<1>3. dinode[i].type # "free"
  BY DEF LinkInv, CallsInv, CallInv, Typed
<1>4. TreeInv'
  <2>1. ASSUME NEW j \in Inums PROVE Shape(j)'
    <3>1. SameShape(j)
      BY <1>1, <1>3 DEF SameShape, LinkInv, TreeInv, Shape
    <3>q. QED
      BY <3>1, ShapeKept DEF Making
  <2>2. OneName' /\ RootIsTop'
    BY <1>1, SlotsAre DEF LinkInv, TreeInv, OneName, RootIsTop
  <2>q. QED
    BY <2>1, <2>2 DEF TreeInv
<1>5. ASSUME NEW j \in Inums PROVE Counted(j)'
  <2>1. LinksTo(j)' = LinksTo(j)
    BY DEF LinksTo, Named
  <2>2. LinksGrow(j, 0)
    BY <2>1, LinksChange
  <2>3. dinode[j].nlink \in Int
    BY LinksMean DEF LinkInv
  <2>4. CASE j = i
    BY <1>1, <2>2, <2>3, <2>4, Recount
  <2>5. CASE j # i
    BY <1>1, <2>2, <2>3, <2>5, Recount
  <2>q. QED
    BY <2>4, <2>5
<1>q. QED
  BY <1>2, <1>4, <1>5, DataKeeps

\* A call that gives its link back.
LEMMA GivesUpLinks ==
  ASSUME InodeInv, LinkInv, NEW p \in Procs, Did(p), dirent' = dirent, NewLinks(icache[ip[p]].inum, -1),
         ip[p] # None, cur[p] = None, Forward(p), pc[p] \notin {"free", "new"},
         At(p, "put", "user", call[p], rest[p], cur[p], None, ip[p], file[p], cwd[p])
  PROVE  LinkInv'
<1> DEFINE i == icache[ip[p]].inum
<1>1. Moves(p) /\ KeepsOthers(p)
  BY DEF Did
<1>2. i \in Inums
  BY PointersUsed DEF Used, InodeInv, Good, EntryT
<1>3. Reaches(p, i) /\ p \in Ahead(i)
  BY AheadIs DEF Reaches, Points
<1> HIDE DEF i
<1>4. \A j : p \notin Ahead(j)'
  BY DEF At, Ahead
<1>5. AheadGrows(i, -1) /\ \A j \in Inums : AheadGrows(j, 0)
  BY <1>1, <1>2, <1>3, <1>4, AheadChange
<1>6. Takes(p, None)
  BY DEF At, Takes, Holding
<1>7. Reached(p)
  BY <1>1, <1>6, TakesReached
<1>8. OwnCall(p)
  <2>1. Plain(p)
    BY DEF At, Plain
  <2>2. \A j \in Inums : Knows(p, j)'
    BY DEF At, Knows, Points
  <2>q. QED
    BY <2>1, <2>2, PlainCall DEF OwnCall
<1>9. NewLinks(i, -1)
  BY DEF i
<1>q. QED
  BY <1>2, <1>3, <1>5, <1>7, <1>8, <1>9, NlinkKeeps

LEMMA UnlinkedLinks ==
  ASSUME InodeInv, LinkInv, NEW p \in Procs, Unlinked(p)
  PROVE  LinkInv'
<1> DEFINE s == ip[p]
           d == icache[s].copy
<1>1. Did(p) /\ InodeTypes /\ Still(p) /\ Stage(p)
  BY UnlinkedStep, Begins
<1>2. /\ pc[p] = "unlinked" /\ dirent' = dirent
      /\ dinode' = [dinode EXCEPT ![icache[s].inum] = WithLinks(d, d.nlink - 1)]
  BY DEF Unlinked, Update
<1>3. s # None /\ cur[p] = None /\ Where(p) = "unlinked" /\ HasInode(p)
  BY <1>1, <1>2 DEF Stage, Where, WithDir, WithInode, Putting, HasInode
<1>4. Used(s) /\ icache[s].copy # Invalid
  BY <1>3, Holders
<1>5. d = dinode[icache[s].inum] /\ d.nlink \in Int
  BY <1>4 DEF Used, InodeInv, Good, EntryT, DinodeT
<1>6. NewLinks(icache[s].inum, -1)
  <2>1. d.nlink - 1 = d.nlink + (-1)
    BY <1>5
  <2> HIDE DEF d
  <2>q. QED
    BY <1>2, <1>5, <2>1 DEF NewLinks
<1>a. To(p, "put", "user", call[p], rest[p], cur[p], None, ip[p], file[p], cwd[p])
  BY <1>1 DEF Unlinked, Put, long, Still, To
<1>b. At(p, "put", "user", call[p], rest[p], cur[p], None, ip[p], file[p], cwd[p])
  BY <1>1, <1>a, ToAt
<1>q. QED
  BY <1>1, <1>2, <1>3, <1>6, <1>b, GivesUpLinks DEF Forward

LEMMA LinkBadLinks ==
  ASSUME InodeInv, LinkInv, NEW p \in Procs, LinkBad(p)
  PROVE  LinkInv'
<1> DEFINE s == ip[p]
           d == Loaded(s)[s].copy
<1>1. Did(p) /\ InodeTypes /\ Still(p) /\ Stage(p)
  BY LinkBadStep, Begins
<1>2. /\ pc[p] = "bad" /\ dirent' = dirent /\ Ilock(s)
      /\ dinode' = [dinode EXCEPT ![icache[s].inum] = WithLinks(d, d.nlink - 1)]
  BY DEF LinkBad, Update
<1>3. s # None /\ cur[p] = None /\ Where(p) = "bad" /\ call[p].op = "link"
  BY <1>1, <1>2 DEF Stage, Where, Doing, WithDir, WithInode, Putting
<1>4. Used(s)
  BY <1>3, PointersUsed
<1>5. d = dinode[icache[s].inum] /\ d.nlink \in Int
  <2>1. d = dinode[icache[s].inum] /\ icache[s].inum \in Inums
    BY <1>2, <1>4, FromLoaded
  <2>q. QED
    BY <2>1 DEF InodeInv, Good, DinodeT
<1>6. NewLinks(icache[s].inum, -1)
  <2>1. d.nlink - 1 = d.nlink + (-1)
    BY <1>5
  <2> HIDE DEF d
  <2>q. QED
    BY <1>2, <1>5, <2>1 DEF NewLinks
<1>a. To(p, "put", "user", call[p], rest[p], cur[p], None, ip[p], file[p], cwd[p])
  BY <1>1 DEF LinkBad, Put, long, Still, To
<1>b. At(p, "put", "user", call[p], rest[p], cur[p], None, ip[p], file[p], cwd[p])
  BY <1>1, <1>a, ToAt
<1>q. QED
  BY <1>1, <1>2, <1>3, <1>6, <1>b, GivesUpLinks DEF Forward

LEMMA LinkOldLinks ==
  ASSUME InodeInv, LinkInv, NEW p \in Procs, LinkOld(p)
  PROVE  LinkInv'
<1> DEFINE s == cur[p]
           i == icache[s].inum
           ic == Loaded(s)
           d == ic[s].copy
           more == WithLinks(d, d.nlink + 1)
           jc == [ic EXCEPT ![s].copy = more]
           en == [dinode EXCEPT ![ic[s].inum] = more]
           j == IF call[p].abs THEN Root ELSE jc[cwd[p]].inum
           g == SlotOf(jc, j)
<1>1. Did(p) /\ InodeTypes /\ Still(p) /\ Stage(p) /\ Moves(p) /\ KeepsOthers(p) /\ Good(icache, dinode)
  BY LinkOldStep, Begins DEF Did
<1>2. /\ pc[p] = "link" /\ dirent' = dirent /\ Ilock(s) /\ d.type # "dir"
      /\ dinode' = [dinode EXCEPT ![i] = more] /\ Get(jc, j)
  BY DEF LinkOld, Namex
<1>3. s # None /\ ip[p] = None /\ Where(p) = "link" /\ call[p].op = "link"
  BY <1>1, <1>2 DEF Stage, Where, Doing, WithDir, WithInode, Putting
<1>4. Used(s) /\ Used(cwd[p]) /\ s \in Slots /\ cwd[p] \in Slots
  BY <1>3, PointersUsed DEF Used
<1>a. To(p, "walk", then[p], call[p], call[p].new, g, s, put[p], file[p], cwd[p])
  BY <1>1 DEF LinkOld, Namex, Goto, long, Still, To
<1>5. /\ Loads(ic, s) /\ Good(ic, dinode) /\ Keeps(icache, ic) /\ SameRefs(icache, ic)
      /\ ic[s].copy # Invalid /\ ic[s].ref > 0 /\ ic[s].inum = icache[s].inum /\ d = dinode[i] /\ i \in Inums
      /\ \A t \in Slots : ic[t].inum = icache[t].inum
  BY <1>2, <1>4, FromLoaded DEF Loads
<1>6. dinode[i].type = "file" /\ d.nlink \in Int /\ d.nlink + 1 \in Int
  <2>1. dinode[i] \in DinodeT
    BY <1>1, <1>5 DEF Good
  <2>2. dinode[i].type # "free"
    <3>1. dinode[ic[s].inum].type # "free"
      BY <1>4, <1>5 DEF Good
    <3>q. QED
      BY <1>5, <3>1
  <2>3. d = dinode[i] /\ d.type # "dir"
    BY <1>2, <1>5
  <2> HIDE DEF i, d, ic
  <2>4. d.type = "file" /\ d.nlink \in Int
    BY <2>1, <2>2, <2>3 DEF DinodeT
  <2>q. QED
    BY <2>3, <2>4
<1> HIDE DEF ic
<1>7. Writes(ic, dinode, jc, en, s, more) /\ SameTypes(dinode, en)
  <2>1. ic[s].copy.nlink + 1 \in Int
    BY <1>6
  <2> HIDE DEF d, i
  <2>q. QED
    BY <1>4, <1>5, <2>1, UpdateIs DEF d
<1>8. dinode' = en /\ SameTypes(dinode, dinode) /\ NewLinks(i, 1)
  <2> HIDE DEF i
  <2>q. QED
    BY <1>2, <1>5 DEF SameTypes, NewLinks, i
<1> HIDE DEF j, g
<1>9. From(p, jc) /\ \A t \in Slots : jc[t].inum = icache[t].inum
  <2> HIDE DEF jc, en, more, d
  <2>1. From(p, jc)
    BY <1>5, <1>7, <1>8, WritesFrom
  <2>2. \A t \in Slots : jc[t].inum = ic[t].inum
    BY <1>7 DEF Writes
  <2>q. QED
    BY <1>5, <2>1, <2>2
<1>10. j \in Inums /\ (dinode[j].nlink > 0 \/ Reaches(p, j))
  <2>1. jc[cwd[p]].inum = icache[cwd[p]].inum /\ icache[cwd[p]].inum \in Inums
    BY <1>1, <1>4, <1>9 DEF Good, EntryT
  <2>2. Reaches(p, icache[cwd[p]].inum)
    BY <1>4, SlotsAre DEF Reaches, Points
  <2> HIDE DEF jc
  <2>q. QED
    BY <2>1, <2>2, RootLinked, SlotsAre DEF j
<1> HIDE DEF jc, en, more, d
<1>11. icache'[g].inum = j /\ Comes(p, g)
  <2>1. icache'[g].inum = j
    BY <1>2, <1>9, <1>10, GetFrom DEF g
  <2>q. QED
    BY <1>10, <2>1 DEF Comes
<1>b. At(p, "walk", then[p], call[p], call[p].new, g, s, put[p], file[p], cwd[p])
  BY <1>1, <1>a, ToAt
<1>12. Takes(p, g)
  BY <1>2, <1>b DEF At, Takes, Holding
<1>13. Reached(p)
  BY <1>1, <1>11, <1>12, TakesReached DEF Comes
<1>14. Reaches(p, i)
  BY <1>3 DEF Reaches, Points
<1>15. \A k : (Points(ip[p], k)' => k = i)
  BY <1>1, <1>4, <1>b DEF At, Points, KeepsOthers, Used
<1>16. OwnCall(p)
  <2>1. Plain(p)
    BY <1>b DEF At, Plain, Putting
  <2>2. ASSUME NEW k \in Inums PROVE Knows(p, k)'
    <3>1. Where(p)' = "walk"
      BY <1>b DEF At, Where, Putting
    <3>2. dinode'[i].type = dinode[i].type
      BY <1>5, <1>8, NewLinksIs
    <3>q. QED
      BY <1>6, <1>15, <3>1, <3>2 DEF Knows, InDir
  <2>q. QED
    BY <2>1, <2>2, PlainCall DEF OwnCall
<1>17. AheadGrows(i, 1) /\ \A k \in Inums : k # i => AheadGrows(k, 0)
  <2>1. \A k \in Inums : p \in Ahead(k)' => Points(ip[p], k)'
    BY DEF Ahead, Points
  <2>q. QED
    BY <1>1, <1>5, <1>15, <2>1, AheadChange
<1>q. QED
  BY <1>1, <1>2, <1>5, <1>8, <1>13, <1>14, <1>16, <1>17, NlinkKeeps

\* What iput frees nobody names.
LEMMA Unlinkable ==
  ASSUME InodeInv, LinkInv, NEW i \in Inums, dinode[i].nlink = 0
  PROVE  /\ i # Root /\ (\A d \in Inums, n \in Names : dirent[d][n] # i) /\ ~Named(i)
         /\ LinksTo(i) = {} /\ Ahead(i) = {}
<1>1. i # Root /\ LinksTo(i) = {} /\ Ahead(i) = {}
  BY RootLinked, LinksMean DEF LinkInv
<1>2. ASSUME NEW d \in Inums, NEW n \in Names PROVE dirent[d][n] # i
  <2>1. dirent[d][n] = i => dinode[i].nlink > 0
    BY NamesLink
  <2>q. QED
    BY <2>1
<1>q. QED
  BY <1>1, <1>2 DEF Named

Shrinks == \A d \in Inums, n \in Entry : dirent'[d][n] \in {0, dirent[d][n]}
LEMMA LinksShrink ==
  ASSUME Shrinks, NEW i \in Inums
  PROVE  LinksTo(i)' \subseteq LinksTo(i) /\ \A d \in Inums : Named(d)' => Named(d)
<1>1. i # 0 /\ 0 \notin Inums
  BY SlotsAre DEF None
<1>2. ASSUME NEW d \in Inums, Named(d)' PROVE Named(d)
  BY <1>1, <1>2 DEF Named, Shrinks, Entry
<1>3. ASSUME NEW e \in LinksTo(i)' PROVE e \in LinksTo(i)
  <2>1. /\ e \in Inums \X Entry /\ dirent'[e[1]][e[2]] = i /\ e[2] # "." /\ (e[2] = ".." => Named(e[1])')
    BY <1>3 DEF LinksTo, Named
  <2>2. dirent[e[1]][e[2]] = i
    BY <1>1, <2>1 DEF Shrinks
  <2>q. QED
    BY <1>2, <2>1, <2>2 DEF LinksTo
<1>q. QED
  BY <1>2, <1>3

LEMMA TreeShrinks ==
  ASSUME InodeInv, LinkInv, Shrinks,
         \A t \in Inums : dinode'[t].type = "dir" => dinode[t].type = "dir" /\ dirent'[t][".."] = dirent[t][".."],
         dinode'[Root].type = "dir"
  PROVE  OneName' /\ RootIsTop'
<1>1. 0 \notin Inums /\ Root \in Inums
  BY SlotsAre DEF None
<1>2. \A d \in Inums, n \in Names, t \in Inums : dirent'[d][n] = t => dirent[d][n] = t
  BY <1>1 DEF Shrinks, Entry
<1>3. OneName'
  BY <1>2 DEF LinkInv, TreeInv, OneName
<1>4. RootIsTop'
  BY <1>1, <1>2 DEF LinkInv, TreeInv, RootIsTop
<1>q. QED
  BY <1>3, <1>4

LEMMA IputFreeLinks ==
  ASSUME InodeInv, LinkInv, NEW p \in Procs, IputFree(p)
  PROVE  LinkInv'
<1> DEFINE s == put[p]
           i == icache[s].inum
<1>1. Did(p) /\ InodeTypes /\ Still(p) /\ Stage(p) /\ Relies(p) /\ Moves(p) /\ KeepsOthers(p) /\ Good(icache, dinode)
  BY IputFreeStep, Begins DEF Did, LinkInv, CallsInv, CallInv
<1>2. /\ pc[p] = "free" /\ dinode' = [dinode EXCEPT ![i] = Free] /\ dirent' = [dirent EXCEPT ![i] = Empty]
  BY DEF IputFree
<1>3. Used(s) /\ lock[s] = p /\ s # None /\ s \in Slots /\ i \in Inums
  <2>1. Used(s) /\ lock[s] = p
    BY <1>2, Holders
  <2>2. s \in Slots /\ s # None
    BY <2>1, SlotsAre DEF Used
  <2>q. QED
    BY <1>1, <2>1, <2>2 DEF Good, EntryT
<1>a. To(p, "drop", then[p], call[p], rest[p], cur[p], ip[p], put[p], file[p], cwd[p])
  BY <1>1 DEF IputFree, Goto, long, Still, To
<1>b. At(p, "drop", then[p], call[p], rest[p], cur[p], ip[p], put[p], file[p], cwd[p])
  BY <1>1, <1>a, ToAt
<1>4. Freeing(p, i) /\ \A k : Freeing(p, k) => k = i
  BY <1>2, <1>3 DEF Freeing, Points
<1> HIDE DEF i
<1>5. Alone(p, i) /\ dinode[i].nlink = 0 /\ ~Points(ip[p], i) /\ Reaches(p, i)
  BY <1>3, <1>4, PrivateIs DEF Private
<1>6. i # Root
  BY <1>3, <1>5, Unlinkable
<1>7. /\ dinode'[i] = Free /\ dirent'[i] = Empty
      /\ \A k \in Inums : k # i => dinode'[k] = dinode[k] /\ dirent'[k] = dirent[k]
  BY <1>1, <1>2, <1>3 DEF Good, InodeTypes, DirentT
<1>8. Shrinks
  BY <1>7 DEF Shrinks, Empty
<1>9. TreeInv'
  <2>1. ASSUME NEW k \in Inums PROVE Shape(k)'
    <3>1. CASE k = i
      BY <1>7, <3>1 DEF Shape, Free, Empty, Entry
    <3>2. CASE k # i
      <4>1. SameShape(k)
        BY <1>7, <3>2 DEF SameShape, LinkInv, TreeInv, Shape
      <4>2. ~Making(p, k)
        BY <1>2 DEF Making
      <4>q. QED
        BY <1>1, <4>1, <4>2, ShapeKept
    <3>q. QED
      BY <3>1, <3>2
  <2>2. \A t \in Inums : dinode'[t].type = "dir" => dinode[t].type = "dir" /\ dirent'[t][".."] = dirent[t][".."]
    BY <1>7 DEF Free
  <2>3. dinode'[Root].type = "dir"
    BY <1>6, <1>7, SlotsAre DEF LinkInv, TreeInv, RootIsTop
  <2>4. OneName' /\ RootIsTop'
    BY <1>8, <2>2, <2>3, TreeShrinks
  <2>q. QED
    BY <2>1, <2>4 DEF TreeInv
<1>10. \A k : /\ Points(cur[p], k)' <=> Points(cur[p], k)
              /\ Points(ip[p], k)' <=> Points(ip[p], k)
              /\ Points(file[p], k)' <=> Points(file[p], k)
              /\ Points(cwd[p], k)' <=> Points(cwd[p], k)
  <2>1. \A x \in {cur[p], ip[p], file[p], cwd[p]} : \A k : Points(x, k)' <=> Points(x, k)
    BY <1>1, PointsKept DEF Holding
  <2>q. QED
    BY <1>b, <2>1 DEF At, Points
<1>11. Where(p)' = Where(p) /\ call'[p] = call[p]
  BY <1>2, <1>b DEF At, Where, Putting
<1>12. ASSUME NEW k \in Inums PROVE Counted(k)'
  <2>1. LinksGrow(k, 0)
    BY <1>8, LinksShrink, LinksChange
  <2>2. AheadGrows(k, 0)
    <3>1. p \in Ahead(k)' => p \in Ahead(k)
      BY <1>10, <1>11 DEF Ahead, Points
    <3>q. QED
      BY <1>1, <3>1, AheadChange
  <2>3. dinode'[k].nlink >= dinode[k].nlink /\ dinode'[k].nlink \in Int /\ dinode[k].nlink \in Int
    BY <1>5, <1>7, LinksMean DEF Free, LinkInv
  <2>4. dinode'[k].nlink >= dinode[k].nlink + 0 + 0
    BY <2>3
  <2>q. QED
    BY <2>1, <2>2, <2>3, <2>4, Recount
<1>13. Touches(p)
  BY <1>3, <1>5, <1>7 DEF Touches, i
<1>14. Reached(p)
  <2>1. Takes(p, None)
    BY <1>b DEF At, Takes, Holding
  <2>q. QED
    BY <1>1, <2>1, TakesReached
<1>15. FreesLast(p)
  BY <1>4, <1>5, <1>10, <1>b DEF FreesLast, Reaches, Alone, At
<1>16. OwnCall(p)
  <2>1. Plain(p)
    BY <1>1, <1>2, <1>b DEF At, Plain, Relies, Putting
  <2>2. ASSUME NEW k \in Inums PROVE Knows(p, k)'
    <3>1. Knows(p, k)
      BY DEF LinkInv, CallsInv, CallInv
    <3>2. Points(cur[p], k) \/ Points(ip[p], k) => dinode'[k] = dinode[k]
      BY <1>5, <1>7 DEF Alone
    <3>q. QED
      BY <1>10, <1>11, <3>1, <3>2 DEF Knows
  <2>q. QED
    BY <2>1, <2>2, PlainCall DEF OwnCall
<1>q. QED
  BY <1>1, <1>9, <1>12, <1>13, <1>14, <1>15, <1>16, DataKeeps

\* A name that a directory does not have is neither "." nor "..".
LEMMA NewName ==
  ASSUME InodeInv, LinkInv, NEW p \in Procs, cur[p] # None, rest[p] # <<>>, Where(p) \in InDir, pc[p] # "new",
         Here(p)[Name(p)] = 0
  PROVE  Name(p) \in Names /\ dinode[icache[cur[p]].inum].type = "dir" /\ icache[cur[p]].inum \in Inums
<1> DEFINE d == icache[cur[p]].inum
<1>1. d \in Inums /\ Name(p) \in Entry
  BY PointersUsed, NameIs DEF Used, InodeInv, Good, EntryT
<1>2. Points(cur[p], d)
  BY DEF Points
<1>3. dirent[d][Name(p)] = 0
  BY DEF Here
<1> HIDE DEF d
<1>4. dinode[d].type = "dir"
  BY <1>1, <1>2 DEF LinkInv, CallsInv, CallInv, Knows
<1>5. ASSUME NEW q \in Procs, Making(q, d) PROVE FALSE
  <2>1. q # p
    BY <1>5 DEF Making
  <2>2. ~Reaches(p, d)
    BY <1>1, <1>5, <2>1, PrivateIs DEF Alone
  <2>q. QED
    BY <1>2, <2>2 DEF Reaches
<1>6. dirent[d]["."] = d /\ dirent[d][".."] # 0 /\ d # 0
  BY <1>1, <1>4, <1>5, SlotsAre DEF LinkInv, TreeInv, Shape, None
<1>q. QED
  BY <1>1, <1>3, <1>4, <1>6 DEF Entry, d

LEMMA TakesIs ==
  ASSUME InodeInv, NEW p \in Procs, KeepsOthers(p), NEW g, Takes(p, g), NEW i, Reaches(p, i)'
  PROVE  Reaches(p, i) \/ (g # None /\ icache'[g].inum = i)
<1>1. PICK s \in {cur'[p], ip'[p], file'[p], cwd'[p]} \cup IF pc'[p] = "drop" THEN {} ELSE {put'[p]} :
        s # None /\ icache'[s].inum = i
  BY DEF Reaches, Points
<1>2. CASE s \in Holding(p)
  BY <1>1, <1>2, PointsKept, ReachIs DEF Points
<1>q. QED
  BY <1>1, <1>2 DEF Takes

LEMMA CreateNewLinks ==
  ASSUME InodeInv, LinkInv, NEW p \in Procs, CreateNew(p)
  PROVE  LinkInv'
<1>n. PICK t : t = NewInum
  OBVIOUS
<1> DEFINE s == cur[p]
           ic == Loaded(s)
           g == SlotOf(ic, t)
<1>1. /\ Did(p) /\ InodeTypes /\ Still(p) /\ Stage(p) /\ Moves(p) /\ KeepsOthers(p) /\ Good(icache, dinode)
      /\ \A q \in Procs : CallInv(q)
  BY CreateNewStep, Begins DEF Did, LinkInv, CallsInv
<1>2. /\ pc[p] \in {"create", "mkdir"} /\ Ilock(s) /\ FreeInums # {} /\ Get(ic, t) /\ Here(p)[Name(p)] = 0
      /\ dinode' = [dinode EXCEPT ![t] = [type |-> NewType(p), nlink |-> 0]] /\ dirent' = dirent
  BY <1>n DEF CreateNew, NewInum
<1>3. /\ s # None /\ ip[p] = None /\ put[p] = None /\ rest[p] # <<>> /\ Where(p) \in {"create", "mkdir"}
      /\ call[p].op \in {"create", "mkdir"}
  BY <1>1, <1>2 DEF Stage, Where, Doing, WithDir, WithInode, WithName, Putting
<1>4. Used(s) /\ icache'[s].inum = icache[s].inum
  BY <1>1, <1>3, PointersUsed DEF Used, KeepsOthers
<1>a. To(p, "new", then[p], call[p], rest[p], s, g, put[p], file[p], cwd[p])
  BY <1>1, <1>n DEF CreateNew, NewInum, Goto, long, Still, To
<1>5. NewType(p) \in {"file", "dir"}
  BY DEF NewType
<1>6. From(p, ic) /\ t \in Inums /\ dinode[t].type = "free"
  <2>1. Loads(ic, s) /\ Good(ic, dinode) /\ Keeps(icache, ic) /\ SameRefs(icache, ic)
    BY <1>2, <1>4, FromLoaded
  <2>2. \A x \in Slots : ic[x].inum = icache[x].inum
    BY <2>1 DEF Loads
  <2> HIDE DEF ic
  <2>q. QED
    BY <1>2, <1>5, <1>n, <2>1, <2>2, AllocFrom
<1>7. g \in Slots /\ icache'[g].inum = t /\ g # None
  BY <1>2, <1>6, GetFrom, SlotsAre
<1> HIDE DEF g, ic
<1>b. At(p, "new", then[p], call[p], rest[p], s, g, put[p], file[p], cwd[p])
  BY <1>1, <1>a, ToAt
<1>8. /\ dinode'[t] = [type |-> NewType(p), nlink |-> 0]
      /\ \A k \in Inums : k # t => dinode'[k] = dinode[k]
  BY <1>1, <1>2, <1>6 DEF Good
<1>9. \A q \in Procs : ~Reaches(q, t)
  BY <1>1, <1>6 DEF CallInv, Typed
<1>10. dinode[t].nlink = 0 /\ dirent[t] = Empty
  BY <1>6 DEF LinkInv, TreeInv, Shape
<1>11. t # Root /\ \A d \in Inums, n \in Names : dirent[d][n] # t
  BY <1>6, <1>10, Unlinkable
<1>12. Making(p, t)' /\ \A k : Making(p, k)' => k = t
  <2>1. \A k : Points(ip[p], k)' <=> k = t
    BY <1>7, <1>b DEF At, Points
  <2>q. QED
    BY <1>b, <2>1 DEF At, Making
<1>13. TreeInv'
  <2>1. ASSUME NEW k \in Inums PROVE Shape(k)'
    <3>1. CASE k = t
      <4>1. dirent'[t] = Empty /\ dinode'[t].type # "free"
        BY <1>2, <1>5, <1>8, <1>10
      <4>q. QED
        BY <1>12, <3>1, <4>1 DEF Shape, Empty, Entry
    <3>2. CASE k # t
      <4>1. SameShape(k)
        BY <1>2, <1>8, <3>2 DEF SameShape, LinkInv, TreeInv, Shape
      <4>2. ~Making(p, k)
        BY <1>2 DEF Making
      <4>q. QED
        BY <1>1, <4>1, <4>2, ShapeKept
    <3>q. QED
      BY <3>1, <3>2
  <2>2. OneName'
    BY <1>2, <1>8, <1>11 DEF LinkInv, TreeInv, OneName
  <2>3. RootIsTop'
    BY <1>2, <1>8, <1>11, SlotsAre DEF LinkInv, TreeInv, RootIsTop
  <2>q. QED
    BY <2>1, <2>2, <2>3 DEF TreeInv
<1>14. ASSUME NEW k \in Inums PROVE Counted(k)'
  <2>1. LinksGrow(k, 0)
    <3>1. LinksTo(k)' = LinksTo(k)
      BY <1>2 DEF LinksTo, Named
    <3>q. QED
      BY <3>1, LinksChange
  <2>2. AheadGrows(k, 0)
    <3>1. p \notin Ahead(k)'
      BY <1>3, <1>b DEF At, Ahead, Where, Putting
    <3>q. QED
      BY <1>1, <3>1, AheadChange
  <2>3. dinode'[k].nlink >= dinode[k].nlink /\ dinode'[k].nlink \in Int /\ dinode[k].nlink \in Int
    BY <1>8, <1>10, LinksMean DEF LinkInv
  <2>4. dinode'[k].nlink >= dinode[k].nlink + 0 + 0
    BY <2>3
  <2>q. QED
    BY <2>1, <2>2, <2>3, <2>4, Recount
<1>15. Touches(p) /\ FreesLast(p)
  BY <1>2, <1>6, <1>8 DEF Touches, FreesLast, Freeing
<1>16. Reached(p)
  <2>1. Takes(p, g)
    BY <1>2, <1>b DEF At, Takes, Holding
  <2>2. dinode'[t].type # "free"
    BY <1>5, <1>8
  <2>q. QED
    BY <1>1, <1>6, <1>7, <2>1, <2>2, TakesIs DEF Reached
<1>17. Name(p) \in Names /\ dinode[icache[s].inum].type = "dir" /\ icache[s].inum \in Inums
  BY <1>2, <1>3, NewName DEF InDir
<1>18. OwnCall(p)
  <2>1. Relies(p)'
    <3>1. Name(p)' = Name(p) /\ Here(p)' = Here(p)
      BY <1>2, <1>4, <1>b DEF At, Name, Here
    <3>q. QED
      BY <1>2, <1>17, <1>b, <3>1 DEF At, Relies, Putting
  <2>2. ASSUME NEW k \in Inums PROVE Private(p, k)'
    <3>1. SUFFICES ASSUME k = t PROVE Alone(p, t)'
      <4>1. NewType(p)' = NewType(p)
        BY <1>b DEF At, NewType
      <4>q. QED
        BY <1>2, <1>8, <1>10, <1>12, <1>b, <3>1, <4>1 DEF Private, Freeing, At
    <3>2. ~Points(cur[p], t)' /\ ~Points(file[p], t)' /\ ~Points(cwd[p], t)'
      <4>1. \A x \in {cur[p], file[p], cwd[p]} : Points(x, t)' <=> Points(x, t)
        BY <1>1, PointsKept DEF Holding
      <4>2. ~Points(cur[p], t) /\ ~Points(file[p], t) /\ ~Points(cwd[p], t)
        BY <1>9 DEF Reaches
      <4>q. QED
        BY <1>b, <4>1, <4>2 DEF At, Points
    <3>3. ASSUME NEW q \in Procs, q # p PROVE ~Reaches(q, t)'
      <4>1. SamePoints(q)
        BY <1>1, <3>3, OthersPoint
      <4>q. QED
        BY <1>9, <4>1 DEF SamePoints
    <3>q. QED
      BY <3>2, <3>3 DEF Alone
  <2>3. ASSUME NEW k \in Inums PROVE Knows(p, k)'
    <3>1. Points(cur[p], k)' => k = icache[s].inum
      BY <1>4, <1>b DEF At, Points
    <3>2. dinode'[icache[s].inum].type = "dir"
      BY <1>6, <1>8, <1>17
    <3>q. QED
      BY <1>3, <1>b, <3>1, <3>2 DEF At, Knows
  <2>q. QED
    BY <2>1, <2>2, <2>3 DEF OwnCall
<1>q. QED
  BY <1>1, <1>13, <1>14, <1>15, <1>16, <1>18, DataKeeps

\* dirlink enters i-node i in directory d under n; mkdir has made "." and ".." before.
NewEntry(d, n, i) ==
  /\ dirent[d][n] = 0 /\ dirent'[d][n] = i /\ \A m \in Entry : m # n => dirent'[d][m] = dirent[d][m]
  /\ \A j \in Inums : j \notin {d, i} => dirent'[j] = dirent[j]
  /\ dirent[i] = Empty /\ dirent'[i][".."] \in {0, d} /\ \A m \in Names : dirent'[i][m] = 0
LEMMA EntryLinks ==
  ASSUME InodeInv, NEW d \in Inums, NEW n \in Names, NEW i \in Inums, i # d, NewEntry(d, n, i)
  PROVE  /\ \A e \in Inums, m \in Names : dirent'[e][m] # 0 => dirent'[e][m] = dirent[e][m] \/ (e = d /\ m = n)
         /\ LinksTo(i)' \subseteq LinksTo(i) \cup {<<d, n>>}
         /\ LinksTo(d)' \subseteq LinksTo(d) \cup {<<i, "..">>}
         /\ dirent'[i][".."] = 0 => LinksTo(d)' \subseteq LinksTo(d)
         /\ \A j \in Inums : j \notin {i, d} => LinksTo(j)' \subseteq LinksTo(j)
<1>1. n \in Entry /\ n # "." /\ n # ".." /\ ".." \in Entry /\ 0 \notin Inums
  BY NamesAssumption, SlotsAre DEF Entry, None
<1>2. ASSUME NEW e \in Inums, NEW m \in Entry, dirent'[e][m] # 0, m # "."
      PROVE  \/ dirent'[e][m] = dirent[e][m]
             \/ e = d /\ m = n /\ dirent'[e][m] = i
             \/ e = i /\ m = ".." /\ dirent'[e][m] = d
  BY <1>2 DEF NewEntry, Entry
<1>3. \A e \in Inums, m \in Names : dirent'[e][m] # 0 => dirent'[e][m] = dirent[e][m] \/ (e = d /\ m = n)
  BY <1>2, NamesAssumption DEF Entry
<1>4. ASSUME NEW e \in Inums, Named(e)', e # i PROVE Named(e)
  <2>1. CASE e = Root
    BY <2>1 DEF Named
  <2>2. CASE e # Root
    <3>1. PICK f \in Inums, m \in Names : dirent'[f][m] = e
      BY <1>4, <2>2 DEF Named
    <3>2. dirent[f][m] = e
      BY <1>1, <1>4, <3>1 DEF NewEntry, Entry
    <3>q. QED
      BY <3>2 DEF Named
  <2>q. QED
    BY <2>1, <2>2
<1>5. ASSUME NEW j \in Inums, NEW e \in LinksTo(j)'
      PROVE  \/ e \in LinksTo(j)
             \/ j = i /\ e = <<d, n>>
             \/ j = d /\ e = <<i, "..">> /\ dirent'[i][".."] # 0
  <2>1. /\ e \in Inums \X Entry /\ dirent'[e[1]][e[2]] = j /\ e[2] # "." /\ (e[2] = ".." => Named(e[1])')
    BY <1>5 DEF LinksTo, Named
  <2>2. PICK f \in Inums, m \in Entry : e = <<f, m>>
    BY <2>1
  <2>3. dirent'[f][m] = j /\ m # "." /\ (m = ".." => Named(f)') /\ j # 0
    BY <1>1, <2>1, <2>2
  <2>4. CASE dirent[f][m] = j
    <3>1. m = ".." => f # i
      BY <1>1, <2>3, <2>4 DEF NewEntry, Empty
    <3>2. m = ".." => Named(f)
      BY <1>4, <2>3, <3>1
    <3>q. QED
      BY <2>2, <2>3, <2>4, <3>2 DEF LinksTo
  <2>5. CASE dirent[f][m] # j
    BY <1>2, <2>2, <2>3, <2>5
  <2>q. QED
    BY <2>4, <2>5
<1>6. LinksTo(i)' \subseteq LinksTo(i) \cup {<<d, n>>}
  BY <1>5
<1>7. LinksTo(d)' \subseteq LinksTo(d) \cup {<<i, "..">>}
  BY <1>5
<1>8. dirent'[i][".."] = 0 => LinksTo(d)' \subseteq LinksTo(d)
  BY <1>5
<1>9. \A j \in Inums : j \notin {i, d} => LinksTo(j)' \subseteq LinksTo(j)
  BY <1>5
<1>q. QED
  BY <1>3, <1>6, <1>7, <1>8, <1>9

\* A new name makes no second one of a directory.
LEMMA EntryTree ==
  ASSUME InodeInv, LinkInv, NEW d \in Inums, NEW n \in Names, NEW i \in Inums, i # d, i # Root, NewEntry(d, n, i),
         SameTypes(dinode, dinode'),
         dinode[i].type = "dir" => dirent'[i][".."] = d /\ \A e \in Inums, m \in Names : dirent[e][m] # i
  PROVE  OneName' /\ RootIsTop'
<1>1. /\ ".." \in Entry /\ ".." # n /\ 0 \notin Inums /\ Root \in Inums
      /\ \A t \in Inums : dinode'[t].type = dinode[t].type
  BY NamesAssumption, SlotsAre DEF Entry, SameTypes, None
<1>2. \A e \in Inums, m \in Names : dirent'[e][m] # 0 => dirent'[e][m] = dirent[e][m] \/ (e = d /\ m = n)
  BY EntryLinks
<1>3. dirent'[d][n] = i /\ \A t \in Inums : t # i => dirent'[t][".."] = dirent[t][".."]
  BY <1>1 DEF NewEntry
<1>4. ASSUME NEW t \in Inums, dinode'[t].type = "dir", NEW e \in Inums, NEW f \in Inums,
             NEW m \in Names, NEW k \in Names, dirent'[e][m] = t, dirent'[f][k] = t
      PROVE  e = f /\ m = k /\ dirent'[t][".."] = e
  <2>1. CASE t = i
    BY <1>1, <1>2, <1>4, <2>1
  <2>2. CASE t # i
    <3>1. dirent[e][m] = t /\ dirent[f][k] = t /\ dinode[t].type = "dir"
      BY <1>1, <1>2, <1>3, <1>4, <2>2
    <3>q. QED
      BY <1>3, <2>2, <3>1 DEF LinkInv, TreeInv, OneName
  <2>q. QED
    BY <2>1, <2>2
<1>5. OneName'
  BY <1>4 DEF OneName
<1>6. RootIsTop'
  BY <1>1, <1>2, <1>3 DEF LinkInv, TreeInv, RootIsTop
<1>q. QED
  BY <1>5, <1>6

LEMMA LinkNewLinks ==
  ASSUME InodeInv, LinkInv, NEW p \in Procs, LinkNew(p)
  PROVE  LinkInv'
<1>n. PICK d, n, i : d = icache[cur[p]].inum /\ n = Name(p) /\ i = icache[ip[p]].inum
  OBVIOUS
<1>1. /\ Did(p) /\ InodeTypes /\ Still(p) /\ Stage(p) /\ Moves(p) /\ KeepsOthers(p) /\ Good(icache, dinode)
      /\ CallInv(p)
  BY LinkNewStep, Begins DEF Did, LinkInv, CallsInv
<1>2. /\ pc[p] = "linkdp" /\ lock[cur[p]] = NoProc /\ Here(p)[Name(p)] = 0
      /\ dinode' = dinode /\ dirent' = [dirent EXCEPT ![d][n] = i]
  BY <1>n DEF LinkNew, Ilock
<1>3. /\ cur[p] # None /\ ip[p] # None /\ rest[p] # <<>> /\ Where(p) = "linkdp" /\ call[p].op = "link"
  BY <1>1, <1>2 DEF Stage, Where, Doing, WithDir, WithInode, WithName, Putting
<1>4. Used(cur[p]) /\ Used(ip[p])
  BY <1>3, PointersUsed
<1>5. n \in Names /\ dinode[d].type = "dir" /\ d \in Inums /\ dirent[d][n] = 0 /\ n \in Entry
  <2>1. n \in Names /\ dinode[d].type = "dir" /\ d \in Inums
    BY <1>2, <1>3, <1>n, NewName DEF InDir
  <2>q. QED
    BY <1>2, <1>n, <2>1 DEF Here, Entry
<1>6. i \in Inums /\ Points(ip[p], i) /\ Points(cur[p], d)
  BY <1>1, <1>3, <1>4, <1>n DEF Points, Used, Good, EntryT
<1>7. dinode[i].type = "file" /\ i # d /\ i # Root
  <2>1. dinode[i].type = "file"
    BY <1>1, <1>3, <1>6 DEF CallInv, Knows
  <2>q. QED
    BY <1>5, <2>1 DEF LinkInv, TreeInv, RootIsTop
<1>8. /\ dirent'[d][n] = i /\ (\A m \in Entry : m # n => dirent'[d][m] = dirent[d][m])
      /\ \A j \in Inums : j # d => dirent'[j] = dirent[j]
  BY <1>1, <1>2, <1>5 DEF InodeTypes, DirentT
<1>9. NewEntry(d, n, i)
  <2>1. dirent[i] = Empty /\ dirent'[i] = Empty
    BY <1>6, <1>7, <1>8 DEF LinkInv, TreeInv, Shape
  <2>q. QED
    BY <1>5, <1>8, <2>1 DEF NewEntry, Empty, Entry
<1>a. To(p, "put", "linked", call[p], rest[p], None, ip[p], cur[p], file[p], cwd[p])
  BY <1>1 DEF LinkNew, DropDir, Put, long, Still, To
<1>b. At(p, "put", "linked", call[p], rest[p], None, ip[p], cur[p], file[p], cwd[p])
  BY <1>1, <1>a, ToAt
<1>10. TreeInv'
  <2>1. ASSUME NEW k \in Inums PROVE Shape(k)'
    <3>1. SameShape(k)
      BY <1>2, <1>5, <1>8, NamesAssumption DEF SameShape, LinkInv, TreeInv, Shape, Entry
    <3>2. ~Making(p, k)
      BY <1>2 DEF Making
    <3>q. QED
      BY <1>1, <3>1, <3>2, ShapeKept
  <2>2. OneName' /\ RootIsTop'
    BY <1>2, <1>5, <1>6, <1>7, <1>9, EntryTree DEF SameTypes
  <2>q. QED
    BY <2>1, <2>2 DEF TreeInv
<1>11. \A k : (Points(ip[p], k)' <=> Points(ip[p], k)) /\ (Points(ip[p], k)' => k = i)
  BY <1>1, <1>4, <1>b, <1>n DEF At, Points, KeepsOthers, Used
<1>12. p \in Ahead(i) /\ \A k : p \notin Ahead(k)'
  <2>1. p \in Ahead(i)
    BY <1>3, <1>6, AheadIs DEF Forward
  <2>2. Where(p)' = "linked"
    BY <1>b DEF At, Where, Putting
  <2>q. QED
    BY <2>1, <2>2 DEF Ahead
<1>13. ASSUME NEW k \in Inums PROVE Counted(k)'
  <2>1. LinksGrow(k, IF k = i THEN 1 ELSE 0)
    <3>1. dirent'[i][".."] = 0
      BY <1>6, <1>7, <1>8 DEF LinkInv, TreeInv, Shape, Empty, Entry
    <3>2. LinksTo(i)' \subseteq LinksTo(i) \cup {<<d, n>>} /\ (k # i => LinksTo(k)' \subseteq LinksTo(k))
      BY <1>5, <1>6, <1>7, <1>9, <3>1, EntryLinks
    <3>q. QED
      BY <3>2, LinksChange
  <2>2. AheadGrows(k, IF k = i THEN -1 ELSE 0)
    BY <1>1, <1>12, AheadChange
  <2>3. dinode'[k].nlink = dinode[k].nlink /\ dinode[k].nlink \in Int
    BY <1>2, LinksMean DEF LinkInv
  <2>4. CASE k = i
    BY <2>1, <2>2, <2>3, <2>4, Recount
  <2>5. CASE k # i
    BY <2>1, <2>2, <2>3, <2>5, Recount
  <2>q. QED
    BY <2>4, <2>5
<1>14. Touches(p) /\ FreesLast(p)
  <2>1. Touches(p)
    BY <1>2, <1>4, <1>6, <1>8, <1>n DEF Touches, Reaches
  <2>q. QED
    BY <1>2, <2>1 DEF FreesLast, Freeing
<1>15. Reached(p)
  <2>1. Takes(p, None)
    BY <1>b DEF At, Takes, Holding
  <2>q. QED
    BY <1>1, <2>1, TakesReached
<1>16. OwnCall(p)
  <2>1. Plain(p)
    BY <1>b DEF At, Plain
  <2>2. ASSUME NEW k \in Inums PROVE Knows(p, k)'
    <3>1. Where(p)' = "linked"
      BY <1>b DEF At, Where, Putting
    <3>q. QED
      BY <1>2, <1>7, <1>11, <3>1 DEF Knows, InDir
  <2>q. QED
    BY <2>1, <2>2, PlainCall DEF OwnCall
<1>q. QED
  BY <1>1, <1>10, <1>13, <1>14, <1>15, <1>16, DataKeeps

LEMMA CreateLinkLinks ==
  ASSUME InodeInv, LinkInv, NEW p \in Procs, CreateLink(p)
  PROVE  LinkInv'
<1>n. PICK d, n, i, more, ty : /\ d = icache[cur[p]].inum /\ n = Name(p) /\ i = icache[ip[p]].inum
                               /\ ty = NewType(p) /\ more = IF ty = "dir" THEN 1 ELSE 0
  OBVIOUS
<1>1. /\ Did(p) /\ InodeTypes /\ Still(p) /\ Stage(p) /\ Moves(p) /\ KeepsOthers(p) /\ Good(icache, dinode)
      /\ CallInv(p)
  BY CreateLinkStep, Begins DEF Did, LinkInv, CallsInv
<1> DEFINE new == WithLinks(dinode[i], 1)
           parent == WithLinks(icache[cur[p]].copy, icache[cur[p]].copy.nlink + more)
           first == [Empty EXCEPT !["."] = i, ![".."] = d]
<1>2. /\ pc[p] = "new" /\ lock[ip[p]] = NoProc
      /\ dinode' = [dinode EXCEPT ![i] = new, ![d] = parent]
      /\ dirent' = [dirent EXCEPT ![d][n] = i, ![i] = IF more = 1 THEN first ELSE @]
  BY <1>n DEF CreateLink, Ilock
<1>3. /\ cur[p] # None /\ ip[p] # None /\ rest[p] # <<>> /\ Where(p) = "new" /\ HasDir(p)
      /\ call[p].op \in {"create", "mkdir"}
  BY <1>1, <1>2 DEF Stage, Where, Doing, WithDir, WithInode, WithName, Putting, HasDir
<1>4. Used(cur[p]) /\ Used(ip[p]) /\ lock[cur[p]] = p /\ icache[cur[p]].copy # Invalid
  BY <1>3, PointersUsed, Holders
<1>5. d \in Inums /\ i \in Inums /\ Points(cur[p], d) /\ Points(ip[p], i) /\ Making(p, i)
  BY <1>1, <1>2, <1>3, <1>4, <1>n DEF Points, Used, Good, EntryT, Making
<1>6. /\ Alone(p, i) /\ dinode[i] = [type |-> ty, nlink |-> 0] /\ dirent[i] = Empty /\ Reaches(p, i)
      /\ ~Points(cur[p], i) /\ i # d /\ ty \in {"file", "dir"}
  <2>1. Alone(p, i) /\ dinode[i] = [type |-> ty, nlink |-> 0] /\ dirent[i] = Empty /\ Reaches(p, i)
    BY <1>5, <1>n, PrivateIs DEF Private
  <2>2. ty \in {"file", "dir"}
    BY <1>n DEF NewType
  <2>q. QED
    BY <1>5, <2>1, <2>2 DEF Alone
<1>7. n \in Names /\ dirent[d][n] = 0 /\ dinode[d].type = "dir" /\ n \in Entry /\ n # "." /\ n # ".."
  <2>1. n \in Names /\ dirent[d][n] = 0
    BY <1>1, <1>2, <1>n DEF CallInv, Relies, Here
  <2>2. dinode[d].type = "dir"
    BY <1>1, <1>3, <1>5 DEF CallInv, Knows, InDir
  <2>q. QED
    BY <2>1, <2>2, NamesAssumption DEF Entry
<1>8. dinode[i].nlink = 0 /\ i # Root /\ (\A e \in Inums, m \in Names : dirent[e][m] # i)
  BY <1>5, <1>6, Unlinkable
<1>9. parent = WithLinks(dinode[d], dinode[d].nlink + more)
  BY <1>1, <1>4, <1>n DEF Good, Used
<1> HIDE DEF parent, new, first
<1>10. /\ dinode'[i] = new /\ dinode'[d] = parent /\ \A j \in Inums : j \notin {i, d} => dinode'[j] = dinode[j]
  BY <1>1, <1>2, <1>5, <1>6 DEF Good
<1>11. /\ dinode'[i] = [type |-> ty, nlink |-> 1]
       /\ dinode'[d].type = "dir" /\ dinode'[d].nlink = dinode[d].nlink + more
  <2>1. dinode[d] \in DinodeT
    BY <1>1, <1>5 DEF Good
  <2>q. QED
    BY <1>6, <1>7, <1>9, <1>10, <2>1 DEF new, WithLinks, DinodeT
<1>12. SameTypes(dinode, dinode')
  BY <1>6, <1>7, <1>10, <1>11 DEF SameTypes
<1>13. /\ dirent'[d][n] = i /\ (\A m \in Entry : m # n => dirent'[d][m] = dirent[d][m])
       /\ \A j \in Inums : j \notin {d, i} => dirent'[j] = dirent[j]
       /\ dirent'[i] = IF more = 1 THEN first ELSE Empty
  BY <1>1, <1>2, <1>5, <1>6, <1>7 DEF InodeTypes, DirentT
<1>14. /\ \A m \in Names : first[m] = 0 /\ Empty[m] = 0
       /\ first["."] = i /\ first[".."] = d /\ Empty["."] = 0 /\ Empty[".."] = 0
  BY NamesAssumption DEF first, Empty, Entry
<1>15. NewEntry(d, n, i)
  BY <1>6, <1>7, <1>13, <1>14 DEF NewEntry
<1>a. To(p, "put", "created", call[p], rest[p], None, ip[p], cur[p], file[p], cwd[p])
  BY <1>1, <1>2 DEF CreateLink, DropDir, Put, long, Still, To
<1>b. At(p, "put", "created", call[p], rest[p], None, ip[p], cur[p], file[p], cwd[p])
  BY <1>1, <1>a, ToAt
<1>16. d # 0 /\ d \in Inums
  BY <1>5, SlotsAre DEF None
<1>17. TreeInv'
  <2>1. ASSUME NEW k \in Inums PROVE Shape(k)'
    <3>1. CASE k = i
      <4>1. CASE ty = "dir"
        <5>1. dirent'[i]["."] = i /\ dirent'[i][".."] = d
          BY <1>13, <1>14, <1>n, <4>1
        <5>q. QED
          BY <1>11, <1>16, <3>1, <4>1, <5>1 DEF Shape
      <4>2. CASE ty = "file"
        <5>1. dirent'[i] = Empty
          BY <1>13, <1>n, <4>2
        <5>q. QED
          BY <1>11, <1>14, <3>1, <4>2, <5>1 DEF Shape
      <4>q. QED
        BY <1>6, <4>1, <4>2
    <3>2. CASE k # i
      <4>1. SameShape(k)
        <5>1. CASE k = d
          BY <1>7, <1>11, <1>13, <5>1 DEF SameShape, Entry
        <5>2. CASE k # d
          BY <1>10, <1>13, <3>2, <5>2 DEF SameShape, LinkInv, TreeInv, Shape
        <5>q. QED
          BY <5>1, <5>2
      <4>2. ~Making(p, k)
        BY <1>5, <3>2 DEF Making, Points
      <4>q. QED
        BY <1>1, <4>1, <4>2, ShapeKept
    <3>q. QED
      BY <3>1, <3>2
  <2>2. dinode[i].type = "dir" => dirent'[i][".."] = d
    BY <1>6, <1>13, <1>14, <1>n
  <2>3. OneName' /\ RootIsTop'
    BY <1>5, <1>6, <1>7, <1>8, <1>12, <1>15, <2>2, EntryTree
  <2>q. QED
    BY <2>1, <2>3 DEF TreeInv
<1>18. Where(p)' = "created" /\ call'[p] = call[p]
  BY <1>b DEF At, Where, Putting
<1>19. ASSUME NEW k \in Inums PROVE Counted(k)'
  <2>1. AheadGrows(k, 0)
    <3>1. p \notin Ahead(k)'
      BY <1>3, <1>18 DEF Ahead
    <3>q. QED
      BY <1>1, <3>1, AheadChange
  <2>2. /\ LinksTo(i)' \subseteq LinksTo(i) \cup {<<d, n>>}
        /\ LinksTo(d)' \subseteq LinksTo(d) \cup {<<i, "..">>}
        /\ dirent'[i][".."] = 0 => LinksTo(d)' \subseteq LinksTo(d)
        /\ k \notin {i, d} => LinksTo(k)' \subseteq LinksTo(k)
    BY <1>5, <1>6, <1>7, <1>15, EntryLinks
  <2>3. dinode[k].nlink \in Int /\ dinode[d].nlink \in Int
    BY <1>5, LinksMean DEF LinkInv
  <2>4. CASE k = i
    <3>1. LinksGrow(k, 1)
      BY <2>2, <2>4, LinksChange
    <3>2. dinode'[k].nlink >= dinode[k].nlink + 1 + 0 /\ dinode'[k].nlink \in Int
      BY <1>8, <1>11, <2>4
    <3>q. QED
      BY <2>1, <3>1, <3>2, Recount
  <2>5. CASE k = d
    <3>1. LinksGrow(k, more) /\ more \in {0, 1}
      BY <1>13, <1>14, <1>n, <2>2, <2>5, LinksChange
    <3>2. dinode'[k].nlink >= dinode[k].nlink + more + 0 /\ dinode'[k].nlink \in Int
      BY <1>11, <2>3, <2>5, <3>1
    <3>q. QED
      BY <2>1, <3>1, <3>2, Recount
  <2>6. CASE k \notin {i, d}
    <3>1. LinksGrow(k, 0)
      BY <2>2, <2>6, LinksChange
    <3>2. dinode'[k].nlink >= dinode[k].nlink + 0 + 0 /\ dinode'[k].nlink \in Int
      BY <1>10, <2>3, <2>6
    <3>q. QED
      BY <2>1, <3>1, <3>2, Recount
  <2>q. QED
    BY <2>4, <2>5, <2>6
<1>20. Touches(p) /\ FreesLast(p)
  <2>1. Reaches(p, d) /\ Reaches(p, i)
    BY <1>5 DEF Reaches
  <2>2. Touches(p)
    BY <1>4, <1>10, <1>13, <1>2, <1>n, <2>1 DEF Touches
  <2>q. QED
    BY <1>2, <2>2 DEF FreesLast, Freeing
<1>21. Reached(p)
  <2>1. Takes(p, None)
    BY <1>b DEF At, Takes, Holding
  <2>q. QED
    BY <1>1, <2>1, TakesReached
<1>22. OwnCall(p)
  <2>1. Plain(p)
    BY <1>b DEF At, Plain
  <2>2. \A k \in Inums : Knows(p, k)'
    BY <1>3, <1>18 DEF Knows, InDir
  <2>q. QED
    BY <2>1, <2>2, PlainCall DEF OwnCall
<1>q. QED
  BY <1>1, <1>17, <1>19, <1>20, <1>21, <1>22, DataKeeps

LEMMA UnlinkEntryLinks ==
  ASSUME InodeInv, LinkInv, NEW p \in Procs, UnlinkEntry(p)
  PROVE  LinkInv'
<1>n. PICK d, n, i, fewer : /\ d = icache[cur[p]].inum /\ n = Name(p) /\ i = icache[ip[p]].inum
                            /\ fewer = IF Loaded(ip[p])[ip[p]].copy.type = "dir" THEN 1 ELSE 0
  OBVIOUS
<1>1. /\ Did(p) /\ InodeTypes /\ Still(p) /\ Stage(p) /\ Moves(p) /\ KeepsOthers(p) /\ Good(icache, dinode)
      /\ CallInv(p)
  BY UnlinkEntryStep, Begins DEF Did, LinkInv, CallsInv
<1> DEFINE copy == Loaded(ip[p])[cur[p]].copy
<1>2. /\ pc[p] = "victim" /\ Ilock(ip[p])
      /\ dinode' = [dinode EXCEPT ![d] = WithLinks(copy, copy.nlink - fewer)]
      /\ dirent' = [dirent EXCEPT ![d][n] = 0]
  BY <1>n DEF UnlinkEntry, Update
<1>3. /\ cur[p] # None /\ ip[p] # None /\ rest[p] # <<>> /\ Where(p) = "victim" /\ HasDir(p) /\ call[p].op = "unlink"
  BY <1>1, <1>2 DEF Stage, Where, Doing, WithDir, WithInode, WithName, Putting, HasDir
<1>4. Used(cur[p]) /\ Used(ip[p]) /\ lock[cur[p]] = p /\ icache[cur[p]].copy # Invalid /\ ip[p] # cur[p]
  <2>1. Used(cur[p]) /\ Used(ip[p]) /\ lock[cur[p]] = p /\ icache[cur[p]].copy # Invalid
    BY <1>3, PointersUsed, Holders
  <2>q. QED
    BY <1>2, <2>1, NoProcAssumption DEF Ilock
<1>5. d \in Inums /\ i \in Inums /\ Points(cur[p], d) /\ Points(ip[p], i) /\ i # d
  BY <1>1, <1>3, <1>4, <1>n DEF Points, Used, Good, EntryT
<1>6. /\ n \in Names /\ dirent[d][n] = i /\ dinode[d].type = "dir" /\ n \in Entry /\ n # "." /\ n # ".."
  <2>1. n \in Names /\ dirent[d][n] = i
    BY <1>1, <1>2, <1>n DEF CallInv, Relies, Here
  <2>2. dinode[d].type = "dir"
    BY <1>1, <1>3, <1>5 DEF CallInv, Knows, InDir
  <2>q. QED
    BY <2>1, <2>2, NamesAssumption DEF Entry
<1>7. /\ Loaded(ip[p])[ip[p]].copy = dinode[i] /\ copy = dinode[d]
  <2>1. Loads(Loaded(ip[p]), ip[p])
    BY <1>2, <1>4, FromLoaded
  <2>2. Loaded(ip[p])[ip[p]].copy = dinode[i] /\ Loaded(ip[p])[cur[p]] = icache[cur[p]]
    BY <1>4, <1>n, <2>1 DEF Loads, Used
  <2>q. QED
    BY <1>1, <1>4, <1>n, <2>2 DEF Good, Used
<1> HIDE DEF copy
<1>8. NewLinks(d, 0 - fewer) /\ fewer = (IF dinode[i].type = "dir" THEN 1 ELSE 0) /\ fewer \in {0, 1}
  <2>1. dinode[d].nlink \in Int
    BY <1>1, <1>5 DEF Good, DinodeT
  <2>2. fewer = (IF dinode[i].type = "dir" THEN 1 ELSE 0) /\ fewer \in {0, 1}
    BY <1>7, <1>n
  <2>3. dinode[d].nlink - fewer = dinode[d].nlink + (0 - fewer)
    BY <2>1, <2>2
  <2>q. QED
    BY <1>2, <1>7, <2>2, <2>3 DEF NewLinks
<1>9. /\ dinode'[d].nlink = dinode[d].nlink - fewer /\ dinode'[d].nlink \in Int
      /\ \A j \in Inums : dinode'[j].type = dinode[j].type /\ (j # d => dinode'[j] = dinode[j])
  <2>1. dinode[d].nlink \in Int
    BY <1>1, <1>5 DEF Good, DinodeT
  <2>2. 0 - fewer \in Int /\ dinode[d].nlink + (0 - fewer) = dinode[d].nlink - fewer
    BY <1>8, <2>1
  <2>q. QED
    BY <1>5, <1>8, <2>2, NewLinksIs
<1>10. /\ dirent'[d][n] = 0 /\ (\A m \in Entry : m # n => dirent'[d][m] = dirent[d][m])
       /\ \A j \in Inums : j # d => dirent'[j] = dirent[j]
  BY <1>1, <1>2, <1>5, <1>6 DEF InodeTypes, DirentT
<1>11. Shrinks
  BY <1>10 DEF Shrinks
<1>a. To(p, "put", "unlinked", call[p], rest[p], None, ip[p], cur[p], file[p], cwd[p])
  BY <1>1 DEF UnlinkEntry, DropDir, Put, long, Still, To
<1>b. At(p, "put", "unlinked", call[p], rest[p], None, ip[p], cur[p], file[p], cwd[p])
  BY <1>1, <1>a, ToAt
<1>12. \A t \in Inums : dirent'[t][".."] = dirent[t][".."] /\ dirent'[t]["."] = dirent[t]["."]
  BY <1>6, <1>10 DEF Entry
<1>13. TreeInv'
  <2>1. ASSUME NEW k \in Inums PROVE Shape(k)'
    <3>1. SameShape(k)
      <4>1. dinode[k].type = "free" => k # d /\ dinode[k].nlink = 0
        BY <1>6 DEF LinkInv, TreeInv, Shape
      <4>2. dinode[k].type # "dir" => dirent'[k] = Empty
        BY <1>6, <1>10 DEF LinkInv, TreeInv, Shape
      <4>q. QED
        BY <1>9, <1>12, <4>1, <4>2 DEF SameShape
    <3>2. ~Making(p, k)
      BY <1>2 DEF Making
    <3>q. QED
      BY <1>1, <3>1, <3>2, ShapeKept
  <2>2. dinode'[Root].type = "dir"
    BY <1>9, SlotsAre DEF LinkInv, TreeInv, RootIsTop
  <2>3. OneName' /\ RootIsTop'
    BY <1>9, <1>11, <1>12, <2>2, TreeShrinks
  <2>q. QED
    BY <2>1, <2>3 DEF TreeInv
<1>14. \A k : Points(ip[p], k)' => k = i
  BY <1>1, <1>4, <1>b, <1>n DEF At, Points, KeepsOthers, Used
<1>15. AheadGrows(i, 1) /\ \A k \in Inums : k # i => AheadGrows(k, 0)
  <2>1. \A k \in Inums : p \in Ahead(k)' => Points(ip[p], k)'
    BY DEF Ahead, Points
  <2>q. QED
    BY <1>1, <1>5, <1>14, <2>1, AheadChange
<1>16. \A k \in Inums : LinksGrow(k, 0)
  BY <1>11, LinksShrink, LinksChange
<1>17. LinksGrow(i, -1)
  <2>1. <<d, n>> \in LinksTo(i)
    BY <1>5, <1>6, NamesLink
  <2>2. <<d, n>> \notin LinksTo(i)'
    BY <1>5, <1>10, SlotsAre DEF LinksTo, None
  <2>3. LinksTo(i)' \subseteq LinksTo(i) \ {<<d, n>>}
    BY <1>5, <1>11, <2>2, LinksShrink
  <2>q. QED
    BY <1>5, <2>1, <2>3, LinksChange
<1>18. ASSUME dinode[i].type = "dir" PROVE LinksGrow(d, -1)
  <2>1. dirent[i][".."] = d /\ i # Root /\ \A e \in Inums, m \in Names : dirent[e][m] = i => e = d /\ m = n
    BY <1>5, <1>6, <1>18 DEF LinkInv, TreeInv, OneName, RootIsTop
  <2>2. Named(i)
    BY <1>5, <1>6 DEF Named
  <2>3. <<i, "..">> \in LinksTo(d)
    BY <1>5, <2>1, <2>2, NamesLink
  <2>4. ~Named(i)'
    <3>1. \A e \in Inums, m \in Names : dirent'[e][m] # i
      BY <1>5, <1>10, <2>1, SlotsAre DEF Entry, None
    <3>q. QED
      BY <2>1, <3>1 DEF Named
  <2>5. <<i, "..">> \notin LinksTo(d)'
    BY <2>4 DEF LinksTo, Named
  <2>6. LinksTo(d)' \subseteq LinksTo(d) \ {<<i, "..">>}
    BY <1>5, <1>11, <2>5, LinksShrink
  <2>q. QED
    BY <1>5, <2>3, <2>6, LinksChange
<1>19. ASSUME NEW k \in Inums PROVE Counted(k)'
  <2>1. dinode[k].nlink \in Int
    BY LinksMean DEF LinkInv
  <2>2. CASE k = i
    BY <1>5, <1>9, <1>15, <1>17, <2>1, <2>2, Recount
  <2>3. CASE k = d
    <3>1. LinksGrow(k, 0 - fewer) /\ 0 - fewer \in {-1, 0, 1}
      <4>1. CASE dinode[i].type = "dir"
        <5>1. fewer = 1 /\ 0 - fewer = -1
          BY <1>8, <4>1
        <5>q. QED
          BY <1>18, <2>3, <4>1, <5>1
      <4>2. CASE dinode[i].type # "dir"
        <5>1. fewer = 0
          BY <1>8, <4>2
        <5>2. 0 - 0 = 0
          OBVIOUS
        <5>q. QED
          BY <1>16, <2>3, <5>1, <5>2
      <4>q. QED
        BY <4>1, <4>2
    <3>2. AheadGrows(k, 0)
      BY <1>5, <1>15, <2>3
    <3>3. dinode'[k].nlink >= dinode[k].nlink + (0 - fewer) + 0 /\ dinode'[k].nlink \in Int
      BY <1>8, <1>9, <2>1, <2>3
    <3>q. QED
      BY <3>1, <3>2, <3>3, Recount
  <2>4. CASE k \notin {i, d}
    <3>1. LinksGrow(k, 0) /\ AheadGrows(k, 0)
      BY <1>15, <1>16, <2>4
    <3>2. dinode'[k].nlink >= dinode[k].nlink + 0 + 0 /\ dinode'[k].nlink \in Int
      BY <1>9, <2>1, <2>4
    <3>q. QED
      BY <3>1, <3>2, Recount
  <2>q. QED
    BY <2>2, <2>3, <2>4
<1>20. Touches(p) /\ FreesLast(p)
  <2>1. Reaches(p, d)
    BY <1>5 DEF Reaches
  <2>2. Touches(p)
    BY <1>4, <1>9, <1>10, <1>n, <2>1 DEF Touches
  <2>q. QED
    BY <1>2, <2>2 DEF FreesLast, Freeing
<1>21. Reached(p)
  <2>1. Takes(p, None)
    BY <1>b DEF At, Takes, Holding
  <2>q. QED
    BY <1>1, <2>1, TakesReached
<1>22. OwnCall(p)
  <2>1. Plain(p)
    BY <1>b DEF At, Plain
  <2>2. Where(p)' = "unlinked" /\ call'[p] = call[p]
    BY <1>b DEF At, Where, Putting
  <2>3. \A k \in Inums : Knows(p, k)'
    BY <1>3, <2>2 DEF Knows, InDir
  <2>q. QED
    BY <2>1, <2>3, PlainCall DEF OwnCall
<1>q. QED
  BY <1>1, <1>13, <1>19, <1>20, <1>21, <1>22, DataKeeps

-----------------------------------------------------------------------------
(* Links: any step *)

LEMMA LinkInit ==
  ASSUME Init
  PROVE  LinkInv
<1>1. /\ dinode = [i \in Inums |-> IF i = Root THEN [type |-> "dir", nlink |-> 1] ELSE Free]
      /\ dirent = [i \in Inums |-> [n \in Entry |-> IF i = Root /\ n \notin Names THEN Root ELSE 0]]
      /\ icache = [s \in Slots |-> [ref |-> IF s = 1 THEN Cardinality(Procs) ELSE 0, inum |-> Root, copy |-> Invalid]]
      /\ \A p \in Procs : /\ pc[p] = "user" /\ then[p] = "user" /\ call[p] = NoCall
                          /\ cur[p] = None /\ ip[p] = None /\ put[p] = None /\ file[p] = None /\ cwd[p] = 1
  BY DEF Init
<1>2. Root \in Inums /\ 1 \in Slots /\ Root = 1 /\ None \notin Inums /\ None = 0
  BY SlotsAre DEF Root
<1>3. /\ dinode[Root] = [type |-> "dir", nlink |-> 1] /\ \A i \in Inums : i # Root => dinode[i] = Free
      /\ \A i \in Inums, n \in Entry : dirent[i][n] = IF i = Root /\ n \notin Names THEN Root ELSE 0
      /\ \A i \in Inums : i # Root => dirent[i] = Empty
      /\ "." \in Entry /\ ".." \in Entry /\ "." \notin Names /\ ".." \notin Names /\ Names \subseteq Entry
  BY <1>1, <1>2, NamesAssumption DEF Entry, Empty
<1>4. icache[1].inum = Root
  BY <1>1, <1>2
<1>5. TreeInv
  <2>1. ASSUME NEW i \in Inums PROVE Shape(i)
    <3>1. CASE i = Root
      <4>1. dinode[i].type = "dir" /\ dirent[i]["."] = Root /\ dirent[i][".."] = Root
        BY <1>2, <1>3, <3>1
      <4>q. QED
        BY <1>2, <3>1, <4>1 DEF Shape
    <3>2. CASE i # Root
      <4>1. dinode[i] = Free /\ dirent[i] = Empty /\ dirent[i]["."] = 0
        BY <1>3, <3>2
      <4>q. QED
        BY <4>1 DEF Shape, Free
    <3>q. QED
      BY <3>1, <3>2
  <2>2. \A d, t \in Inums, n \in Names : dirent[d][n] # t
    BY <1>2, <1>3
  <2>3. OneName
    BY <2>2 DEF OneName
  <2>4. RootIsTop
    BY <1>2, <1>3, <2>2 DEF RootIsTop
  <2>q. QED
    BY <2>1, <2>3, <2>4 DEF TreeInv
<1>6. CallsInv
  <2>1. ASSUME NEW p \in Procs PROVE CallInv(p)
    <3>1. \A i : Reaches(p, i) => i = Root
      BY <1>1, <1>4 DEF Reaches, Points
    <3>2. Where(p) = "user"
      BY <1>1 DEF Where, Putting
    <3>3. Relies(p)
      BY <1>1 DEF Relies, Putting
    <3>4. ASSUME NEW i \in Inums PROVE Private(p, i) /\ Typed(p, i) /\ Knows(p, i)
      BY <1>1, <1>3, <3>1, <3>2 DEF Private, Freeing, Making, Typed, Knows, InDir, NoCall
    <3>q. QED
      BY <3>3, <3>4 DEF CallInv
  <2>q. QED
    BY <2>1 DEF CallsInv
<1>7. LinksAreCounted
  <2>1. ASSUME NEW i \in Inums PROVE dinode[i].nlink >= Cardinality(LinksTo(i)) + Cardinality(Ahead(i))
    <3>1. Ahead(i) = {}
      BY <1>1 DEF Ahead
    <3>2. Cardinality(Ahead(i)) = 0
      BY <3>1, FS_EmptySet
    <3>3. CASE i = Root
      <4>1. LinksTo(i) \subseteq {<<Root, "..">>}
        <5>1. ASSUME NEW e \in LinksTo(i) PROVE e = <<Root, "..">>
          <6>1. PICK d \in Inums, n \in Entry : e = <<d, n>> /\ dirent[d][n] = Root /\ n # "."
            BY <3>3, <5>1 DEF LinksTo
          <6>2. ~(d # Root \/ n \in Names)
            <7>1. dirent[d][n] = IF d = Root /\ n \notin Names THEN Root ELSE 0
              BY <1>3
            <7>q. QED
              BY <1>2, <6>1, <7>1
          <6>q. QED
            BY <6>1, <6>2 DEF Entry
        <5>q. QED
          BY <5>1
      <4>2. IsFiniteSet({<<Root, "..">>}) /\ Cardinality({<<Root, "..">>}) = 1
        BY FS_Singleton
      <4>3. Cardinality(LinksTo(i)) <= 1 /\ Cardinality(LinksTo(i)) \in Nat
        BY <4>1, <4>2, FS_Subset, FS_CardinalityType
      <4>4. dinode[i].nlink = 1
        BY <1>3, <3>3
      <4>q. QED
        BY <3>2, <4>3, <4>4
    <3>4. CASE i # Root
      <4>1. LinksTo(i) = {}
        <5>1. ASSUME NEW d \in Inums, NEW n \in Entry PROVE dirent[d][n] # i
          <6>1. dirent[d][n] = IF d = Root /\ n \notin Names THEN Root ELSE 0
            BY <1>3
          <6>2. i # 0
            BY <1>2
          <6>q. QED
            BY <3>4, <6>1, <6>2
        <5>q. QED
          BY <5>1 DEF LinksTo
      <4>2. Cardinality(LinksTo(i)) = 0
        BY <4>1, FS_EmptySet
      <4>3. dinode[i].nlink = 0
        BY <1>3, <3>4 DEF Free
      <4>q. QED
        BY <3>2, <4>2, <4>3
    <3>q. QED
      BY <3>3, <3>4
  <2>q. QED
    BY <2>1 DEF LinksAreCounted
<1>q. QED
  BY <1>5, <1>6, <1>7 DEF LinkInv

LEMMA LinkStep ==
  ASSUME InodeInv, LinkInv, ParentsLinked, Next
  PROVE  LinkInv'
<1>1. PICK p \in Procs :
        \/ \E c \in Calls[p] : Enter(p, c)
        \/ Close(p) \/ IputLock(p) \/ IputFree(p) \/ IputDrop(p) \/ Walk(p)
        \/ Open(p) \/ Chdir(p)
        \/ CreateExisting(p) \/ UseExisting(p) \/ CreateNew(p) \/ CreateLink(p) \/ Created(p)
        \/ UnlinkFails(p) \/ UnlinkFind(p) \/ UnlinkRefused(p) \/ UnlockDir(p) \/ UnlinkEntry(p) \/ Unlinked(p)
        \/ LinkRefused(p) \/ LinkOld(p) \/ LinkNew(p) \/ LinkTaken(p) \/ LinkBad(p) \/ Linked(p)
  BY Zenon DEF Next
<1>2. CASE \E c \in Calls[p] : Enter(p, c)
  BY <1>2, EnterLinks
<1>3. CASE Close(p) \/ IputLock(p) \/ IputFree(p) \/ IputDrop(p) \/ Walk(p) \/ Open(p) \/ Chdir(p)
  BY <1>3, CloseLinks, IputLockLinks, IputFreeLinks, IputDropLinks, WalkLinks, OpenLinks, ChdirLinks
<1>4. CASE CreateExisting(p) \/ UseExisting(p) \/ CreateNew(p) \/ CreateLink(p) \/ Created(p)
  BY <1>4, CreateExistingLinks, UseExistingLinks, CreateNewLinks, CreateLinkLinks, CreatedLinks
<1>5. CASE UnlinkFails(p) \/ UnlinkFind(p) \/ UnlinkRefused(p) \/ UnlockDir(p) \/ UnlinkEntry(p) \/ Unlinked(p)
  BY <1>5, UnlinkFailsLinks, UnlinkFindLinks, UnlinkRefusedLinks, UnlockDirLinks, UnlinkEntryLinks,
     UnlinkedLinks
<1>6. CASE LinkRefused(p) \/ LinkOld(p) \/ LinkNew(p) \/ LinkTaken(p) \/ LinkBad(p) \/ Linked(p)
  BY <1>6, LinkRefusedLinks, LinkOldLinks, LinkNewLinks, LinkTakenLinks, LinkBadLinks, LinkedLinks
<1>q. QED
  BY <1>1, <1>2, <1>3, <1>4, <1>5, <1>6

LEMMA LinkStutter ==
  ASSUME LinkInv, UNCHANGED vars
  PROVE  LinkInv'
<1>1. /\ dinode' = dinode /\ dirent' = dirent /\ icache' = icache /\ lock' = lock /\ pc' = pc /\ then' = then
      /\ call' = call /\ rest' = rest /\ cur' = cur /\ ip' = ip /\ put' = put /\ file' = file /\ cwd' = cwd
  BY DEF vars, disk, long
<1>2. ASSUME NEW i PROVE \A p : (Making(p, i)' <=> Making(p, i)) /\ (Reaches(p, i)' <=> Reaches(p, i))
  BY <1>1 DEF Making, Reaches, Points
<1>3. TreeInv'
  BY <1>1, <1>2 DEF LinkInv, TreeInv, Shape, OneName, RootIsTop
<1>4. CallsInv'
  <2>1. ASSUME NEW p \in Procs PROVE CallInv(p)'
    <3>1. Relies(p)'
      BY <1>1 DEF LinkInv, CallsInv, CallInv, Relies, Name, Here
    <3>2. ASSUME NEW i \in Inums PROVE Private(p, i)' /\ Typed(p, i)' /\ Knows(p, i)'
      <4>1. Private(p, i) /\ Typed(p, i) /\ Knows(p, i)
        BY DEF LinkInv, CallsInv, CallInv
      <4>2. Private(p, i)'
        BY <1>1, <1>2, <4>1 DEF Private, Freeing, Alone, Points, NewType
      <4>3. Typed(p, i)' /\ Knows(p, i)'
        BY <1>1, <1>2, <4>1 DEF Typed, Knows, Points, Where
      <4>q. QED
        BY <4>2, <4>3
    <3>q. QED
      BY <3>1, <3>2 DEF CallInv
  <2>q. QED
    BY <2>1 DEF CallsInv
<1>5. LinksAreCounted'
  BY <1>1 DEF LinkInv, LinksAreCounted, LinksTo, Named, Ahead, Where
<1>q. QED
  BY <1>3, <1>4, <1>5 DEF LinkInv

\* nlink counts the names of an i-node, the ".." of its subdirectories and the
\* calls that link or unlink it, and bounds what the disk says from above (create,
\* sys_link, sys_unlink), as long as no process goes by ".." from a removed
\* directory to one that was removed after it.
THEOREM LinksUnlessParentFreed == Spec /\ []ParentsLinked => []LinksAreCounted
<1>1. Init => LinkInv
  BY LinkInit
<1>2. InodeInv /\ LinkInv /\ ParentsLinked /\ [Next]_vars => LinkInv'
  BY LinkStep, LinkStutter
<1>3. LinkInv => LinksAreCounted
  BY DEF LinkInv
<1>q. QED
  BY <1>1, <1>2, <1>3, InodeInvariant, PTL DEF Spec

-----------------------------------------------------------------------------
(* Links: directories of one level *)

LEMMA FlatIsLinked ==
  ASSUME InodeInv, LinkInv, Flat
  PROVE  ParentsLinked
<1>1. dinode[Root].nlink > 0
  BY RootLinked
<1>q. QED
  BY <1>1 DEF Flat, ParentsLinked

MakingAt == {"walk", "mkdir", "new"}
\* A step of p leads away from mkdir, or leaves it where it is.
Away(p) == Where(p)' \notin MakingAt \/ call'[p].op # "mkdir"
InPlace(p) == /\ Where(p)' \in MakingAt /\ call'[p].op = "mkdir" => Where(p) \in MakingAt
            /\ call'[p] = call[p] /\ rest'[p] = rest[p] /\ cur'[p] = cur[p]
LEMMA PutIs ==
  ASSUME InodeTypes, NEW p \in Procs, NEW s, NEW on, Put(p, s, on)
  PROVE  Where(p)' = on
  BY DEF InodeTypes, Put, Where, Putting

LEMMA GotoIs ==
  ASSUME InodeTypes, NEW p \in Procs, NEW to, to \notin Putting, Goto(p, to)
  PROVE  Where(p)' = to
  BY DEF InodeTypes, Goto, Where, Putting

LEMMA InRootKept ==
  ASSUME InodeInv, Flat, NEW p \in Procs, Did(p), Away(p) \/ InPlace(p)
  PROVE  \A q \in Procs : InRoot(q)'
<1> SUFFICES ASSUME NEW q \in Procs PROVE InRoot(q)'
  OBVIOUS
<1>1. Moves(p) /\ KeepsOthers(p) /\ InRoot(q) /\ Stage(q)
  BY DEF Did, Flat, InodeInv
<1>2. Where(q) \in MakingAt => icache'[cur[q]].inum = icache[cur[q]].inum
  BY <1>1, PointersUsed DEF Stage, MakingAt, WithDir, Used, KeepsOthers
<1>3. CASE q # p
  <2>1. SameCall(q)
    BY <1>1, <1>3 DEF Moves, SameCall
  <2>2. Where(q)' = Where(q)
    BY <2>1 DEF Where, SameCall
  <2>q. QED
    BY <1>1, <1>2, <2>1, <2>2 DEF InRoot, MakingAt, SameCall, Last
<1>4. CASE q = p
  BY <1>1, <1>2, <1>4 DEF InRoot, MakingAt, Away, InPlace, Last
<1>q. QED
  BY <1>3, <1>4

LEMMA EnterFlat ==
  ASSUME OneLevel, InodeInv, LinkInv, Flat, NEW p \in Procs, NEW c \in Calls[p], Enter(p, c)
  PROVE  \A q \in Procs : InRoot(q)'
<1>1. Did(p) /\ InodeTypes /\ Moves(p) /\ KeepsOthers(p)
  BY EnterStep, Begins DEF Did
<1> DEFINE i == IF c.abs THEN Root ELSE icache[cwd[p]].inum
<1>2. /\ Get(icache, i) /\ dinode' = dinode /\ cur'[p] = SlotOf(icache, i) /\ rest'[p] = c.path /\ call'[p] = c
  BY <1>1 DEF Enter, Namex, disk, InodeTypes, Pointer
<1>3. CASE c.op # "mkdir"
  BY <1>1, <1>2, <1>3, InRootKept DEF Away
<1>4. CASE c.op = "mkdir"
  <2>1. i = Root /\ Len(c.path) = 1
    BY <1>4 DEF OneLevel
  <2>2. From(p, icache)
    BY <1>2 DEF From, Keeps, SameRefs, TypesKept, InodeInv, Good
  <2>3. icache'[cur'[p]].inum = Root
    BY <1>2, <2>1, <2>2, GetFrom, SlotsAre
  <2>4. InRoot(p)'
    BY <1>2, <2>1, <2>3 DEF InRoot, Last
  <2>5. ASSUME NEW q \in Procs, q # p PROVE InRoot(q)'
    <3>1. InRoot(q) /\ Stage(q) /\ SameCall(q)
      BY <1>1, <2>5 DEF Flat, InodeInv, Moves, SameCall
    <3>2. Where(q)' = Where(q)
      BY <3>1 DEF Where, SameCall
    <3>3. Where(q) \in MakingAt => icache'[cur[q]].inum = icache[cur[q]].inum
      BY <1>1, <3>1, PointersUsed DEF Stage, MakingAt, WithDir, Used, KeepsOthers
    <3>q. QED
      BY <3>1, <3>2, <3>3 DEF InRoot, MakingAt, SameCall, Last
  <2>q. QED
    BY <2>4, <2>5
<1>q. QED
  BY <1>3, <1>4

LEMMA WalkFlat ==
  ASSUME InodeInv, Flat, NEW p \in Procs, Walk(p)
  PROVE  Away(p) \/ InPlace(p)
<1>1. InodeTypes /\ InRoot(p) /\ Where(p) = "walk" /\ call' = call
  BY Begins DEF Flat, Walk, Where, Putting
<1>2. CASE Put(p, cur[p], Failed(p))
  BY <1>2, Begins, PutIs DEF Away, Failed, MakingAt
<1>3. CASE UNCHANGED <<cur, put, rest>>
  BY <1>1, <1>3 DEF InPlace, MakingAt
<1>4. CASE ~(WantsParent(p) /\ Last(p))
  BY <1>1, <1>4 DEF InRoot, WantsParent, Away
<1>q. QED
  BY <1>2, <1>3, <1>4 DEF Walk

LEMMA IputFlat ==
  ASSUME InodeInv, NEW p \in Procs, IputLock(p) \/ IputFree(p) \/ IputDrop(p)
  PROVE  Away(p) \/ InPlace(p)
<1>1. InodeTypes /\ Stage(p)
  BY Begins
<1>2. CASE IputLock(p) \/ IputFree(p)
  <2>1. pc[p] \in Putting /\ pc'[p] \in Putting /\ then' = then
    BY <1>1, <1>2 DEF IputLock, IputFree, Goto, Putting, InodeTypes
  <2>2. call' = call /\ rest' = rest /\ cur' = cur
    BY <1>2 DEF IputLock, IputFree
  <2>q. QED
    BY <2>1, <2>2 DEF InPlace, Where, Putting
<1>3. CASE IputDrop(p)
  <2>1. CASE then[p] = "user"
    BY <1>1, <1>3, <2>1, GotoIs DEF IputDrop, Return, Away, MakingAt, Putting
  <2>2. CASE then[p] # "user"
    <3>1. then[p] \notin Putting /\ Where(p) = then[p]
      BY <1>1, <1>3 DEF Stage, Where, IputDrop, Putting
    <3>2. Goto(p, then[p]) /\ call' = call /\ rest' = rest /\ cur' = cur
      BY <1>3, <2>2 DEF IputDrop
    <3>3. Where(p)' = Where(p)
      BY <1>1, <3>1, <3>2, GotoIs
    <3>q. QED
      BY <3>2, <3>3 DEF InPlace
  <2>q. QED
    BY <2>1, <2>2
<1>q. QED
  BY <1>2, <1>3

LEMMA OthersFlat ==
  ASSUME InodeInv, NEW p \in Procs,
         \/ Close(p) \/ Open(p) \/ Chdir(p) \/ CreateExisting(p) \/ UseExisting(p) \/ CreateLink(p) \/ Created(p)
         \/ UnlinkFails(p) \/ UnlinkFind(p) \/ UnlinkRefused(p) \/ UnlockDir(p) \/ UnlinkEntry(p) \/ Unlinked(p)
         \/ LinkRefused(p) \/ LinkNew(p) \/ LinkTaken(p) \/ LinkBad(p) \/ Linked(p)
  PROVE  Where(p)' \notin MakingAt
<1>1. InodeTypes
  BY Begins
<1>2. \A s, on : Put(p, s, on) => Where(p)' = on
  BY <1>1, PutIs
<1>3. \A to : Goto(p, to) /\ to \notin Putting => Where(p)' = to
  BY <1>1, GotoIs
<1>4. CASE Close(p) \/ Open(p) \/ Chdir(p)
  BY <1>2, <1>3, <1>4 DEF Close, Open, Chdir, Fail, Install, Return, Putting, MakingAt
<1>5. CASE CreateExisting(p) \/ UseExisting(p) \/ CreateLink(p) \/ Created(p)
  <2>1. CASE CreateExisting(p) \/ CreateLink(p)
    BY <1>2, <2>1 DEF CreateExisting, CreateLink, DropDir, MakingAt
  <2>2. CASE UseExisting(p) \/ Created(p)
    BY <1>2, <1>3, <2>2 DEF UseExisting, Created, Fail, Install, Return, Putting, MakingAt
  <2>q. QED
    BY <1>5, <2>1, <2>2
<1>6. CASE UnlinkFails(p) \/ UnlinkFind(p) \/ UnlinkRefused(p)
  BY <1>2, <1>3, <1>6 DEF UnlinkFails, UnlinkFind, UnlinkRefused, DropDir, Putting, MakingAt
<1>7. CASE UnlockDir(p) \/ UnlinkEntry(p) \/ Unlinked(p)
  BY <1>2, <1>7 DEF UnlockDir, UnlinkEntry, Unlinked, DropDir, Failed, MakingAt
<1>8. CASE LinkRefused(p) \/ LinkNew(p) \/ LinkTaken(p) \/ LinkBad(p) \/ Linked(p)
  BY <1>2, <1>8 DEF LinkRefused, LinkNew, LinkTaken, LinkBad, Linked, DropDir, MakingAt
<1>q. QED
  BY <1>4, <1>5, <1>6, <1>7, <1>8

LEMMA AllocFlat ==
  ASSUME InodeInv, NEW p \in Procs, CreateNew(p) \/ LinkOld(p)
  PROVE  Away(p) \/ InPlace(p)
<1>1. InodeTypes /\ Stage(p)
  BY Begins
<1>2. CASE CreateNew(p)
  <2>1. Where(p) \in {"create", "mkdir"} /\ Doing(Where(p), call[p].op)
    BY <1>1, <1>2 DEF CreateNew, Stage, Where, Putting
  <2>2. call' = call /\ rest' = rest /\ cur' = cur
    BY <1>2 DEF CreateNew
  <2>q. QED
    BY <2>1, <2>2 DEF Away, InPlace, Doing, MakingAt
<1>3. CASE LinkOld(p)
  <2>1. call[p].op = "link" /\ call' = call
    BY <1>1, <1>3 DEF LinkOld, Stage, Where, Doing, Putting
  <2>q. QED
    BY <2>1 DEF Away
<1>q. QED
  BY <1>2, <1>3

\* ".." is written by mkdir only.
ParentsStay == \A i \in Inums : dirent'[i][".."] \in {0, Root, dirent[i][".."]}
LEMMA WritesParents ==
  ASSUME InodeInv, LinkInv, Flat, NEW p \in Procs, CreateLink(p) \/ UnlinkEntry(p) \/ LinkNew(p) \/ IputFree(p)
  PROVE  ParentsStay
<1>1. InodeTypes /\ Stage(p) /\ InRoot(p) /\ Relies(p) /\ dirent \in [Inums -> [Entry -> 0..NInodes]]
  BY Begins DEF Flat, LinkInv, CallsInv, CallInv, InodeTypes, DirentT
<1>2. ".." \in Entry /\ ".." # "." /\ ".." \notin Names
  BY NamesAssumption DEF Entry
<1>3. CASE CreateLink(p)
  <2>n. PICK d, n, i, more : /\ d = icache[cur[p]].inum /\ n = Name(p) /\ i = icache[ip[p]].inum
                             /\ more = IF NewType(p) = "dir" THEN 1 ELSE 0
    OBVIOUS
  <2>1. pc[p] = "new" /\ dirent' = [dirent EXCEPT ![d][n] = i,
                                 ![i] = IF more = 1 THEN [Empty EXCEPT !["."] = i, ![".."] = d] ELSE @]
    BY <1>3, <2>n DEF CreateLink
  <2>2. n \in Names
    BY <1>1, <2>1, <2>n DEF Relies
  <2>3. more = 1 => d = Root
    BY <1>1, <2>1, <2>n DEF InRoot, Where, Putting, NewType
  <2>4. [Empty EXCEPT !["."] = i, ![".."] = d][".."] = d
    BY <1>2 DEF Empty
  <2>q. QED
    BY <1>1, <1>2, <2>1, <2>2, <2>3, <2>4 DEF ParentsStay
<1>4. CASE UnlinkEntry(p)
  <2>1. dirent' = [dirent EXCEPT ![icache[cur[p]].inum][Name(p)] = 0]
    BY <1>4 DEF UnlinkEntry
  <2>q. QED
    BY <1>1, <1>2, <2>1 DEF ParentsStay
<1>5. CASE LinkNew(p)
  <2>1. pc[p] = "linkdp" /\ Here(p)[Name(p)] = 0
        /\ dirent' = [dirent EXCEPT ![icache[cur[p]].inum][Name(p)] = icache[ip[p]].inum]
    BY <1>5 DEF LinkNew
  <2>2. cur[p] # None /\ rest[p] # <<>> /\ Where(p) = "linkdp"
    BY <1>1, <2>1 DEF Stage, Where, WithDir, WithName, Putting
  <2>3. Name(p) \in Names
    BY <2>1, <2>2, NewName DEF InDir
  <2>q. QED
    BY <1>1, <1>2, <2>1, <2>3 DEF ParentsStay
<1>6. CASE IputFree(p)
  <2>1. dirent' = [dirent EXCEPT ![icache[put[p]].inum] = Empty]
    BY <1>6 DEF IputFree
  <2>q. QED
    BY <1>1, <1>2, <2>1 DEF ParentsStay, Empty
<1>q. QED
  BY <1>3, <1>4, <1>5, <1>6

LEMMA FlatStep ==
  ASSUME OneLevel, InodeInv, LinkInv, Flat, Next
  PROVE  Flat'
<1>1. PICK p \in Procs :
        \/ \E c \in Calls[p] : Enter(p, c)
        \/ Close(p) \/ IputLock(p) \/ IputFree(p) \/ IputDrop(p) \/ Walk(p)
        \/ Open(p) \/ Chdir(p)
        \/ CreateExisting(p) \/ UseExisting(p) \/ CreateNew(p) \/ CreateLink(p) \/ Created(p)
        \/ UnlinkFails(p) \/ UnlinkFind(p) \/ UnlinkRefused(p) \/ UnlockDir(p) \/ UnlinkEntry(p) \/ Unlinked(p)
        \/ LinkRefused(p) \/ LinkOld(p) \/ LinkNew(p) \/ LinkTaken(p) \/ LinkBad(p) \/ Linked(p)
  BY Zenon DEF Next
<1>2. \A q \in Procs : InRoot(q)'
  <2>1. CASE \E c \in Calls[p] : Enter(p, c)
    BY <2>1, EnterFlat
  <2>2. CASE ~(\E c \in Calls[p] : Enter(p, c))
    <3>1. Away(p) \/ InPlace(p)
      <4>1. CASE IputLock(p) \/ IputFree(p) \/ IputDrop(p)
        BY <4>1, IputFlat
      <4>2. CASE Walk(p)
        BY <4>2, WalkFlat
      <4>3. CASE CreateNew(p) \/ LinkOld(p)
        BY <4>3, AllocFlat
      <4>4. CASE \/ Close(p) \/ Open(p) \/ Chdir(p) \/ CreateExisting(p) \/ UseExisting(p) \/ CreateLink(p)
                 \/ Created(p) \/ UnlinkFails(p) \/ UnlinkFind(p) \/ UnlinkRefused(p) \/ UnlockDir(p)
                 \/ UnlinkEntry(p) \/ Unlinked(p) \/ LinkRefused(p) \/ LinkNew(p) \/ LinkTaken(p) \/ LinkBad(p)
                 \/ Linked(p)
        BY <4>4, OthersFlat DEF Away
      <4>q. QED
        BY <1>1, <2>2, <4>1, <4>2, <4>3, <4>4
    <3>2. Did(p)
      <4>1. CASE Close(p) \/ IputLock(p) \/ IputFree(p) \/ IputDrop(p) \/ Walk(p) \/ Open(p) \/ Chdir(p)
        BY <4>1, CloseStep, IputLockStep, IputFreeStep, IputDropStep, WalkStep, OpenStep, ChdirStep
      <4>2. CASE CreateExisting(p) \/ UseExisting(p) \/ CreateNew(p) \/ CreateLink(p) \/ Created(p)
        BY <4>2, CreateExistingStep, UseExistingStep, CreateNewStep, CreateLinkStep, CreatedStep
      <4>3. CASE UnlinkFails(p) \/ UnlinkFind(p) \/ UnlinkRefused(p) \/ UnlockDir(p) \/ UnlinkEntry(p) \/ Unlinked(p)
        BY <4>3, UnlinkFailsStep, UnlinkFindStep, UnlinkRefusedStep, UnlockDirStep, UnlinkEntryStep,
           UnlinkedStep
      <4>4. CASE LinkRefused(p) \/ LinkOld(p) \/ LinkNew(p) \/ LinkTaken(p) \/ LinkBad(p) \/ Linked(p)
        BY <4>4, LinkRefusedStep, LinkOldStep, LinkNewStep, LinkTakenStep, LinkBadStep, LinkedStep
      <4>q. QED
        BY <1>1, <2>2, <4>1, <4>2, <4>3, <4>4
    <3>q. QED
      BY <3>1, <3>2, InRootKept
  <2>q. QED
    BY <2>1, <2>2
<1>3. ParentsStay
  <2>1. CASE CreateLink(p) \/ UnlinkEntry(p) \/ LinkNew(p) \/ IputFree(p)
    BY <2>1, WritesParents
  <2>2. CASE ~(CreateLink(p) \/ UnlinkEntry(p) \/ LinkNew(p) \/ IputFree(p))
    <3>1. dirent' = dirent
      BY <1>1, <2>2
         DEF Enter, Close, IputLock, IputDrop, Walk, Open, Chdir, CreateExisting, UseExisting, CreateNew,
             Created,
             UnlinkFails, UnlinkFind, UnlinkRefused, UnlockDir, Unlinked, LinkRefused, LinkOld, LinkTaken, LinkBad,
             Linked, disk
    <3>q. QED
      BY <3>1 DEF ParentsStay
  <2>q. QED
    BY <2>1, <2>2
<1>q. QED
  BY <1>2, <1>3 DEF Flat, ParentsStay

LEMMA FlatStutter ==
  ASSUME Flat, UNCHANGED vars
  PROVE  Flat'
  BY DEF vars, disk, long, Flat, InRoot, Where, Last

LEMMA FlatInit ==
  ASSUME Init
  PROVE  Flat
<1>1. \A i \in Inums : dirent[i][".."] \in {0, Root}
  BY DEF Init, Entry
<1>2. \A p \in Procs : InRoot(p)
  BY DEF Init, InRoot, Where, Putting
<1>q. QED
  BY <1>1, <1>2 DEF Flat

\* Without such a parent, the counts bound the links whatever the calls: here
\* directories are made in the root only.
THEOREM InodeLinksAreCounted == OneLevel /\ Spec => []LinksAreCounted
<1> DEFINE J == OneLevel /\ LinkInv /\ Flat
<1>1. OneLevel /\ Init => J
  BY LinkInit, FlatInit
<1>2. InodeInv /\ J /\ [Next]_vars => J'
  <2> SUFFICES ASSUME InodeInv, J, [Next]_vars PROVE J'
    OBVIOUS
  <2>1. OneLevel'
    BY DEF OneLevel
  <2>2. LinkInv'
    BY FlatIsLinked, LinkStep, LinkStutter
  <2>3. Flat'
    BY FlatStep, FlatStutter
  <2>q. QED
    BY <2>1, <2>2, <2>3
<1>3. J => LinksAreCounted
  BY DEF LinkInv
<1> HIDE DEF J
<1>q. QED
  BY <1>1, <1>2, <1>3, InodeInvariant, PTL DEF Spec
=============================================================================
