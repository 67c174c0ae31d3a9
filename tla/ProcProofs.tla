----------------------------- MODULE ProcProofs -----------------------------
(***************************************************************************)
(* Safety of the process table and the scheduler, for any numbers of CPUs  *)
(* and of process slots.                                                   *)
(***************************************************************************)
EXTENDS Proc, TLAPS

\* What the mode of a CPU says of the process whose stack it is on.
OnCpu ==
  \A c \in Cpus :
    /\ mode[c] = "run" => run[c] # NoSlot /\ state[run[c]] = "RUNNING"
    /\ mode[c] = "switch" => run[c] # NoSlot /\ state[run[c]] \in {"RUNNABLE", "SLEEPING", "ZOMBIE"}
    /\ mode[c] \notin {"run", "switch"} => run[c] = NoSlot

\* Where a process stands when it is not running.
Resting ==
  \A p \in Slots : /\ state[p] \in {"UNUSED", "EMBRYO"} => pc[p] = "user"
                   /\ state[p] = "ZOMBIE" => pc[p] \in {"user", "kernel"}

\* A slot being forked belongs to one fork.
Embryos ==
  /\ \A p \in Slots : pc[p] = "fork" => state[child[p]] = "EMBRYO"
  /\ \A p, q \in Slots : child[p] = child[q] /\ child[p] # NoSlot => p = q

CpuInv == TypeOK /\ OneStackOneCpu /\ SchedHoldsLock /\ OnCpu /\ Resting /\ Embryos

\* kill() marks a process and makes a sleeper runnable; it touches nothing else.
LEMMA KillOnlyWakes ==
  ASSUME TypeOK, NEW c \in Cpus, NEW p \in Slots, NEW k \in KillArgs, Kill(c, p, k)
  PROVE  /\ UNCHANGED <<pid, parent, chan, threads, lock, cpu, nextpid>>
         /\ \A t \in Slots : \/ state'[t] = state[t] /\ (killed'[t] = killed[t] \/ state[t] # "SLEEPING")
                             \/ state[t] = "SLEEPING" /\ state'[t] = "RUNNABLE"
         /\ state' \in [Slots -> States] /\ killed' \in [Slots -> BOOLEAN]
<1> USE DEF TypeOK, States
<1>1. CASE {s \in Slots : pid[s] = k} = {}
  BY <1>1 DEF Kill
<1>2. CASE {s \in Slots : pid[s] = k} # {}
  <2>1. PICK s \in Slots : /\ killed' = [killed EXCEPT ![s] = TRUE]
                           /\ state' = [state EXCEPT ![s] = IF state[s] = "SLEEPING" THEN "RUNNABLE" ELSE state[s]]
    BY <1>2 DEF Kill, IsFirst
  <2>q. QED
    BY <2>1 DEF Kill
<1>q. QED
  BY <1>1, <1>2

LEMMA CpuStep == CpuInv /\ [Next]_vars => CpuInv'
<1>1. SUFFICES ASSUME CpuInv, [Next]_vars PROVE CpuInv'
  OBVIOUS
<1>2. TypeOK /\ OneStackOneCpu /\ SchedHoldsLock /\ OnCpu /\ Resting /\ Embryos
  BY <1>1 DEF CpuInv
<1> USE NProcAssumption, NoCpuAssumption
    DEF CpuInv, TypeOK, OneStackOneCpu, SchedHoldsLock, OnCpu, Resting, Embryos, Live, States, PC, Mode,
        Slots, NoSlot, init, table, threads, cpu
<1>3. ASSUME NEW c \in Cpus, SchedLock(c) PROVE CpuInv'
  BY <1>2, <1>3 DEF SchedLock
<1>4. ASSUME NEW c \in Cpus, SchedPick(c) PROVE CpuInv'
  <2>1. TypeOK'
    BY <1>2, <1>4 DEF SchedPick, Eligible, LockAfterSwitch, IsFirst
  <2>2. OneStackOneCpu'
    BY <1>2, <1>4 DEF SchedPick, Eligible, LockAfterSwitch, IsFirst
  <2>3. SchedHoldsLock'
    BY <1>2, <1>4 DEF SchedPick, Eligible, LockAfterSwitch, IsFirst
  <2>4. OnCpu'
    BY <1>2, <1>4 DEF SchedPick, Eligible, LockAfterSwitch, IsFirst
  <2>5. Resting'
    BY <1>2, <1>4 DEF SchedPick, Eligible, LockAfterSwitch, IsFirst
  <2>6. Embryos'
    BY <1>2, <1>4 DEF SchedPick, Eligible, LockAfterSwitch, IsFirst
  <2>q. QED
    BY <2>1, <2>2, <2>3, <2>4, <2>5, <2>6
<1>5. ASSUME NEW c \in Cpus, SchedDone(c) PROVE CpuInv'
  <2>1. TypeOK'
    BY <1>2, <1>5 DEF SchedDone
  <2>2. OneStackOneCpu'
    BY <1>2, <1>5 DEF SchedDone
  <2>3. SchedHoldsLock'
    BY <1>2, <1>5 DEF SchedDone
  <2>4. OnCpu'
    BY <1>2, <1>5 DEF SchedDone
  <2>5. Resting'
    BY <1>2, <1>5 DEF SchedDone
  <2>6. Embryos'
    BY <1>2, <1>5 DEF SchedDone
  <2>q. QED
    BY <2>1, <2>2, <2>3, <2>4, <2>5, <2>6
<1>6. ASSUME NEW c \in Cpus, Halt(c) PROVE CpuInv'
  <2>1. TypeOK'
    BY <1>2, <1>6 DEF Halt
  <2>2. OneStackOneCpu'
    BY <1>2, <1>6 DEF Halt
  <2>3. SchedHoldsLock'
    BY <1>2, <1>6 DEF Halt
  <2>4. OnCpu'
    BY <1>2, <1>6 DEF Halt
  <2>5. Resting'
    BY <1>2, <1>6 DEF Halt
  <2>6. Embryos'
    BY <1>2, <1>6 DEF Halt
  <2>q. QED
    BY <2>1, <2>2, <2>3, <2>4, <2>5, <2>6
<1>7. ASSUME NEW c \in Cpus, Interrupt(c) PROVE CpuInv'
  BY <1>2, <1>7 DEF Interrupt
<1>8. ASSUME NEW c \in Cpus, Switch(c) PROVE CpuInv'
  BY <1>2, <1>8 DEF Switch
<1>9. ASSUME NEW c \in Cpus, NEW p \in Slots, Syscall(c, p) PROVE CpuInv'
  BY <1>2, <1>9 DEF Syscall, On
<1>10. ASSUME NEW c \in Cpus, NEW p \in Slots, SysReturn(c, p) PROVE CpuInv'
  BY <1>2, <1>10 DEF SysReturn, On
<1>11. ASSUME NEW c \in Cpus, NEW p \in Slots, Fault(c, p) PROVE CpuInv'
  BY <1>2, <1>11 DEF Fault, On
<1>12. ASSUME NEW c \in Cpus, NEW p \in Slots, Yield(c, p) PROVE CpuInv'
  <2>1. TypeOK'
    BY <1>2, <1>12 DEF Yield, Leave
  <2>2. OneStackOneCpu'
    BY <1>2, <1>12 DEF Yield, Leave
  <2>3. SchedHoldsLock'
    BY <1>2, <1>12 DEF Yield, Leave
  <2>4. OnCpu'
    BY <1>2, <1>12 DEF Yield, Leave
  <2>5. Resting'
    BY <1>2, <1>12 DEF Yield, Leave
  <2>6. Embryos'
    BY <1>2, <1>12 DEF Yield, Leave
  <2>q. QED
    BY <2>1, <2>2, <2>3, <2>4, <2>5, <2>6
<1>13. ASSUME NEW c \in Cpus, NEW p \in Slots, ForkAlloc(c, p) PROVE CpuInv'
  <2>1. TypeOK'
    BY <1>2, <1>13 DEF ForkAlloc, On, Unused, IsFirst
  <2>2. OneStackOneCpu'
    BY <1>2, <1>13 DEF ForkAlloc, On, Unused, IsFirst
  <2>3. SchedHoldsLock'
    BY <1>2, <1>13 DEF ForkAlloc, On, Unused, IsFirst
  <2>4. OnCpu'
    BY <1>2, <1>13 DEF ForkAlloc, On, Unused, IsFirst
  <2>5. Resting'
    BY <1>2, <1>13 DEF ForkAlloc, On, Unused, IsFirst
  <2>6. Embryos'
    BY <1>2, <1>13 DEF ForkAlloc, On, Unused, IsFirst
  <2>q. QED
    BY <2>1, <2>2, <2>3, <2>4, <2>5, <2>6
<1>14. ASSUME NEW c \in Cpus, NEW p \in Slots, ForkFail(c, p) PROVE CpuInv'
  <2>0. child[p] \in Slots /\ state[child[p]] = "EMBRYO" /\ pc[child[p]] = "user"
    BY <1>2, <1>14 DEF ForkFail, On
  <2>1. TypeOK'
    <3>1. state' \in [Slots -> States] /\ pc' \in [Slots -> PC] /\ child' \in [Slots -> Slots \cup {NoSlot}]
      BY <1>2, <2>0, <1>14 DEF ForkFail, On
    <3>2. pid' \in [Slots -> Nat] /\ parent' \in [Slots -> Slots \cup {NoSlot}] /\ killed' \in [Slots -> BOOLEAN]
      BY <1>2, <2>0, <1>14 DEF ForkFail, On
    <3>3. \A q \in Slots : child'[q] # NoSlot <=> pc'[q] = "fork"
      BY <1>2, <2>0, <1>14 DEF ForkFail, On
    <3>q. QED
      BY <1>2, <3>1, <3>2, <3>3, <1>14 DEF ForkFail, On
  <2>2. OneStackOneCpu'
    BY <1>2, <1>14, <2>0 DEF ForkFail, On
  <2>3. SchedHoldsLock'
    BY <1>2, <1>14, <2>0 DEF ForkFail, On
  <2>4. OnCpu'
    BY <1>2, <1>14, <2>0 DEF ForkFail, On
  <2>5. Resting'
    BY <1>2, <1>14, <2>0 DEF ForkFail, On
  <2>6. Embryos'
    BY <1>2, <1>14, <2>0 DEF ForkFail, On
  <2>q. QED
    BY <2>1, <2>2, <2>3, <2>4, <2>5, <2>6
<1>15. ASSUME NEW c \in Cpus, NEW p \in Slots, ForkDone(c, p) PROVE CpuInv'
  <2>0. child[p] \in Slots /\ state[child[p]] = "EMBRYO" /\ pc[child[p]] = "user"
    BY <1>2, <1>15 DEF ForkDone, On
  <2>1. TypeOK'
    <3>1. state' \in [Slots -> States] /\ pc' \in [Slots -> PC] /\ child' \in [Slots -> Slots \cup {NoSlot}]
      BY <1>2, <2>0, <1>15 DEF ForkDone, On
    <3>2. pid' \in [Slots -> Nat] /\ parent' \in [Slots -> Slots \cup {NoSlot}] /\ killed' \in [Slots -> BOOLEAN]
      BY <1>2, <2>0, <1>15 DEF ForkDone, On
    <3>3. \A q \in Slots : child'[q] # NoSlot <=> pc'[q] = "fork"
      BY <1>2, <2>0, <1>15 DEF ForkDone, On
    <3>q. QED
      BY <1>2, <3>1, <3>2, <3>3, <1>15 DEF ForkDone, On
  <2>2. OneStackOneCpu'
    BY <1>2, <1>15, <2>0 DEF ForkDone, On
  <2>3. SchedHoldsLock'
    BY <1>2, <1>15, <2>0 DEF ForkDone, On
  <2>4. OnCpu'
    BY <1>2, <1>15, <2>0 DEF ForkDone, On
  <2>5. Resting'
    BY <1>2, <1>15, <2>0 DEF ForkDone, On
  <2>6. Embryos'
    BY <1>2, <1>15, <2>0 DEF ForkDone, On
  <2>q. QED
    BY <2>1, <2>2, <2>3, <2>4, <2>5, <2>6
<1>16. ASSUME NEW c \in Cpus, NEW p \in Slots, Exit(c, p) PROVE CpuInv'
  BY <1>2, <1>16 DEF Exit, On, Adopted, ToWake, Children
<1>17. ASSUME NEW c \in Cpus, NEW p \in Slots, WaitLock(c, p) PROVE CpuInv'
  BY <1>2, <1>17 DEF WaitLock, On
<1>18. ASSUME NEW c \in Cpus, NEW p \in Slots, WaitReap(c, p) PROVE CpuInv'
  <2>0. \A z \in Zombies(p) : z \in Slots /\ pc[z] # "fork" /\ child[z] = NoSlot
    BY <1>2 DEF Zombies, Children
  <2>1. TypeOK'
    <3>1. PICK z \in Zombies(p) : /\ state' = [state EXCEPT ![z] = "UNUSED"]
                                  /\ pid' = [pid EXCEPT ![z] = 0]
                                  /\ parent' = [parent EXCEPT ![z] = NoSlot]
                                  /\ killed' = [killed EXCEPT ![z] = FALSE]
                                  /\ pc' = [pc EXCEPT ![p] = "kernel", ![z] = "user"]
      BY <1>18 DEF WaitReap, IsFirst
    <3>2. z \in Slots /\ pc[z] # "fork" /\ pc[p] = "waiting"
      BY <2>0, <3>1, <1>18 DEF WaitReap, On
    <3>3. \A q \in Slots : child'[q] # NoSlot <=> pc'[q] = "fork"
      BY <1>2, <3>1, <3>2, <1>18 DEF WaitReap
    <3>q. QED
      BY <1>2, <3>1, <3>2, <3>3, <1>18 DEF WaitReap
  <2>2. OneStackOneCpu'
    BY <1>2, <1>18, <2>0 DEF WaitReap, On, Zombies, Children, IsFirst
  <2>3. SchedHoldsLock'
    BY <1>2, <1>18, <2>0 DEF WaitReap, On, Zombies, Children, IsFirst
  <2>4. OnCpu'
    BY <1>2, <1>18, <2>0 DEF WaitReap, On, Zombies, Children, IsFirst
  <2>5. Resting'
    BY <1>2, <1>18, <2>0 DEF WaitReap, On, Zombies, Children, IsFirst
  <2>6. Embryos'
    BY <1>2, <1>18, <2>0 DEF WaitReap, On, Zombies, Children, IsFirst
  <2>q. QED
    BY <2>1, <2>2, <2>3, <2>4, <2>5, <2>6
<1>19. ASSUME NEW c \in Cpus, NEW p \in Slots, WaitFail(c, p) PROVE CpuInv'
  BY <1>2, <1>19 DEF WaitFail, On
<1>20. ASSUME NEW c \in Cpus, NEW p \in Slots, WaitSleep(c, p) PROVE CpuInv'
  <2>1. TypeOK'
    BY <1>2, <1>20 DEF WaitSleep, On, Leave
  <2>2. OneStackOneCpu'
    BY <1>2, <1>20 DEF WaitSleep, On, Leave
  <2>3. SchedHoldsLock'
    BY <1>2, <1>20 DEF WaitSleep, On, Leave
  <2>4. OnCpu'
    BY <1>2, <1>20 DEF WaitSleep, On, Leave
  <2>5. Resting'
    BY <1>2, <1>20 DEF WaitSleep, On, Leave
  <2>6. Embryos'
    BY <1>2, <1>20 DEF WaitSleep, On, Leave
  <2>q. QED
    BY <2>1, <2>2, <2>3, <2>4, <2>5, <2>6
<1>21. ASSUME NEW c \in Cpus, NEW p \in Slots, NEW ch \in Channels, Sleep(c, p, ch) PROVE CpuInv'
  BY <1>2, <1>21 DEF Sleep, On, Leave
<1>22. ASSUME NEW c \in Cpus, NEW p \in Slots, NEW k \in KillArgs, Kill(c, p, k) PROVE CpuInv'
  <2>0. /\ UNCHANGED <<pid, parent, chan, threads, lock, cpu, nextpid>>
        /\ \A t \in Slots : \/ state'[t] = state[t] /\ (killed'[t] = killed[t] \/ state[t] # "SLEEPING")
                            \/ state[t] = "SLEEPING" /\ state'[t] = "RUNNABLE"
        /\ state' \in [Slots -> States] /\ killed' \in [Slots -> BOOLEAN]
    BY <1>2, <1>22, KillOnlyWakes
  <2>1. TypeOK'
    BY <1>2, <2>0
  <2>2. OneStackOneCpu'
    BY <1>2, <2>0
  <2>3. SchedHoldsLock'
    BY <1>2, <2>0
  <2>4. OnCpu'
    BY <1>2, <2>0
  <2>5. Resting'
    BY <1>2, <2>0
  <2>6. Embryos'
    BY <1>2, <2>0
  <2>q. QED
    BY <2>1, <2>2, <2>3, <2>4, <2>5, <2>6
<1>23. ASSUME NEW ch \in Channels, Wakeup(ch) PROVE CpuInv'
  BY <1>2, <1>23 DEF Wakeup, Woken
<1>24. ASSUME UNCHANGED vars PROVE CpuInv'
  BY <1>2, <1>24 DEF vars
<1>q. QED
  BY <1>1, <1>3, <1>4, <1>5, <1>6, <1>7, <1>8, <1>9, <1>10, <1>11, <1>12, <1>13, <1>14,
     <1>15, <1>16, <1>17, <1>18, <1>19, <1>20, <1>21, <1>22, <1>23, <1>24 DEF Next,
     Scheduler, Wait

-----------------------------------------------------------------------------
\* init is always there to adopt, and nobody is its own parent.
Rooted == /\ Live(init) /\ state[init] # "ZOMBIE"
          /\ parent[init] = NoSlot
          /\ \A s \in Slots : parent[s] # s

FamilyInv == Rooted /\ NoOrphans /\ WaiterSeesZombie

LEMMA FamilyStep == CpuInv /\ FamilyInv /\ [Next]_vars => FamilyInv'
<1>1. SUFFICES ASSUME CpuInv, FamilyInv, [Next]_vars PROVE FamilyInv'
  OBVIOUS
<1>2. TypeOK /\ OnCpu /\ Embryos /\ Rooted /\ NoOrphans /\ WaiterSeesZombie
  BY <1>1 DEF CpuInv, FamilyInv
<1> USE NProcAssumption, ChannelsAssumption
    DEF FamilyInv, TypeOK, OnCpu, Embryos, Rooted, NoOrphans, WaiterSeesZombie, Zombies, Children, Live,
        States, PC, Mode, Slots, NoSlot, init, table, threads, cpu
<1>3. ASSUME NEW c \in Cpus, SchedLock(c) PROVE FamilyInv'
  BY <1>2, <1>3 DEF SchedLock
<1>4. ASSUME NEW c \in Cpus, SchedPick(c) PROVE FamilyInv'
  <2>1. Rooted'
    BY <1>2, <1>4 DEF SchedPick, Eligible, LockAfterSwitch, IsFirst
  <2>2. NoOrphans'
    BY <1>2, <1>4 DEF SchedPick, Eligible, LockAfterSwitch, IsFirst
  <2>3. WaiterSeesZombie'
    BY <1>2, <1>4 DEF SchedPick, Eligible, LockAfterSwitch, IsFirst
  <2>q. QED
    BY <2>1, <2>2, <2>3
<1>5. ASSUME NEW c \in Cpus, SchedDone(c) PROVE FamilyInv'
  BY <1>2, <1>5 DEF SchedDone
<1>6. ASSUME NEW c \in Cpus, Halt(c) PROVE FamilyInv'
  BY <1>2, <1>6 DEF Halt
<1>7. ASSUME NEW c \in Cpus, Interrupt(c) PROVE FamilyInv'
  BY <1>2, <1>7 DEF Interrupt
<1>8. ASSUME NEW c \in Cpus, Switch(c) PROVE FamilyInv'
  BY <1>2, <1>8 DEF Switch
<1>9. ASSUME NEW c \in Cpus, NEW p \in Slots, Syscall(c, p) PROVE FamilyInv'
  BY <1>2, <1>9 DEF Syscall, On
<1>10. ASSUME NEW c \in Cpus, NEW p \in Slots, SysReturn(c, p) PROVE FamilyInv'
  BY <1>2, <1>10 DEF SysReturn, On
<1>11. ASSUME NEW c \in Cpus, NEW p \in Slots, Fault(c, p) PROVE FamilyInv'
  BY <1>2, <1>11 DEF Fault, On
<1>12. ASSUME NEW c \in Cpus, NEW p \in Slots, Yield(c, p) PROVE FamilyInv'
  BY <1>2, <1>12 DEF Yield, Leave
<1>13. ASSUME NEW c \in Cpus, NEW p \in Slots, ForkAlloc(c, p) PROVE FamilyInv'
  <2>1. Rooted'
    BY <1>2, <1>13 DEF ForkAlloc, On, Unused, IsFirst
  <2>2. NoOrphans'
    BY <1>2, <1>13 DEF ForkAlloc, On, Unused, IsFirst
  <2>3. WaiterSeesZombie'
    BY <1>2, <1>13 DEF ForkAlloc, On, Unused, IsFirst
  <2>q. QED
    BY <2>1, <2>2, <2>3
<1>14. ASSUME NEW c \in Cpus, NEW p \in Slots, ForkFail(c, p) PROVE FamilyInv'
  <2>1. Rooted'
    BY <1>2, <1>14 DEF ForkFail, On
  <2>2. NoOrphans'
    BY <1>2, <1>14 DEF ForkFail, On
  <2>3. WaiterSeesZombie'
    BY <1>2, <1>14 DEF ForkFail, On
  <2>q. QED
    BY <2>1, <2>2, <2>3
<1>15. ASSUME NEW c \in Cpus, NEW p \in Slots, ForkDone(c, p) PROVE FamilyInv'
  <2>1. Rooted'
    BY <1>2, <1>15 DEF ForkDone, On
  <2>2. NoOrphans'
    BY <1>2, <1>15 DEF ForkDone, On
  <2>3. WaiterSeesZombie'
    BY <1>2, <1>15 DEF ForkDone, On
  <2>q. QED
    BY <2>1, <2>2, <2>3
<1>16. ASSUME NEW c \in Cpus, NEW p \in Slots, Exit(c, p) PROVE FamilyInv'
  <2>1. Rooted'
    BY <1>2, <1>16 DEF Exit, On, Adopted, ToWake
  <2>2. NoOrphans'
    BY <1>2, <1>16 DEF Exit, On, Adopted, ToWake
  <2>3. WaiterSeesZombie'
    BY <1>2, <1>16 DEF Exit, On, Adopted, ToWake
  <2>q. QED
    BY <2>1, <2>2, <2>3
<1>17. ASSUME NEW c \in Cpus, NEW p \in Slots, WaitLock(c, p) PROVE FamilyInv'
  BY <1>2, <1>17 DEF WaitLock, On
<1>18. ASSUME NEW c \in Cpus, NEW p \in Slots, WaitReap(c, p) PROVE FamilyInv'
  <2>1. Rooted'
    BY <1>2, <1>18 DEF WaitReap, On, IsFirst
  <2>2. NoOrphans'
    BY <1>2, <1>18 DEF WaitReap, On, IsFirst
  <2>3. WaiterSeesZombie'
    BY <1>2, <1>18 DEF WaitReap, On, IsFirst
  <2>q. QED
    BY <2>1, <2>2, <2>3
<1>19. ASSUME NEW c \in Cpus, NEW p \in Slots, WaitFail(c, p) PROVE FamilyInv'
  BY <1>2, <1>19 DEF WaitFail, On
<1>20. ASSUME NEW c \in Cpus, NEW p \in Slots, WaitSleep(c, p) PROVE FamilyInv'
  <2>1. Rooted'
    BY <1>2, <1>20 DEF WaitSleep, On, Leave
  <2>2. NoOrphans'
    BY <1>2, <1>20 DEF WaitSleep, On, Leave
  <2>3. WaiterSeesZombie'
    BY <1>2, <1>20 DEF WaitSleep, On, Leave
  <2>q. QED
    BY <2>1, <2>2, <2>3
<1>21. ASSUME NEW c \in Cpus, NEW p \in Slots, NEW ch \in Channels, Sleep(c, p, ch) PROVE FamilyInv'
  BY <1>2, <1>21 DEF Sleep, On, Leave
<1>22. ASSUME NEW c \in Cpus, NEW p \in Slots, NEW k \in KillArgs, Kill(c, p, k) PROVE FamilyInv'
  <2>0. /\ UNCHANGED <<pid, parent, chan, threads, lock, cpu, nextpid>>
        /\ \A t \in Slots : \/ state'[t] = state[t] /\ (killed'[t] = killed[t] \/ state[t] # "SLEEPING")
                            \/ state[t] = "SLEEPING" /\ state'[t] = "RUNNABLE"
        /\ state' \in [Slots -> States] /\ killed' \in [Slots -> BOOLEAN]
    BY <1>2, <1>22, KillOnlyWakes
  <2>1. Rooted'
    BY <1>2, <2>0
  <2>2. NoOrphans'
    BY <1>2, <2>0
  <2>3. WaiterSeesZombie'
    BY <1>2, <2>0
  <2>q. QED
    BY <2>1, <2>2, <2>3
<1>23. ASSUME NEW ch \in Channels, Wakeup(ch) PROVE FamilyInv'
  BY <1>2, <1>23 DEF Wakeup, Woken
<1>24. ASSUME UNCHANGED vars PROVE FamilyInv'
  BY <1>2, <1>24 DEF vars
<1>q. QED
  BY <1>1, <1>3, <1>4, <1>5, <1>6, <1>7, <1>8, <1>9, <1>10, <1>11, <1>12, <1>13, <1>14,
     <1>15, <1>16, <1>17, <1>18, <1>19, <1>20, <1>21, <1>22, <1>23, <1>24 DEF Next,
     Scheduler, Wait

-----------------------------------------------------------------------------
LEMMA ProcInvInit == Init => CpuInv /\ FamilyInv
  BY NProcAssumption, NoCpuAssumption, ChannelsAssumption
     DEF Init, CpuInv, FamilyInv, TypeOK, OneStackOneCpu, SchedHoldsLock, OnCpu, Resting, Embryos, Rooted,
         NoOrphans, WaiterSeesZombie, Zombies, Children, Live, States, PC, Mode, Slots, NoSlot, init

LEMMA ProcInvariance == Spec => [](CpuInv /\ FamilyInv)
<1>1. CpuInv /\ FamilyInv /\ [Next]_vars => CpuInv' /\ FamilyInv'
  BY CpuStep, FamilyStep
<1>q. QED
  BY <1>1, ProcInvInit, PTL DEF Spec

\* The variables of the process table and the scheduler keep their types.
THEOREM ProcTypeCorrect == Spec => []TypeOK
<1>1. CpuInv => TypeOK
  BY DEF CpuInv
<1>q. QED
  BY <1>1, ProcInvariance, PTL

\* swtch never puts two CPUs on one kernel stack, nor wait() frees a stack in
\* use, however many CPUs and processes there are.
THEOREM StacksAreExclusive == Spec => []OneStackOneCpu
<1>1. CpuInv => OneStackOneCpu
  BY DEF CpuInv
<1>q. QED
  BY <1>1, ProcInvariance, PTL

\* ptable.lock is held in sched() and by the scan, and by nobody they resumed.
THEOREM LockIsHandedOver == Spec => []SchedHoldsLock
<1>1. CpuInv => SchedHoldsLock
  BY DEF CpuInv
<1>q. QED
  BY <1>1, ProcInvariance, PTL

\* Every process keeps a parent that can wait for it.
THEOREM NobodyIsOrphaned == Spec => []NoOrphans
<1>1. FamilyInv => NoOrphans
  BY DEF FamilyInv
<1>q. QED
  BY <1>1, ProcInvariance, PTL

\* No process sleeps in wait() beside a zombie child or after being killed.
THEOREM WaitMissesNoExit == Spec => []WaiterSeesZombie
<1>1. FamilyInv => WaiterSeesZombie
  BY DEF FamilyInv
<1>q. QED
  BY <1>1, ProcInvariance, PTL

-----------------------------------------------------------------------------
\* A free slot is not marked; whoever is marked was asked for.
Condemned ==
  \A s \in Slots : /\ state[s] = "UNUSED" => ~killed[s] /\ pid[s] = 0
                   /\ killed[s] => pid[s] \in asked

LEMMA CondemnedStep ==
  ASSUME 0 \notin KillArgs, ~MayFail, CpuInv, Condemned, [Next]_vars
  PROVE  Condemned'
<1>2. TypeOK /\ OnCpu /\ Embryos /\ Condemned
  BY DEF CpuInv
<1> USE NProcAssumption
    DEF TypeOK, OnCpu, Embryos, Condemned, States, PC, Slots, NoSlot, table, threads, cpu
<1>3. ASSUME NEW c \in Cpus, SchedLock(c) PROVE Condemned'
  BY <1>2, <1>3 DEF SchedLock
<1>4. ASSUME NEW c \in Cpus, SchedPick(c) PROVE Condemned'
  BY <1>2, <1>4 DEF SchedPick, Eligible, LockAfterSwitch, IsFirst
<1>5. ASSUME NEW c \in Cpus, SchedDone(c) PROVE Condemned'
  BY <1>2, <1>5 DEF SchedDone
<1>6. ASSUME NEW c \in Cpus, Halt(c) PROVE Condemned'
  BY <1>2, <1>6 DEF Halt
<1>7. ASSUME NEW c \in Cpus, Interrupt(c) PROVE Condemned'
  BY <1>2, <1>7 DEF Interrupt
<1>8. ASSUME NEW c \in Cpus, Switch(c) PROVE Condemned'
  BY <1>2, <1>8 DEF Switch
<1>9. ASSUME NEW c \in Cpus, NEW p \in Slots, Syscall(c, p) PROVE Condemned'
  BY <1>2, <1>9 DEF Syscall, On
<1>10. ASSUME NEW c \in Cpus, NEW p \in Slots, SysReturn(c, p) PROVE Condemned'
  BY <1>2, <1>10 DEF SysReturn, On
<1>11. ASSUME NEW c \in Cpus, NEW p \in Slots, Fault(c, p) PROVE Condemned'
  BY <1>2, <1>11 DEF Fault, On
<1>12. ASSUME NEW c \in Cpus, NEW p \in Slots, Yield(c, p) PROVE Condemned'
  BY <1>2, <1>12 DEF Yield, Leave
<1>13. ASSUME NEW c \in Cpus, NEW p \in Slots, ForkAlloc(c, p) PROVE Condemned'
  <2>1. PICK np \in Slots : /\ state[np] = "UNUSED"
                            /\ state' = [state EXCEPT ![np] = "EMBRYO"]
                            /\ pid' = [pid EXCEPT ![np] = nextpid]
    BY <1>13 DEF ForkAlloc, IsFirst, Unused
  <2>q. QED
    BY <1>2, <2>1, <1>13 DEF ForkAlloc
<1>14. ASSUME NEW c \in Cpus, NEW p \in Slots, ForkFail(c, p) PROVE Condemned'
  BY <1>2, <1>14 DEF ForkFail, On
<1>15. ASSUME NEW c \in Cpus, NEW p \in Slots, ForkDone(c, p) PROVE Condemned'
  BY <1>2, <1>15 DEF ForkDone, On
<1>16. ASSUME NEW c \in Cpus, NEW p \in Slots, Exit(c, p) PROVE Condemned'
  BY <1>2, <1>16 DEF Exit, On
<1>17. ASSUME NEW c \in Cpus, NEW p \in Slots, WaitLock(c, p) PROVE Condemned'
  BY <1>2, <1>17 DEF WaitLock, On
<1>18. ASSUME NEW c \in Cpus, NEW p \in Slots, WaitReap(c, p) PROVE Condemned'
  BY <1>2, <1>18 DEF WaitReap, On, Zombies, Children, IsFirst
<1>19. ASSUME NEW c \in Cpus, NEW p \in Slots, WaitFail(c, p) PROVE Condemned'
  BY <1>2, <1>19 DEF WaitFail, On
<1>20. ASSUME NEW c \in Cpus, NEW p \in Slots, WaitSleep(c, p) PROVE Condemned'
  BY <1>2, <1>20 DEF WaitSleep, On, Leave
<1>21. ASSUME NEW c \in Cpus, NEW p \in Slots, NEW ch \in Channels, Sleep(c, p, ch) PROVE Condemned'
  BY <1>2, <1>21 DEF Sleep, On, Leave
<1>22. ASSUME NEW c \in Cpus, NEW p \in Slots, NEW k \in KillArgs, Kill(c, p, k) PROVE Condemned'
  BY <1>2, <1>22 DEF Kill, On, IsFirst
<1>23. ASSUME NEW ch \in Channels, Wakeup(ch) PROVE Condemned'
  BY <1>2, <1>23 DEF Wakeup, Woken
<1>24. ASSUME UNCHANGED vars PROVE Condemned'
  BY <1>2, <1>24 DEF vars
<1>q. QED
  BY <1>3, <1>4, <1>5, <1>6, <1>7, <1>8, <1>9, <1>10, <1>11, <1>12, <1>13, <1>14,
     <1>15, <1>16, <1>17, <1>18, <1>19, <1>20, <1>21, <1>22, <1>23, <1>24 DEF Next,
     Scheduler, Wait

\* If no fork fails and nobody calls kill(0), a process is killed only when it
\* misbehaved or somebody asked for it by its pid.
THEOREM KillsAreAsked ==
  ASSUME 0 \notin KillArgs, ~MayFail
  PROVE  Spec => []KilledOnRequest
<1>1. Init => Condemned
  BY DEF Init, Condemned
<1>2. CpuInv /\ FamilyInv /\ Condemned /\ [Next]_vars => Condemned'
  BY CondemnedStep
<1>3. CpuInv /\ Condemned => KilledOnRequest
  BY DEF CpuInv, TypeOK, Condemned, KilledOnRequest
<1>q. QED
  BY <1>1, <1>2, <1>3, ProcInvariance, PTL DEF Spec
=============================================================================
