---------------------------- MODULE StartupProofs ---------------------------
(***************************************************************************)
(* The startup gate, for every number of processes, runs and owners, every *)
(* set of command lines and every state directory to begin with.           *)
(*                                                                         *)
(* Between the scan of the directory and the Header stand many steps of    *)
(* many processes.  What the scan found stays true because the owner's     *)
(* lock is held all the while (`LockOK`), because nobody but its owner     *)
(* turns a run into an open one, and because no two processes are on the   *)
(* same run (`Apart`).  `Fine` says what each process knows, step by step. *)
(* On top of that, `PlanInv` follows a run's plan from the process that    *)
(* made it, through the Header, to the processes that resume it.           *)
(***************************************************************************)
EXTENDS Startup, FiniteSetTheorems, WellFoundedInduction, TLAPS

Active == {"locked", "scan", "gate", "probe", "reconcile", "price", "plan", "mkdir", "create",
           "header", "execute"}
Stages == {"none", "dir", "file", "header"}
Statuses == {"incomplete", "completed", "abandoned"}

RunFields == DOMAIN NoRun
ProcFields == DOMAIN Off

(* A run that is not begun, or is closed, has no open order. *)
RunFine(r) ==
    /\ DOMAIN r = RunFields /\ r.stage \in Stages /\ r.status \in Statuses
    /\ r.stage # "header" => r.status = "incomplete" /\ r.open = 0
    /\ r.status # "incomplete" => r.open = 0

NoneOpen(R, a) == \A i \in Ids : ~IncompleteOf(R[i], a)

(* What a process in state s knows of the runs R. *)
Fine(s, R) ==
    /\ DOMAIN s = ProcFields /\ s.pc \in Active \cup {"off", "ended"}
    /\ s.run \in 0..MaxRuns /\ s.left \subseteq Ids
    /\ s.pc \in Active => s.cmd \in Commands
    /\ s.pc \in {"off", "ended", "locked", "scan", "mkdir"} => s.run = 0
    /\ s.pc \in {"reconcile", "create", "header", "execute"} => s.run # 0
    /\ s.pc = "scan" => \A i \in Ids : IncompleteOf(R[i], s.cmd.agent) => i \in s.left
    /\ s.pc \in {"gate", "probe", "reconcile", "price", "plan", "execute"} /\ s.run # 0 =>
          IncompleteOf(R[s.run], s.cmd.agent)
    /\ s.pc \in {"gate", "probe", "price", "plan", "mkdir"} /\ s.run = 0 =>
          NoneOpen(R, s.cmd.agent)
    /\ s.pc \in {"create", "header"} => NoneOpen(R, s.cmd.agent)
    /\ s.pc = "create" => R[s.run].stage = "dir"
    /\ s.pc = "header" => R[s.run].stage = "file"
    /\ s.pc \in {"probe", "price", "plan"} =>
          /\ s.run = 0 => s.cmd.select # "resume"
          /\ s.run # 0 => s.cmd.select # "new"
    /\ s.pc \in {"price", "plan"} => s.cmd.select # "abandon"
    /\ s.pc \in {"price", "plan"} /\ s.run # 0 => R[s.run].open = 0
    /\ s.pc = "execute" => (R[s.run].open # 0 => s.sent)

(* A process at work holds its owner's lock. *)
LockOK ==
    /\ DOMAIN lock = Agents
    /\ \A p \in Procs : proc[p].pc \in Active => lock[proc[p].cmd.agent] = p

(* No run is in the hands of two processes. *)
Apart ==
    \A p, q \in Procs : proc[p].run # 0 /\ proc[p].run = proc[q].run => p = q

(* No owner has two open runs. *)
OneOpen ==
    \A a \in Agents : \A i, j \in Ids :
        IncompleteOf(runs[i], a) /\ IncompleteOf(runs[j], a) => i = j

StartInv ==
    /\ DOMAIN runs = Ids /\ DOMAIN proc = Procs
    /\ \A i \in Ids : RunFine(runs[i])
    /\ \A p \in Procs : Fine(proc[p], runs)
    /\ LockOK /\ Apart /\ OneOpen

-----------------------------------------------------------------------------
(* A process at work is the only one of its owner. *)
LEMMA OnlyOne ==
    ASSUME StartInv, NEW p \in Procs, NEW q \in Procs, proc[p].pc \in Active,
           proc[q].pc \in Active, proc[p].cmd.agent = proc[q].cmd.agent
    PROVE  p = q
  BY DEF StartInv, LockOK

(* The other processes keep what they know while a process changes a run   *)
(* of its own: the one it is on, or one that nobody has begun.             *)
LEMMA OthersKeep ==
    ASSUME StartInv, NEW p \in Procs, NEW q \in Procs, p # q, proc[p].pc \in Active,
           NEW j \in Ids, NEW r, RunFine(r),
           j = proc[p].run \/ (runs[j].stage = "none" /\ r.stage # "header"),
           runs[j].stage = "header" => runs[j].agent = proc[p].cmd.agent,
           r.stage = "header" => r.agent = proc[p].cmd.agent
    PROVE  Fine(proc[q], [runs EXCEPT ![j] = r])
  <1> DEFINE R == [runs EXCEPT ![j] = r]
             s == proc[q]
  <1>1. Fine(s, runs) /\ DOMAIN runs = Ids
    BY DEF StartInv
  <1>2. \A i \in Ids : R[i] = IF i = j THEN r ELSE runs[i]
    BY <1>1
  <1>3. s.pc \in Active => s.cmd.agent # proc[p].cmd.agent
    BY OnlyOne
  <1>4. ASSUME s.pc \in Active PROVE \A i \in Ids : IncompleteOf(R[i], s.cmd.agent) <=> IncompleteOf(runs[i], s.cmd.agent)
    BY <1>2, <1>3, <1>4 DEF IncompleteOf
  <1>5. s.run # 0 => s.run # j
    <2>1. CASE j = proc[p].run
      BY <2>1 DEF StartInv, Apart
    <2>2. CASE runs[j].stage = "none"
      BY <1>1, <2>2 DEF Fine, IncompleteOf, Active
    <2> QED BY <2>1, <2>2
  <1>6. s.run # 0 => R[s.run] = runs[s.run]
    <2>1. s.run \in 0..MaxRuns
      BY <1>1 DEF Fine
    <2> QED BY <1>2, <1>5, <2>1, StartupBounds DEF Ids
  <1> HIDE DEF R, s
  <1>7. s.pc \in Active => (NoneOpen(R, s.cmd.agent) <=> NoneOpen(runs, s.cmd.agent))
    BY <1>4 DEF NoneOpen
  <1> QED BY <1>1, <1>4, <1>6, <1>7 DEF Fine, Active, R, s

(* Every set of runs that is not empty has a first one. *)
LEMMA FirstOf ==
    ASSUME NEW T, T \subseteq Ids, T # {}
    PROVE  \E x \in T : \A y \in T : x <= y
  <1> DEFINE R == {ss \in Nat \X Nat : ss[1] < ss[2]}
  <1>1. IsWellFoundedOn(R, Nat)
    BY NatLessThanWellFounded DEF OpToRel
  <1>2. T \subseteq Nat
    BY StartupBounds DEF Ids
  <1> HIDE DEF R
  <1>3. PICK x \in T : \A y \in T : ~ (<<y, x>> \in R)
    BY <1>1, <1>2, WFMin
  <1>4. \A y \in T : <<y, x>> \in R <=> y < x
    BY <1>2 DEF R
  <1>5. \A y \in T : x <= y
    <2> TAKE y \in T
    <2>1. x \in Nat /\ y \in Nat /\ ~(y < x)
      BY <1>2, <1>3, <1>4
    <2> QED BY <2>1
  <1> QED BY <1>5

(* The fresh id is that of a run which nobody has begun. *)
LEMMA FreshIsNew ==
    ASSUME \E i \in Ids : runs[i].stage = "none"
    PROVE  FreshId \in Ids /\ runs[FreshId].stage = "none"
  <1> DEFINE T == {i \in Ids : runs[i].stage = "none"}
  <1>1. T \subseteq Ids /\ T # {}
    OBVIOUS
  <1>2. PICK x \in T : \A y \in T : x <= y
    BY <1>1, FirstOf
  <1>3. x \in Ids /\ runs[x].stage = "none" /\ \A j \in Ids : j < x => runs[j].stage # "none"
    <2>1. ASSUME NEW j \in Ids, j < x, runs[j].stage = "none" PROVE FALSE
      <3>1. j \in T /\ x \in Nat /\ j \in Nat
        BY <2>1, StartupBounds DEF Ids
      <3> QED BY <1>2, <2>1, <3>1
    <2> QED BY <1>2, <2>1
  <1> QED BY <1>3 DEF FreshId

(* A process at work takes a step of its own and leaves the runs alone. *)
LEMMA QuietStep ==
    ASSUME StartInv, NEW p \in Procs, proc[p].pc \in Active, NEW s,
           proc' = [proc EXCEPT ![p] = s], runs' = runs, lock' = lock,
           s.pc \in Active, s.cmd = proc[p].cmd, Fine(s, runs),
           s.run \in {0, proc[p].run} \/ IncompleteOf(runs[s.run], proc[p].cmd.agent)
    PROVE  StartInv'
  <1>1. /\ DOMAIN proc = Procs /\ DOMAIN proc' = Procs /\ proc'[p] = s
        /\ \A q \in Procs : q # p => proc'[q] = proc[q]
    BY DEF StartInv
  <1>2. \A q \in Procs : Fine(proc'[q], runs')
    BY <1>1 DEF StartInv
  <1>3. LockOK'
    BY <1>1 DEF StartInv, LockOK
  <1>4. Apart'
    <2>1. ASSUME NEW q \in Procs, q # p, proc[q].run # 0 PROVE proc[q].run # s.run
      <3>1. CASE s.run \in {0, proc[p].run}
        BY <2>1, <3>1 DEF StartInv, Apart
      <3>2. CASE IncompleteOf(runs[s.run], proc[p].cmd.agent)
        <4>1. Fine(proc[q], runs)
          BY DEF StartInv
        <4>2. proc[q].pc \in Active /\ proc[q].pc \notin {"off", "ended"}
          BY <2>1, <4>1 DEF Fine, Active
        <4>3. proc[q].cmd.agent # proc[p].cmd.agent
          BY <2>1, <4>2, OnlyOne
        <4> QED BY <2>1, <3>2, <4>1, <4>2, <4>3 DEF Fine, IncompleteOf, Active
      <3> QED BY <3>1, <3>2
    <2> QED BY <1>1, <2>1 DEF StartInv, Apart
  <1> QED BY <1>1, <1>2, <1>3, <1>4 DEF StartInv, OneOpen

(* A process at work changes a run of its own, and is on it after that. *)
LEMMA RunStep ==
    ASSUME StartInv, NEW p \in Procs, proc[p].pc \in Active, NEW s, NEW j \in Ids, NEW r,
           DOMAIN proc' = Procs, proc'[p] = s, \A q \in Procs : q # p => proc'[q] = proc[q],
           runs' = [runs EXCEPT ![j] = r], lock' = lock,
           s.pc \in Active, s.cmd = proc[p].cmd, Fine(s, runs'), s.run = j, RunFine(r),
           j = proc[p].run \/ (runs[j].stage = "none" /\ r.stage # "header"),
           runs[j].stage = "header" => runs[j].agent = proc[p].cmd.agent,
           r.stage = "header" => r.agent = proc[p].cmd.agent,
           IncompleteOf(runs[j], proc[p].cmd.agent) \/ NoneOpen(runs, proc[p].cmd.agent)
    PROVE  StartInv'
  <1>1. /\ DOMAIN runs = Ids /\ DOMAIN runs' = Ids /\ runs'[j] = r
        /\ \A i \in Ids : i # j => runs'[i] = runs[i]
    BY DEF StartInv
  <1>2. \A q \in Procs : Fine(proc'[q], runs')
    <2> TAKE q \in Procs
    <2>1. CASE q = p
      BY <1>1, <2>1
    <2>2. CASE q # p
      BY <1>1, <2>2, OthersKeep
    <2> QED BY <2>1, <2>2
  <1>3. LockOK'
    BY <1>1 DEF StartInv, LockOK
  <1>4. Apart'
    <2>1. ASSUME NEW q \in Procs, q # p, proc[q].run # 0 PROVE proc[q].run # j
      <3>1. CASE j = proc[p].run
        BY <2>1, <3>1 DEF StartInv, Apart
      <3>2. CASE runs[j].stage = "none"
        <4>1. Fine(proc[q], runs)
          BY DEF StartInv
        <4> QED BY <2>1, <3>2, <4>1 DEF Fine, IncompleteOf, Active
      <3> QED BY <3>1, <3>2
    <2> QED BY <1>1, <2>1 DEF StartInv, Apart
  <1>5. OneOpen'
    <2> SUFFICES ASSUME NEW a \in Agents, NEW i \in Ids, NEW k \in Ids,
                        IncompleteOf(runs'[i], a), IncompleteOf(runs'[k], a)
                 PROVE  i = k
      BY DEF OneOpen
    <2>1. CASE i # j /\ k # j
      BY <1>1, <2>1 DEF StartInv, OneOpen
    <2>2. CASE i = j /\ k # j
      BY <1>1, <2>2 DEF StartInv, OneOpen, IncompleteOf, NoneOpen
    <2>3. CASE i # j /\ k = j
      BY <1>1, <2>3 DEF StartInv, OneOpen, IncompleteOf, NoneOpen
    <2> QED BY <2>1, <2>2, <2>3
  <1>6. \A i \in Ids : RunFine(runs'[i])
    BY <1>1 DEF StartInv
  <1> QED BY <1>1, <1>2, <1>3, <1>4, <1>5, <1>6 DEF StartInv

(* A process ends and leaves the runs alone, or closes or reports the one  *)
(* it was on: its lock is free, its order stays with the run.              *)
LEMMA EndStep ==
    ASSUME StartInv, NEW p \in Procs, Ends(p),
           \/ runs' = runs
           \/ \E st \in Statuses :
                 /\ proc[p].pc \in Active /\ proc[p].run # 0
                 /\ IncompleteOf(runs[proc[p].run], proc[p].cmd.agent)
                 /\ runs[proc[p].run].open = 0
                 /\ runs' = [runs EXCEPT ![proc[p].run].status = st]
    PROVE  StartInv'
  <1>1. /\ DOMAIN proc = Procs /\ DOMAIN proc' = Procs /\ proc'[p] = [Off EXCEPT !.pc = "ended"]
        /\ \A q \in Procs : q # p => proc'[q] = proc[q]
        /\ DOMAIN runs = Ids
    BY DEF StartInv, Ends
  <1>2. proc[p].run \in 0..MaxRuns
    BY DEF StartInv, Fine
  <1>3. proc'[p].pc = "ended" /\ proc'[p].run = 0 /\ \A R : Fine(proc'[p], R)
    <2>1. proc'[p].pc = "ended" /\ proc'[p].run = 0 /\ proc'[p].left = {}
          /\ DOMAIN proc'[p] = ProcFields
      BY <1>1 DEF Off, ProcFields
    <2> QED BY <2>1, StartupBounds DEF Fine, Active, Ids
  <1>4. \A q \in Procs : Fine(proc'[q], runs')
    <2> TAKE q \in Procs
    <2>1. CASE q = p
      BY <1>3, <2>1
    <2>2. CASE q # p /\ runs' = runs
      BY <1>1, <2>2 DEF StartInv
    <2>3. CASE q # p /\ runs' # runs
      <3> DEFINE j == proc[p].run
      <3>1. PICK st \in Statuses :
               /\ proc[p].pc \in Active /\ j # 0 /\ IncompleteOf(runs[j], proc[p].cmd.agent)
               /\ runs[j].open = 0 /\ runs' = [runs EXCEPT ![j].status = st]
        BY <2>3
      <3> DEFINE r == [runs[j] EXCEPT !.status = st]
      <3>2. j \in Ids
        BY <1>2, <3>1, StartupBounds DEF Ids
      <3>3. runs' = [runs EXCEPT ![j] = r]
        BY <3>1, <3>2
      <3>4. RunFine(runs[j])
        BY <3>2 DEF StartInv
      <3>5. /\ DOMAIN r = RunFields /\ r.status = st /\ r.open = runs[j].open
            /\ r.stage = runs[j].stage /\ r.agent = runs[j].agent
        BY <3>4 DEF RunFine, RunFields, NoRun
      <3>6. RunFine(r) /\ (r.stage = "header" => r.agent = proc[p].cmd.agent)
            /\ (runs[j].stage = "header" => runs[j].agent = proc[p].cmd.agent)
        BY <3>1, <3>4, <3>5 DEF RunFine, IncompleteOf
      <3> HIDE DEF r, j
      <3>7. Fine(proc[q], [runs EXCEPT ![j] = r])
        BY <2>3, <3>1, <3>2, <3>6, OthersKeep DEF j
      <3> QED BY <1>1, <2>3, <3>3, <3>7
    <2> QED BY <2>1, <2>2, <2>3
  <1>5. LockOK'
    <2>1. DOMAIN lock' = Agents
      BY DEF Ends
    <2>2. ASSUME NEW q \in Procs, proc'[q].pc \in Active PROVE lock'[proc'[q].cmd.agent] = q
      <3>1. q # p /\ proc'[q] = proc[q]
        BY <1>1, <1>3, <2>2 DEF Active
      <3>2. proc[q].cmd.agent \in Agents
        BY <2>2, <3>1, CommandsOwned DEF StartInv, Fine
      <3>3. lock[proc[q].cmd.agent] = q
        BY <2>2, <3>1 DEF StartInv, LockOK
      <3> QED BY <3>1, <3>2, <3>3 DEF Ends
    <2> QED BY <2>1, <2>2 DEF LockOK
  <1>6. Apart'
    <2> SUFFICES ASSUME NEW q \in Procs, NEW o \in Procs, proc'[q].run # 0,
                        proc'[q].run = proc'[o].run
                 PROVE  q = o
      BY DEF Apart
    <2>1. q # p /\ o # p
      BY <1>3
    <2> QED BY <1>1, <2>1 DEF StartInv, Apart
  <1>7. CASE runs' = runs
    BY <1>1, <1>4, <1>5, <1>6, <1>7 DEF StartInv, OneOpen
  <1>8. CASE runs' # runs
    <2> DEFINE j == proc[p].run
    <2>1. PICK st \in Statuses :
             /\ j # 0 /\ IncompleteOf(runs[j], proc[p].cmd.agent)
             /\ runs[j].open = 0 /\ runs' = [runs EXCEPT ![j].status = st]
      BY <1>8
    <2>2. j \in Ids
      BY <1>2, <2>1, StartupBounds DEF Ids
    <2>3. RunFine(runs[j])
      BY <2>2 DEF StartInv
    <2>4. /\ DOMAIN runs' = Ids /\ \A i \in Ids : i # j => runs'[i] = runs[i]
          /\ DOMAIN runs'[j] = RunFields /\ runs'[j].status = st /\ runs'[j].open = 0
          /\ runs'[j].stage = "header" /\ runs'[j].agent = runs[j].agent
      BY <1>1, <2>1, <2>2, <2>3 DEF RunFine, RunFields, NoRun, IncompleteOf
    <2>5. \A i \in Ids : RunFine(runs'[i])
      BY <2>4 DEF StartInv, RunFine, Stages
    <2>6. \A i \in Ids : \A a : IncompleteOf(runs'[i], a) => IncompleteOf(runs[i], a)
      BY <2>1, <2>4 DEF IncompleteOf
    <2>7. OneOpen'
      BY <2>6 DEF StartInv, OneOpen
    <2> QED BY <1>1, <1>4, <1>5, <1>6, <2>4, <2>5, <2>7 DEF StartInv
  <1> QED BY <1>7, <1>8

-----------------------------------------------------------------------------
(* The actions, group by group. *)

(* A process that is refused, is only asked for a dry run, gives up or     *)
(* dies.                                                                   *)
LEMMA RefusalKeeps ==
    ASSUME StartInv, NEW p \in Procs, Refused(p)
    PROVE  StartInv'
  BY EndStep DEF Refused

(* The lock is taken when nobody has it. *)
LEMMA LockKeeps ==
    ASSUME StartInv, NEW p \in Procs, NEW c \in Commands, TakeLock(p, c)
    PROVE  StartInv'
  <1> DEFINE s == [proc[p] EXCEPT !.pc = "locked", !.cmd = c]
  <1>1. /\ proc[p].pc = "off" /\ lock[c.agent] = NoValue
        /\ lock' = [lock EXCEPT ![c.agent] = p] /\ runs' = runs
        /\ proc' = [proc EXCEPT ![p] = s]
    <2>1. proc' = [proc EXCEPT ![p].pc = "locked", ![p].cmd = c]
      BY DEF TakeLock, Locks
    <2>2. p \in DOMAIN proc
      BY DEF StartInv
    <2>3. proc' = [proc EXCEPT ![p] = s]
      BY <2>1, <2>2
    <2> QED BY <2>3 DEF TakeLock, Locks, Invoked
  <1>2. Fine(proc[p], runs) /\ DOMAIN proc = Procs /\ DOMAIN lock = Agents /\ c.agent \in Agents
    BY CommandsOwned DEF StartInv, LockOK
  <1>3. /\ DOMAIN s = ProcFields /\ s.pc = "locked" /\ s.cmd = c /\ s.run = proc[p].run
        /\ s.left = proc[p].left
    BY <1>2 DEF Fine, ProcFields, Off
  <1> HIDE DEF s
  <1>4. proc[p].run = 0 /\ s.run = 0 /\ Fine(s, runs)
    BY <1>1, <1>2, <1>3 DEF Fine, Active
  <1>5. /\ DOMAIN proc' = Procs /\ proc'[p] = s
        /\ \A q \in Procs : q # p => proc'[q] = proc[q]
    BY <1>1, <1>2
  <1>6. \A q \in Procs : Fine(proc'[q], runs')
    BY <1>1, <1>4, <1>5 DEF StartInv
  <1>7. LockOK'
    <2>1. ASSUME NEW q \in Procs, proc'[q].pc \in Active PROVE lock'[proc'[q].cmd.agent] = q
      <3>1. CASE q = p
        BY <1>1, <1>2, <1>3, <1>5, <3>1
      <3>2. CASE q # p
        <4>1. lock[proc[q].cmd.agent] = q /\ proc[q].cmd.agent \in Agents
          BY <1>5, <2>1, <3>2, CommandsOwned DEF StartInv, LockOK, Fine
        <4>2. q # NoValue
          BY NoValueFresh, StartupBounds DEF Procs
        <4> QED BY <1>1, <1>2, <1>5, <3>2, <4>1, <4>2
      <3> QED BY <3>1, <3>2
    <2> QED BY <1>1, <1>2, <2>1 DEF LockOK
  <1>8. Apart'
    <2> SUFFICES ASSUME NEW q \in Procs, NEW o \in Procs, proc'[q].run # 0,
                        proc'[q].run = proc'[o].run
                 PROVE  q = o
      BY DEF Apart
    <2>1. q # p /\ o # p
      BY <1>4, <1>5
    <2> QED BY <1>5, <2>1 DEF StartInv, Apart
  <1> QED BY <1>1, <1>5, <1>6, <1>7, <1>8 DEF StartInv, OneOpen

(* A process at work goes on to the next point, knowing what it needs. *)
LEMMA GoesKeeps ==
    ASSUME StartInv, NEW p \in Procs, proc[p].pc \in Active, NEW x \in Active, Goes(p, x),
           runs' = runs, lock' = lock,
           LET s == [proc[p] EXCEPT !.pc = x] IN
           /\ DOMAIN s = ProcFields /\ s.pc = x /\ s.cmd = proc[p].cmd /\ s.run = proc[p].run
           /\ s.left = proc[p].left /\ s.sent = proc[p].sent
           => Fine(s, runs)
    PROVE  StartInv'
  <1> DEFINE s == [proc[p] EXCEPT !.pc = x]
  <1>1. Fine(proc[p], runs) /\ DOMAIN proc = Procs
    BY DEF StartInv
  <1>2. /\ DOMAIN s = ProcFields /\ s.pc = x /\ s.cmd = proc[p].cmd /\ s.run = proc[p].run
        /\ s.left = proc[p].left /\ s.sent = proc[p].sent
    BY <1>1 DEF Fine, ProcFields, Off
  <1>3. Fine(s, runs)
    BY <1>2
  <1>4. proc' = [proc EXCEPT ![p] = s]
    BY <1>1 DEF Goes
  <1> HIDE DEF s
  <1> QED BY <1>2, <1>3, <1>4, QuietStep

(* The scan of the directory finds the open run of the owner, if there is  *)
(* one, and the gate asks for it.                                          *)
LEMMA ScanKeeps ==
    ASSUME StartInv, NEW p \in Procs, ListRuns(p) \/ ReadRun(p) \/ NoneFound(p) \/ PassGate(p)
    PROVE  StartInv'
  <1>1. Fine(proc[p], runs) /\ DOMAIN proc = Procs /\ \A i \in Ids : RunFine(runs[i])
    BY DEF StartInv
  <1>2. CASE ListRuns(p)
    <2> DEFINE L == {i \in Ids : runs[i].stage # "none"}
               s == [proc[p] EXCEPT !.pc = "scan", !.left = L]
    <2>1. proc[p].pc = "locked" /\ runs' = runs /\ lock' = lock
          /\ proc' = [proc EXCEPT ![p].pc = "scan", ![p].left = L]
      BY <1>2 DEF ListRuns
    <2>2. proc' = [proc EXCEPT ![p] = s]
      BY <1>1, <2>1
    <2>3. /\ DOMAIN s = ProcFields /\ s.pc = "scan" /\ s.cmd = proc[p].cmd /\ s.run = proc[p].run
          /\ s.left = L
      BY <1>1 DEF Fine, ProcFields, Off
    <2> HIDE DEF s
    <2>4. Fine(s, runs)
      BY <1>1, <2>1, <2>3 DEF Fine, Active, IncompleteOf
    <2> QED BY <2>1, <2>2, <2>3, <2>4, QuietStep DEF Active
  <1>3. CASE ReadRun(p)
    <2> DEFINE i == NextListed(p)
               left == proc[p].left \ {i}
               found == [proc[p] EXCEPT !.run = i, !.left = {}, !.pc = "gate"]
               next == [proc[p] EXCEPT !.left = left]
    <2>1. /\ proc[p].pc = "scan" /\ proc[p].left # {} /\ runs' = runs /\ lock' = lock
      BY <1>3 DEF ReadRun
    <2>2. i \in proc[p].left /\ proc[p].left \subseteq Ids
      <3>1. proc[p].left \subseteq Ids
        BY <1>1 DEF Fine
      <3>2. \E n \in proc[p].left : \A m \in proc[p].left : n <= m
        BY <2>1, <3>1, FirstOf
      <3> QED BY <3>1, <3>2 DEF NextListed
    <2> HIDE DEF i
    <2>3. CASE IncompleteOf(runs[i], proc[p].cmd.agent)
      <3>1. /\ DOMAIN found = ProcFields /\ found.pc = "gate" /\ found.cmd = proc[p].cmd
            /\ found.run = i /\ found.left = {}
        BY <1>1 DEF Fine, ProcFields, Off
      <3>2. proc' = [proc EXCEPT ![p].run = i, ![p].left = {}, ![p].pc = "gate"]
        BY <1>3, <2>3 DEF ReadRun, Agent, Cmd, i
      <3>3. proc' = [proc EXCEPT ![p] = found]
        BY <1>1, <3>2
      <3> HIDE DEF found
      <3>4. Fine(found, runs)
        <4>1. found.run \in 0..MaxRuns /\ found.run # 0 /\ i \in Ids
          BY <2>2, <3>1, StartupBounds DEF Ids
        <4>2. found.cmd \in Commands
          BY <1>1, <2>1, <3>1 DEF Fine, Active
        <4> QED BY <2>3, <3>1, <4>1, <4>2 DEF Fine, Active
      <3> QED BY <2>1, <2>3, <3>1, <3>3, <3>4, QuietStep DEF Active
    <2>4. CASE ~IncompleteOf(runs[i], proc[p].cmd.agent)
      <3>1. proc' = [proc EXCEPT ![p].left = left]
        BY <1>3, <2>4 DEF ReadRun, Agent, Cmd, i
      <3> HIDE DEF left
      <3>2. /\ DOMAIN next = ProcFields /\ next.pc = "scan" /\ next.cmd = proc[p].cmd
            /\ next.run = proc[p].run /\ next.left = left
        BY <1>1, <2>1 DEF Fine, ProcFields, Off
      <3>3. proc' = [proc EXCEPT ![p] = next]
        BY <1>1, <3>1
      <3> HIDE DEF next
      <3>4. Fine(next, runs)
        <4>1. left \subseteq Ids /\ \A n \in Ids : IncompleteOf(runs[n], proc[p].cmd.agent) => n \in left
          BY <1>1, <2>1, <2>2, <2>4 DEF Fine, left
        <4> QED BY <1>1, <2>1, <3>2, <4>1 DEF Fine, Active
      <3> QED BY <2>1, <3>2, <3>3, <3>4, QuietStep DEF Active
    <2> QED BY <2>3, <2>4
  <1>4. CASE NoneFound(p)
    <2>1. proc[p].pc = "scan" /\ proc[p].left = {} /\ Goes(p, "gate") /\ runs' = runs /\ lock' = lock
      BY <1>4 DEF NoneFound
    <2> QED BY <1>1, <2>1, GoesKeeps DEF Fine, Active, NoneOpen
  <1>5. CASE PassGate(p)
    <2>1. proc[p].pc = "gate" /\ Goes(p, "probe") /\ runs' = runs /\ lock' = lock
          /\ (proc[p].run = 0 => proc[p].cmd.select # "resume")
          /\ (proc[p].run # 0 => proc[p].cmd.select # "new")
      BY <1>5 DEF PassGate, MayStart, Cmd
    <2> QED BY <1>1, <2>1, GoesKeeps DEF Fine, Active
  <1> QED BY <1>2, <1>3, <1>4, <1>5

(* Up to the plan: nothing is left of an earlier process when the price is *)
(* asked for.                                                              *)
LEMMA PlanKeeps ==
    ASSUME StartInv, NEW p \in Procs,
           Probe(p) \/ ResumeMatches(p) \/ SeesPrice(p) \/ Planned(p)
    PROVE  StartInv'
  <1>1. Fine(proc[p], runs) /\ DOMAIN proc = Procs /\ \A i \in Ids : RunFine(runs[i])
    BY DEF StartInv
  <1>2. CASE Probe(p)
    <2>1. /\ proc[p].pc = "probe" /\ runs' = runs /\ lock' = lock
          /\ proc[p].cmd.select = "abandon" => proc[p].run # 0
          /\ \/ proc[p].cmd.select = "new" /\ Goes(p, "price")
             \/ proc[p].cmd.select # "new" /\ Goes(p, "reconcile")
      BY <1>2 DEF Probe, Cmd
    <2>2. proc[p].cmd \in Commands
      BY <1>1, <2>1 DEF Fine, Active
    <2>3. proc[p].cmd.select \in {"new", "resume", "abandon"}
      BY <2>2, CommandsTyped DEF RunOptions
    <2>4. CASE proc[p].cmd.select = "new"
      BY <1>1, <2>1, <2>4, GoesKeeps DEF Fine, Active
    <2>5. CASE proc[p].cmd.select # "new"
      BY <1>1, <2>1, <2>3, <2>5, GoesKeeps DEF Fine, Active
    <2> QED BY <2>4, <2>5
  <1>3. CASE ResumeMatches(p)
    <2>1. /\ proc[p].pc = "reconcile" /\ runs' = runs /\ lock' = lock /\ Goes(p, "price")
          /\ proc[p].cmd.select = "resume" /\ runs[proc[p].run].open = 0
      BY <1>3 DEF ResumeMatches, Continues, Reconciled, Cmd, MyRun
    <2> QED BY <1>1, <2>1, GoesKeeps DEF Fine, Active
  <1>4. CASE SeesPrice(p)
    <2>1. PICK mid \in Mids : proc' = [proc EXCEPT ![p].pc = "plan", ![p].mid = mid]
      BY <1>4 DEF SeesPrice
    <2> DEFINE s == [proc[p] EXCEPT !.pc = "plan", !.mid = mid]
    <2>2. proc[p].pc = "price" /\ runs' = runs /\ lock' = lock
      BY <1>4 DEF SeesPrice
    <2>3. proc' = [proc EXCEPT ![p] = s]
      BY <1>1, <2>1
    <2>4. /\ DOMAIN s = ProcFields /\ s.pc = "plan" /\ s.cmd = proc[p].cmd /\ s.run = proc[p].run
          /\ s.left = proc[p].left
      BY <1>1 DEF Fine, ProcFields, Off
    <2> HIDE DEF s
    <2>5. Fine(s, runs)
      BY <1>1, <2>2, <2>4 DEF Fine, Active
    <2> QED BY <2>2, <2>3, <2>4, <2>5, QuietStep DEF Active
  <1>5. CASE Planned(p)
    <2> DEFINE x == IF proc[p].cmd.select = "new" THEN "mkdir" ELSE "execute"
               s == [proc[p] EXCEPT !.pc = x, !.plan = Continuation(p), !.todo = Todo(p)]
    <2>1. proc[p].pc = "plan" /\ runs' = runs /\ lock' = lock
          /\ proc' = [proc EXCEPT ![p].pc = x, ![p].plan = Continuation(p), ![p].todo = Todo(p)]
      BY <1>5 DEF Planned, Cmd
    <2>2. proc' = [proc EXCEPT ![p] = s]
      BY <1>1, <2>1
    <2>3. /\ DOMAIN s = ProcFields /\ s.pc = x /\ s.cmd = proc[p].cmd /\ s.run = proc[p].run
          /\ s.left = proc[p].left /\ s.sent = proc[p].sent
      BY <1>1 DEF Fine, ProcFields, Off
    <2>4. proc[p].cmd \in Commands
      BY <1>1, <2>1 DEF Fine, Active
    <2>5. proc[p].cmd.select \in {"new", "resume", "abandon"}
      BY <2>4, CommandsTyped DEF RunOptions
    <2> HIDE DEF s
    <2>6. CASE x = "mkdir"
      <3>1. Fine(s, runs)
        BY <1>1, <2>1, <2>3, <2>6 DEF Fine, Active
      <3> QED BY <2>1, <2>2, <2>3, <2>6, <3>1, QuietStep DEF Active
    <2>7. CASE x = "execute"
      <3>1. Fine(s, runs)
        BY <1>1, <2>1, <2>3, <2>5, <2>7 DEF Fine, Active
      <3> QED BY <2>1, <2>2, <2>3, <2>7, <3>1, QuietStep DEF Active
    <2> QED BY <2>6, <2>7
  <1> QED BY <1>2, <1>3, <1>4, <1>5

(* An order that was left behind is settled, and so is one of its own. *)
LEMMA CreditKeeps ==
    ASSUME StartInv, NEW p \in Procs, Reconcile(p) \/ SettleOrder(p)
    PROVE  StartInv'
  <1> DEFINE j == proc[p].run
  <1>1. Fine(proc[p], runs) /\ DOMAIN proc = Procs /\ DOMAIN runs = Ids
        /\ \A i \in Ids : RunFine(runs[i])
    BY DEF StartInv
  <1>2. proc[p].pc \in {"reconcile", "execute"} /\ lock' = lock
    BY DEF Reconcile, SettleOrder
  <1>3. /\ j \in Ids /\ IncompleteOf(runs[j], proc[p].cmd.agent)
    BY <1>1, <1>2, StartupBounds DEF Fine, Ids
  <1>4. PICK fill : runs' = [runs EXCEPT ![j] = Credited(@, fill)]
    BY DEF Reconcile, SettleOrder
  <1> DEFINE r == [runs[j] EXCEPT !.open = 0, !.filled = runs[j].filled + fill]
  <1>5. runs' = [runs EXCEPT ![j] = r]
    BY <1>4 DEF Credited
  <1>6. /\ RunFine(r) /\ r.stage = "header" /\ r.status = "incomplete" /\ r.agent = runs[j].agent
        /\ r.open = 0
    <2>1. RunFine(runs[j]) /\ runs[j].stage = "header" /\ runs[j].status = "incomplete"
      BY <1>1, <1>3 DEF IncompleteOf
    <2>2. /\ DOMAIN r = RunFields /\ r.stage = runs[j].stage /\ r.status = runs[j].status
          /\ r.agent = runs[j].agent /\ r.open = 0
      BY <2>1 DEF RunFine, RunFields, NoRun
    <2> HIDE DEF r
    <2>3. RunFine(r)
      BY <2>1, <2>2 DEF RunFine, Stages, Statuses
    <2> QED BY <2>1, <2>2, <2>3
  <1> HIDE DEF r
  <1>7. runs'[j] = r /\ IncompleteOf(runs'[j], proc[p].cmd.agent)
    BY <1>1, <1>3, <1>5, <1>6 DEF IncompleteOf
  <1>8. CASE Reconcile(p)
    <2>1. proc' = proc /\ proc[p].pc = "reconcile"
      BY <1>8 DEF Reconcile
    <2>2. Fine(proc[p], runs')
      BY <1>1, <1>7, <2>1 DEF Fine, Active
    <2> QED BY <1>1, <1>2, <1>3, <1>5, <1>6, <2>1, <2>2, RunStep DEF IncompleteOf, Active
  <1>9. CASE SettleOrder(p)
    <2>1. PICK x : proc' = [proc EXCEPT ![p].todo = x, ![p].sent = FALSE]
      BY <1>9 DEF SettleOrder
    <2> DEFINE s == [proc[p] EXCEPT !.todo = x, !.sent = FALSE]
    <2>2. DOMAIN proc' = Procs /\ proc'[p] = s /\ \A q \in Procs : q # p => proc'[q] = proc[q]
      BY <1>1, <2>1
    <2>3. /\ DOMAIN s = ProcFields /\ s.pc = "execute" /\ s.cmd = proc[p].cmd /\ s.run = j
          /\ s.left = proc[p].left
      BY <1>1, <1>9 DEF Fine, ProcFields, Off, SettleOrder
    <2> HIDE DEF s
    <2>4. Fine(s, runs')
      BY <1>1, <1>2, <1>6, <1>7, <2>3 DEF Fine, Active
    <2> QED BY <1>1, <1>2, <1>3, <1>5, <1>6, <2>2, <2>3, <2>4, RunStep DEF IncompleteOf, Active
  <1> QED BY <1>8, <1>9

(* An order is sent over nothing else that is open. *)
LEMMA SendKeeps ==
    ASSUME StartInv, NEW p \in Procs, SendOrder(p)
    PROVE  StartInv'
  <1> DEFINE j == proc[p].run
             s == [proc[p] EXCEPT !.sent = TRUE]
  <1>1. Fine(proc[p], runs) /\ DOMAIN proc = Procs /\ DOMAIN runs = Ids
        /\ \A i \in Ids : RunFine(runs[i])
    BY DEF StartInv
  <1>2. /\ proc[p].pc = "execute" /\ lock' = lock /\ proc' = [proc EXCEPT ![p].sent = TRUE]
    BY DEF SendOrder
  <1>3. /\ j \in Ids /\ IncompleteOf(runs[j], proc[p].cmd.agent)
    BY <1>1, <1>2, StartupBounds DEF Fine, Ids
  <1>4. PICK size : runs' = [runs EXCEPT ![j].open = size]
    BY DEF SendOrder
  <1> DEFINE r == [runs[j] EXCEPT !.open = size]
  <1>5. runs' = [runs EXCEPT ![j] = r]
    BY <1>1, <1>3, <1>4
  <1>6. /\ DOMAIN r = RunFields /\ r.stage = "header" /\ r.status = "incomplete"
        /\ r.agent = runs[j].agent
    BY <1>1, <1>3 DEF RunFine, RunFields, NoRun, IncompleteOf
  <1> HIDE DEF r
  <1>7. RunFine(r)
    BY <1>6 DEF RunFine, Stages, Statuses
  <1>8. runs'[j] = r /\ IncompleteOf(runs'[j], proc[p].cmd.agent)
    BY <1>1, <1>3, <1>5, <1>6 DEF IncompleteOf
  <1>9. DOMAIN proc' = Procs /\ proc'[p] = s /\ \A q \in Procs : q # p => proc'[q] = proc[q]
    BY <1>1, <1>2
  <1>10. /\ DOMAIN s = ProcFields /\ s.pc = "execute" /\ s.cmd = proc[p].cmd /\ s.run = j
         /\ s.left = proc[p].left /\ s.sent = TRUE
    BY <1>1, <1>2 DEF Fine, ProcFields, Off
  <1> HIDE DEF s
  <1>11. Fine(s, runs')
    BY <1>1, <1>2, <1>8, <1>10 DEF Fine, Active
  <1>12. /\ proc[p].pc \in Active /\ s.pc \in Active /\ r.agent = proc[p].cmd.agent
         /\ runs[j].agent = proc[p].cmd.agent /\ j = proc[p].run
    BY <1>2, <1>3, <1>6, <1>10 DEF IncompleteOf, Active
  <1> HIDE DEF j
  <1> QED BY <1>2, <1>3, <1>5, <1>7, <1>9, <1>10, <1>11, <1>12, RunStep

(* A run is begun: directory, file and Header, while its owner has no      *)
(* other run open.                                                         *)
LEMMA BeginKeeps ==
    ASSUME StartInv, NEW p \in Procs, MakeDir(p) \/ MakeFile(p) \/ WriteHeader(p)
    PROVE  StartInv'
  <1>1. Fine(proc[p], runs) /\ DOMAIN proc = Procs /\ DOMAIN runs = Ids
        /\ \A i \in Ids : RunFine(runs[i])
    BY DEF StartInv
  <1>2. proc[p].pc \in {"mkdir", "create", "header"} /\ lock' = lock
    BY DEF MakeDir, MakeFile, WriteHeader
  <1>3. NoneOpen(runs, proc[p].cmd.agent) /\ proc[p].cmd \in Commands
    BY <1>1, <1>2 DEF Fine, Active
  <1>4. ASSUME NEW r, NEW st \in {"none", "dir", "file"}, NEW j \in Ids, runs[j].stage # "header",
               r = [runs[j] EXCEPT !.stage = st], runs' = [runs EXCEPT ![j] = r]
        PROVE  /\ RunFine(r) /\ r.stage = st /\ runs'[j] = r
               /\ NoneOpen(runs', proc[p].cmd.agent)
    <2>1. /\ DOMAIN r = RunFields /\ r.stage = st /\ r.status = "incomplete" /\ r.open = 0
      BY <1>1, <1>4 DEF RunFine, RunFields, NoRun
    <2>2. RunFine(r)
      BY <2>1 DEF RunFine, Stages, Statuses
    <2> QED BY <1>1, <1>3, <1>4, <2>1, <2>2 DEF NoneOpen, IncompleteOf
  <1>5. CASE MakeDir(p)
    <2> DEFINE j == FreshId
               r == [runs[j] EXCEPT !.stage = "dir"]
               s == [proc[p] EXCEPT !.run = j, !.pc = "create"]
    <2>1. /\ proc[p].pc = "mkdir" /\ runs' = [runs EXCEPT ![j].stage = "dir"]
          /\ proc' = [proc EXCEPT ![p].run = j, ![p].pc = "create"]
      BY <1>5 DEF MakeDir
    <2>2. j \in Ids /\ runs[j].stage = "none"
      BY <1>5, FreshIsNew DEF MakeDir
    <2> HIDE DEF j
    <2>3. runs' = [runs EXCEPT ![j] = r]
      BY <1>1, <2>1, <2>2
    <2>4. DOMAIN proc' = Procs /\ proc'[p] = s /\ \A q \in Procs : q # p => proc'[q] = proc[q]
      BY <1>1, <2>1
    <2>5. /\ DOMAIN s = ProcFields /\ s.pc = "create" /\ s.cmd = proc[p].cmd /\ s.run = j
          /\ s.left = proc[p].left
      BY <1>1 DEF Fine, ProcFields, Off
    <2> HIDE DEF s
    <2>6. RunFine(r) /\ r.stage = "dir" /\ runs'[j] = r /\ NoneOpen(runs', proc[p].cmd.agent)
      BY <1>4, <2>2, <2>3
    <2> HIDE DEF r
    <2>7. Fine(s, runs')
      <3>1. s.run \in 0..MaxRuns /\ s.run # 0
        BY <2>2, <2>5, StartupBounds DEF Ids
      <3> QED BY <1>1, <1>3, <2>5, <2>6, <3>1 DEF Fine, Active
    <2>8. proc[p].pc \in Active /\ s.pc \in Active /\ runs[j].stage # "header" /\ r.stage # "header"
      BY <2>1, <2>2, <2>5, <2>6 DEF Active
    <2> QED BY <1>2, <1>3, <2>2, <2>3, <2>4, <2>5, <2>6, <2>7, <2>8, RunStep
  <1>6. CASE MakeFile(p)
    <2> DEFINE j == proc[p].run
               r == [runs[j] EXCEPT !.stage = "file"]
               s == [proc[p] EXCEPT !.pc = "header"]
    <2>1. /\ proc[p].pc = "create" /\ runs' = [runs EXCEPT ![j].stage = "file"]
          /\ proc' = [proc EXCEPT ![p].pc = "header"]
      BY <1>6 DEF MakeFile, Goes
    <2>2. j \in Ids /\ runs[j].stage = "dir"
      BY <1>1, <2>1, StartupBounds DEF Fine, Ids
    <2>3. runs' = [runs EXCEPT ![j] = r]
      BY <1>1, <2>1, <2>2
    <2>4. DOMAIN proc' = Procs /\ proc'[p] = s /\ \A q \in Procs : q # p => proc'[q] = proc[q]
      BY <1>1, <2>1
    <2>5. /\ DOMAIN s = ProcFields /\ s.pc = "header" /\ s.cmd = proc[p].cmd /\ s.run = j
          /\ s.left = proc[p].left
      BY <1>1 DEF Fine, ProcFields, Off
    <2> HIDE DEF s
    <2>6. RunFine(r) /\ r.stage = "file" /\ runs'[j] = r /\ NoneOpen(runs', proc[p].cmd.agent)
      BY <1>4, <2>2, <2>3
    <2> HIDE DEF r
    <2>7. Fine(s, runs')
      BY <1>1, <1>3, <2>1, <2>5, <2>6 DEF Fine, Active
    <2>8. proc[p].pc \in Active /\ s.pc \in Active /\ runs[j].stage # "header" /\ r.stage # "header"
      BY <2>1, <2>2, <2>5, <2>6 DEF Active
    <2> QED BY <1>2, <1>3, <2>2, <2>3, <2>4, <2>5, <2>6, <2>7, <2>8, RunStep
  <1>7. CASE WriteHeader(p)
    <2> DEFINE j == proc[p].run
               s == [proc[p] EXCEPT !.pc = "execute"]
    <2>1. /\ proc[p].pc = "header" /\ proc' = [proc EXCEPT ![p].pc = "execute"]
      BY <1>7 DEF WriteHeader, Goes
    <2>2. j \in Ids /\ runs[j].stage = "file"
      BY <1>1, <2>1, StartupBounds DEF Fine, Ids
    <2>3. PICK master, symbol, side, deadline, print :
             runs' = [runs EXCEPT ![j] =
                [runs[j] EXCEPT !.stage = "header", !.agent = proc[p].cmd.agent,
                                !.master = master, !.symbol = symbol, !.side = side,
                                !.deadline = deadline, !.print = print]]
      BY <1>7 DEF WriteHeader, Agent, Cmd
    <2> DEFINE r == [runs[j] EXCEPT !.stage = "header", !.agent = proc[p].cmd.agent,
                                    !.master = master, !.symbol = symbol, !.side = side,
                                    !.deadline = deadline, !.print = print]
    <2>4. RunFine(runs[j])
      BY <1>1, <2>2
    <2>5. /\ DOMAIN r = RunFields /\ r.stage = "header" /\ r.agent = proc[p].cmd.agent
          /\ r.status = runs[j].status /\ r.open = runs[j].open
      BY <2>4 DEF RunFine, RunFields, NoRun
    <2>6. r.status = "incomplete" /\ r.open = 0
      BY <2>2, <2>4, <2>5 DEF RunFine
    <2>7. runs' = [runs EXCEPT ![j] = r]
      BY <2>3
    <2> HIDE DEF r
    <2>8. RunFine(r)
      BY <2>5, <2>6 DEF RunFine, Stages, Statuses
    <2>9. runs'[j] = r /\ IncompleteOf(runs'[j], proc[p].cmd.agent)
      BY <1>1, <2>2, <2>5, <2>6, <2>7 DEF IncompleteOf
    <2>10. DOMAIN proc' = Procs /\ proc'[p] = s /\ \A q \in Procs : q # p => proc'[q] = proc[q]
      BY <1>1, <2>1
    <2>11. /\ DOMAIN s = ProcFields /\ s.pc = "execute" /\ s.cmd = proc[p].cmd /\ s.run = j
           /\ s.left = proc[p].left
      BY <1>1 DEF Fine, ProcFields, Off
    <2> HIDE DEF s
    <2>12. Fine(s, runs')
      BY <1>1, <1>3, <2>1, <2>6, <2>9, <2>11 DEF Fine, Active
    <2> QED
      BY <1>2, <1>3, <2>1, <2>2, <2>5, <2>7, <2>8, <2>10, <2>11, <2>12, RunStep DEF Active
  <1> QED BY <1>5, <1>6, <1>7

(* A run is closed, or reported as it is, by the process that is on it. *)
LEMMA CloseKeeps ==
    ASSUME StartInv, NEW p \in Procs, Abandon(p) \/ ResumeExpired(p) \/ AlreadyThere(p) \/ RunEnds(p)
    PROVE  StartInv'
  <1> DEFINE j == proc[p].run
  <1>1. Fine(proc[p], runs)
    BY DEF StartInv
  <1>2. Ends(p)
    BY DEF Abandon, ResumeExpired, AlreadyThere, RunEnds
  <1>3. \E st \in Statuses : runs' = [runs EXCEPT ![j].status = st]
    BY DEF Abandon, ResumeExpired, AlreadyThere, RunEnds, Statuses
  <1>4. /\ proc[p].pc \in {"reconcile", "plan", "execute"}
        /\ proc[p].pc = "plan" => proc[p].cmd.select = "resume"
        /\ proc[p].pc # "plan" => runs[j].open = 0
    BY DEF Abandon, ResumeExpired, AlreadyThere, RunEnds, Continues, Reconciled, Cmd, MyRun
  <1>5. j # 0 /\ runs[j].open = 0 /\ IncompleteOf(runs[j], proc[p].cmd.agent)
    BY <1>1, <1>4 DEF Fine, Active
  <1> QED BY <1>2, <1>3, <1>4, <1>5, EndStep DEF Active

(* The directory that is found may hold runs, and no process is at work. *)
LEMMA InitStart == Init => StartInv
  <1> SUFFICES ASSUME Init PROVE StartInv
    OBVIOUS
  <1>1. PICK h \in Heirlooms : runs = [i \in Ids |-> IF i = 1 THEN h.run ELSE NoRun]
    BY DEF Init
  <1>2. lock = [a \in Agents |-> NoValue] /\ proc = [p \in Procs |-> Off]
    BY DEF Init
  <1>3. /\ Off.pc = "off" /\ Off.run = 0 /\ Off.left = {} /\ DOMAIN Off = ProcFields
    BY DEF Off, ProcFields
  <1>4. \A p \in Procs : Fine(proc[p], runs)
    BY <1>2, <1>3, StartupBounds DEF Fine, Active
  <1>5. RunFine(NoRun) /\ RunFine(h.run)
    <2>1. RunFine(NoRun)
      BY DEF RunFine, RunFields, NoRun, Stages, Statuses
    <2>2. RunFine(h.run)
      BY HeirloomsReplay DEF RunFine, RunFields, Stages, Statuses
    <2> QED BY <2>1, <2>2
  <1>6. DOMAIN runs = Ids /\ \A i \in Ids : RunFine(runs[i])
    BY <1>1, <1>5
  <1>7. \A i \in Ids : \A a : IncompleteOf(runs[i], a) => i = 1
    <2>1. \A a : ~IncompleteOf(NoRun, a)
      BY DEF IncompleteOf, NoRun
    <2> QED BY <1>1, <2>1
  <1>8. LockOK /\ Apart /\ OneOpen
    BY <1>2, <1>3, <1>7 DEF LockOK, Apart, OneOpen, Active
  <1> QED BY <1>2, <1>4, <1>6, <1>8 DEF StartInv

(* Every step of every process keeps what all of them know. *)
LEMMA NextStart == StartInv /\ [Next]_vars => StartInv'
  <1> SUFFICES ASSUME StartInv, [Next]_vars PROVE StartInv'
    OBVIOUS
  <1>1. CASE (\E d \in 0..MaxRuns : DeadlinePasses(d)) \/ UNCHANGED vars
    <2>1. UNCHANGED <<runs, lock, proc>>
      BY <1>1 DEF DeadlinePasses, vars
    <2> QED BY <2>1 DEF StartInv, LockOK, Apart, OneOpen
  <1>2. ASSUME NEW p \in Procs, NEW c \in Commands, Launching(p, c) PROVE StartInv'
    BY <1>2, LockKeeps, RefusalKeeps DEF Launching, RefusedEarly, DryRun, LockHeld
  <1>3. ASSUME NEW p \in Procs, Starting(p) PROVE StartInv'
    BY <1>3, ScanKeeps, RefusalKeeps DEF Starting, NamedRunRefused, ReadRunFails, GateRefuses
  <1>4. ASSUME NEW p \in Procs, Planning(p) PROVE StartInv'
    BY <1>4, PlanKeeps, CreditKeeps, CloseKeeps, RefusalKeeps
       DEF Planning, ProbeRefused, ReconcileFails, FingerprintRefused, PlanRefused
  <1>5. ASSUME NEW p \in Procs, Executing(p) PROVE StartInv'
    BY <1>5, BeginKeeps, SendKeeps, CreditKeeps, CloseKeeps, RefusalKeeps DEF Executing, TooLate
  <1>6. ASSUME NEW p \in Procs, Crash(p) PROVE StartInv'
    BY <1>6, RefusalKeeps DEF Crash
  <1> QED BY <1>1, <1>2, <1>3, <1>4, <1>5, <1>6 DEF Next

(* The inductive invariant of the state directory and its processes. *)
THEOREM StartInvariant == Spec => []StartInv
  BY InitStart, NextStart, PTL DEF Spec

(* One owner never has two open runs, however many processes start, race   *)
(* and crash: find_incomplete_run is asked under the owner's lock.         *)
THEOREM OneRunPerOwner == Spec => []OneIncompletePerOwner
  <1>1. StartInv => OneIncompletePerOwner
    <2> SUFFICES ASSUME StartInv, NEW a \in Agents
                 PROVE  Cardinality({i \in Ids : IncompleteOf(runs[i], a)}) <= 1
      BY DEF OneIncompletePerOwner
    <2> DEFINE S == {i \in Ids : IncompleteOf(runs[i], a)}
    <2>1. CASE S = {}
      <3>1. Cardinality(S) = 0
        BY <2>1, FS_EmptySet
      <3> QED BY <3>1
    <2>2. CASE S # {}
      <3>1. PICK x : x \in S
        BY <2>2
      <3>2. S = {x}
        BY <3>1 DEF StartInv, OneOpen
      <3> HIDE DEF S
      <3>3. Cardinality(S) = 1
        BY <3>2, FS_Singleton
      <3> QED BY <3>3 DEF S
    <2> QED BY <2>1, <2>2
  <1> QED BY <1>1, StartInvariant, PTL

(* Nothing is executed over an order that an earlier process left behind,  *)
(* in the same run or in another of the owner.                             *)
THEOREM SettledBeforeExecuting == Spec => []InheritedSettledFirst
  <1>1. StartInv => InheritedSettledFirst
    <2> SUFFICES ASSUME StartInv, NEW p \in Procs, proc[p].pc = "execute", NEW i \in Ids,
                        runs[i].agent = proc[p].cmd.agent, runs[i].open # 0
                 PROVE  i = proc[p].run /\ proc[p].sent
      BY DEF InheritedSettledFirst, Agent, Cmd
    <2>1. Fine(proc[p], runs) /\ RunFine(runs[i])
      BY DEF StartInv
    <2>2. IncompleteOf(runs[i], proc[p].cmd.agent)
      BY <2>1 DEF RunFine, IncompleteOf
    <2>3. /\ proc[p].run \in Ids /\ IncompleteOf(runs[proc[p].run], proc[p].cmd.agent)
          /\ proc[p].cmd.agent \in Agents
      BY <2>1, StartupBounds, CommandsOwned DEF Fine, Ids, Active
    <2>4. i = proc[p].run
      BY <2>2, <2>3 DEF StartInv, OneOpen
    <2> QED BY <2>1, <2>4 DEF Fine
  <1> QED BY <1>1, StartInvariant, PTL

(* A completed or abandoned run is never written again: every step that    *)
(* changes a run changes one that is still open or not yet begun.          *)
THEOREM ClosedForGood == Spec => ClosedStaysClosed
  <1> DEFINE Kept == \A i \in Ids : runs[i].status # "incomplete" => runs'[i] = runs[i]
  <1>1. ASSUME StartInv, [Next]_vars PROVE Kept
    <2> SUFFICES ASSUME NEW i \in Ids, runs[i].status # "incomplete", runs' # runs
                 PROVE  runs'[i] = runs[i]
      OBVIOUS
    <2>1. PICK p \in Procs :
             \/ Reconcile(p) \/ Abandon(p) \/ ResumeExpired(p) \/ AlreadyThere(p)
             \/ MakeDir(p) \/ MakeFile(p) \/ WriteHeader(p)
             \/ SendOrder(p) \/ SettleOrder(p) \/ RunEnds(p)
      <3>1. ~(UNCHANGED vars) /\ ~ \E d \in 0..MaxRuns : DeadlinePasses(d)
        BY DEF vars, DeadlinePasses
      <3>2. \A p \in Procs : ~Refused(p)
        BY DEF Refused
      <3>3. \A p \in Procs : ~Starting(p) /\ ~Crash(p) /\ \A c \in Commands : ~Launching(p, c)
        BY <3>2 DEF Starting, ListRuns, NamedRunRefused, ReadRun, ReadRunFails, NoneFound, PassGate,
           GateRefuses, Crash, Launching, RefusedEarly, DryRun, TakeLock, Locks, LockHeld
      <3>4. PICK p \in Procs : Planning(p) \/ Executing(p)
        BY <1>1, <3>1, <3>3 DEF Next
      <3> QED
        BY <3>2, <3>4 DEF Planning, Executing, Probe, ProbeRefused, ReconcileFails,
           FingerprintRefused, ResumeMatches, SeesPrice, PlanRefused, Planned, TooLate
    <2>2. Fine(proc[p], runs) /\ RunFine(runs[i]) /\ DOMAIN runs = Ids
      BY <1>1 DEF StartInv
    <2>3. CASE MakeDir(p)
      <3>1. PICK x : runs' = [runs EXCEPT ![FreshId].stage = x]
        BY <2>3 DEF MakeDir
      <3>2. runs[i].stage # "none"
        BY <2>2 DEF RunFine
      <3>3. i # FreshId
        BY <3>2, <2>3, <1>1, FreshIsNew DEF MakeDir
      <3> QED BY <2>2, <3>1, <3>3
    <2>4. CASE ~MakeDir(p)
      <3>1. proc[p].run # i
        <4>1. proc[p].pc \in {"reconcile", "plan", "create", "header", "execute"}
              /\ (proc[p].pc = "plan" => proc[p].cmd.select = "resume")
          BY <2>1, <2>4 DEF Reconcile, Abandon, ResumeExpired, AlreadyThere, MakeFile, WriteHeader,
             SendOrder, SettleOrder, RunEnds, Continues, Reconciled, Cmd
        <4> QED BY <2>2, <4>1 DEF Fine, RunFine, IncompleteOf, Active
      <3>2. \A j \in Ids : j # proc[p].run => runs'[j] = runs[j]
        BY <2>1, <2>2, <2>4 DEF Reconcile, Abandon, ResumeExpired, AlreadyThere, MakeFile,
           WriteHeader, SendOrder, SettleOrder, RunEnds
      <3> QED BY <3>1, <3>2
    <2> QED BY <2>3, <2>4
  <1>2. ASSUME StartInv, [Next]_vars PROVE [Kept]_vars
    BY <1>1, <1>2
  <1> QED BY <1>2, StartInvariant, PTL DEF Spec, ClosedStaysClosed

-----------------------------------------------------------------------------
(* The plan a process carries out is that of the run's first process. *)

RunTyped(r) ==
    /\ r.open \in Nat /\ r.filled \in Nat /\ r.side \in {-1, 0, 1}
    /\ r.stage # "header" => r.filled = 0
    /\ r.stage = "header" => r.agent \in Agents

(* A run that some process began, and what it has done to the account. *)
Accounted(r, plan, P) ==
    r.stage = "header" /\ r.print # NoValue =>
        /\ Written(r, plan)
        /\ r.status = "incomplete" => TradedWithin(r, plan, P[r.agent])

Sized(c, plan, mid) ==
    /\ LogicalTotal(plan) > 0
    /\ \A total \in {plan.sizing.total} \cup {plan.phases[i].size : i \in DOMAIN plan.phases} :
            SizingAccepted(total, c.slices, mid)

(* What a process has been told, and the price it has seen. *)
Told(s) ==
    /\ s.pc \in Active => Accepted(s.cmd) /\ s.cmd.live
    /\ s.pc \in {"plan", "mkdir", "create", "header", "execute"} => s.mid \in Mids

(* A process that is beginning a run, over the position x. *)
Begins(s, x) ==
    s.pc \in {"mkdir", "create", "header"} =>
        /\ s.cmd.select = "new"
        /\ s.plan = PlanOf(s.cmd, s.mid, x) /\ s.todo = LogicalTotal(s.plan)
        /\ Sized(s.cmd, s.plan, s.mid)
        /\ s.cmd.mode = "flatten" =>
              /\ s.cmd.deadline # NoValue
              /\ s.cmd.token = Token(s.cmd, s.plan, MasterOf[s.cmd.agent], s.cmd.deadline)

(* A process that continues the run r. *)
Resumes(s, r) ==
    s.cmd.select = "resume" =>
        /\ s.pc \in {"reconcile", "price", "plan", "execute"} => Readable(r)
        /\ s.pc \in {"price", "plan", "execute"} =>
              MayResume(s.cmd, r.print, MasterOf[s.cmd.agent])

(* The run r as its first process wrote it. *)
OwnPrint(s, r, plan) ==
    /\ r.agent = s.cmd.agent /\ r.master = MasterOf[s.cmd.agent] /\ r.symbol = s.cmd.symbol
    /\ r.side = plan.side
    /\ s.cmd.deadline # NoValue => r.deadline = s.cmd.deadline
    /\ r.print = Fingerprint(s.cmd, plan, s.mid, r.master, r.deadline)
    /\ plan.initial \in Int /\ plan = PlanOf(s.cmd, s.mid, plan.initial)
    /\ Sized(s.cmd, plan, s.mid)

(* A process that executes the run r, begun for this plan. *)
Executes(s, r, plan) ==
    s.pc = "execute" =>
        /\ r.print # NoValue /\ s.cmd.select # "abandon"
        /\ s.todo \in Nat /\ r.filled + s.todo = LogicalTotal(plan)
        /\ s.plan.sizing.per \in Nat \ {0}
        /\ s.cmd.mode = "flatten" =>
              s.cmd.token = Token(s.cmd, plan, MasterOf[s.cmd.agent], r.deadline)
        /\ s.cmd.select = "new" => OwnPrint(s, r, plan)

PlanInv ==
    /\ DOMAIN asked = Ids /\ pos \in [Agents -> Int]
    /\ \A i \in Ids : RunTyped(runs[i]) /\ Accounted(runs[i], asked[i], pos)
    /\ \A p \in Procs :
          /\ Told(proc[p])
          /\ proc[p].pc \in Active => Begins(proc[p], pos[proc[p].cmd.agent])
          /\ proc[p].pc \in Active /\ proc[p].run # 0 =>
                /\ Resumes(proc[p], runs[proc[p].run])
                /\ Executes(proc[p], runs[proc[p].run], asked[proc[p].run])

-----------------------------------------------------------------------------
(* Plans and positions. *)

(* Division by a positive number rounds down. *)
LEMMA DivFacts ==
    ASSUME NEW t \in Int, NEW n \in Nat, n > 0
    PROVE  /\ t \div n \in Int
           /\ (t \div n) * n <= t /\ t < (t \div n) * n + n
  OBVIOUS

LEMMA SignFacts ==
    ASSUME NEW x \in Int
    PROVE  Sign(x) \in {-1, 0, 1} /\ Magnitude(x) \in Nat /\ x = Sign(x) * Magnitude(x)
  BY DEF Sign, Magnitude

(* The phases between two positions: none when they are the same, and the  *)
(* first one always goes toward the target.                                *)
LEMMA PhaseFacts ==
    ASSUME NEW i \in Int, NEW t \in Int, i # t
    PROVE  /\ PhasesFor(i, t) # <<>> /\ 1 \in DOMAIN PhasesFor(i, t)
           /\ PhasesFor(i, t)[1].side = Sign(t - i)
           /\ PhasesFor(i, t)[1].size \in Nat
  <1>1. CASE Sign(i) * Sign(t) = -1
    <2>1. PhasesFor(i, t) = <<Phase("close", -i, TRUE), Phase("open", t, FALSE)>>
      BY <1>1 DEF PhasesFor
    <2>2. Sign(-i) = Sign(t - i) /\ Magnitude(-i) \in Nat
      BY <1>1 DEF Sign, Magnitude
    <2>3. PhasesFor(i, t) # <<>> /\ DOMAIN PhasesFor(i, t) = 1..2
          /\ PhasesFor(i, t)[1] = Phase("close", -i, TRUE)
      BY <2>1
    <2> QED BY <2>2, <2>3 DEF Phase
  <1>2. CASE Sign(i) * Sign(t) # -1
    <2> DEFINE reduces == /\ i # 0
                          /\ \/ t = 0
                             \/ Sign(i) = Sign(t) /\ Magnitude(t) < Magnitude(i)
    <2>1. PhasesFor(i, t) = <<Phase("adjust", t - i, reduces)>>
      BY <1>2 DEF PhasesFor
    <2> HIDE DEF reduces
    <2>2. Magnitude(t - i) \in Nat
      BY DEF Magnitude
    <2>3. PhasesFor(i, t) # <<>> /\ DOMAIN PhasesFor(i, t) = 1..1
          /\ PhasesFor(i, t)[1] = Phase("adjust", t - i, reduces)
      BY <2>1
    <2> QED BY <2>2, <2>3 DEF Phase
  <1> QED BY <1>1, <1>2

LEMMA TargetInt ==
    ASSUME NEW c \in Commands, NEW m \in Nat \ {0}
    PROVE  TargetOf(c, m) \in Int
  <1>1. c.lots \in Int
    BY CommandsTyped DEF RequestOptions
  <1>2. TargetUsd(c.lots, m) \in Int
    <2>1. Sign(c.lots) \in Int /\ Magnitude(c.lots) \in Int
      BY <1>1, SignFacts
    <2>2. Magnitude(c.lots) \div m \in Int
      BY <2>1, DivFacts
    <2> QED BY <2>1, <2>2 DEF TargetUsd
  <1> QED BY <1>1, <1>2 DEF TargetOf, RequestedTarget

(* What is left of the way from i to t after n lots of it. *)
LEMMA WayLeft ==
    ASSUME NEW i \in Int, NEW t \in Int, NEW n \in Nat, n <= Magnitude(t - i)
    PROVE  Magnitude(t - ApplySignedFill(i, Sign(t - i), n)) = Magnitude(t - i) - n
  BY DEF Magnitude, Sign, ApplySignedFill

LEMMA PlainLots ==
    ASSUME NEW x, NEW y
    PROVE  /\ Plain(x).lots = x
           /\ Plain(x) = Plain(y) => x = y
           /\ x = y => Plain(x) = Plain(y)
  BY DEF Plain, Canonical, Spelled, ScaleOf

(* A plan of a position request, and of an ordinary one. *)
LEMMA PositionPlanIs ==
    ASSUME NEW c, PositionMode(c), NEW m, NEW x, NEW t, t = TargetOf(c, m)
    PROVE  /\ PlanOf(c, m, x).initial = x /\ PlanOf(c, m, x).target = t
           /\ PlanOf(c, m, x).phases = PhasesFor(x, t)
           /\ PlanOf(c, m, x) = PositionPlanTo(t, x, c.slices)
  BY DEF PlanOf, PositionPlanTo

LEMMA OrdinaryAnywhere ==
    ASSUME NEW c, ~PositionMode(c), NEW m, NEW x, NEW y
    PROVE  PlanOf(c, m, x) = PlanOf(c, m, y)
  BY DEF PlanOf

LEMMA TotalInt ==
    ASSUME NEW c \in Commands, NEW m \in Nat \ {0}
    PROVE  (IF c.mode = "size" THEN c.lots ELSE UsdToCoin(c.lots, m)) \in Int
  <1>1. c.lots \in Int
    BY CommandsTyped DEF RequestOptions
  <1>2. UsdToCoin(c.lots, m) \in Int
    BY <1>1, DivFacts DEF UsdToCoin
  <1> QED BY <1>1, <1>2

(* What a fingerprint that was changed in one size still says. *)
LEMMA StoredFields ==
    ASSUME NEW c, NEW plan, NEW m, NEW master, NEW d, NEW f,
           ChangedInOneSize(Fingerprint(c, plan, m, master, d), f)
    PROVE  /\ f.mode = c.mode /\ f.value = RequestedValue(c) /\ f.slices = c.slices
           /\ f.initial = Signed(c, plan, "initial") /\ f.target = Signed(c, plan, "target")
           /\ \/ f.total = Plain(plan.sizing.total)
              \/ f.adjusted = Plain(plan.sizing.adjusted)
  <1> DEFINE g == Fingerprint(c, plan, m, master, d)
  <1>1. /\ g.mode = c.mode /\ g.value = RequestedValue(c) /\ g.slices = c.slices
        /\ g.initial = Signed(c, plan, "initial") /\ g.target = Signed(c, plan, "target")
        /\ g.total = Plain(plan.sizing.total) /\ g.adjusted = Plain(plan.sizing.adjusted)
        /\ DOMAIN g = DOMAIN g
    BY DEF Fingerprint
  <1>2. {"mode", "value", "slices", "initial", "target", "total", "per", "adjusted"} \subseteq DOMAIN g
    BY DEF Fingerprint
  <1> HIDE DEF g
  <1>3. CASE f = [g EXCEPT !.total = f.total]
    BY <1>1, <1>2, <1>3
  <1>4. CASE f = [g EXCEPT !.per = f.per]
    BY <1>1, <1>2, <1>4
  <1>5. CASE f = [g EXCEPT !.adjusted = f.adjusted]
    BY <1>1, <1>2, <1>5
  <1> QED BY <1>3, <1>4, <1>5 DEF ChangedInOneSize, g

(* A request that the resume check takes for the one of the run is given   *)
(* the run's own plan: the frozen endpoints of a position, the total of an *)
(* ordinary run.                                                           *)
LEMMA ResumedIsAsked ==
    ASSUME NEW c \in Commands, NEW r, NEW plan, NEW master, Written(r, plan),
           MayResume(c, r.print, master)
    PROVE  /\ plan.initial \in Int /\ plan.target \in Int
           /\ PositionMode(c) =>
                /\ r.print.mode \in PositionModes
                /\ Resumed(c, r.print).initial = plan.initial
                /\ Resumed(c, r.print).target = plan.target
                /\ Resumed(c, r.print).phases = plan.phases
                /\ plan.phases = PhasesFor(plan.initial, plan.target)
                /\ plan.initial # plan.target
                /\ r.side = Sign(plan.target - plan.initial)
                /\ c.mode = "flatten" => plan.target = 0
           /\ ~PositionMode(c) =>
                /\ plan.phases = <<>>
                /\ Resumed(c, r.print).sizing.adjusted = plan.sizing.adjusted
                /\ plan.sizing.adjusted \in Int
  <1> DEFINE f == r.print
  <1>1. PICK d \in Commands, mid \in Mids :
            /\ Accepted(d) /\ d.live
            /\ plan = PlanOf(d, mid, plan.initial) /\ plan.initial \in Int /\ r.side = plan.side
            /\ ChangedInOneSize(Fingerprint(d, plan, mid, r.master, r.deadline), f)
    BY DEF Written
  <1>2. /\ f.mode = d.mode /\ f.value = RequestedValue(d) /\ f.slices = d.slices
        /\ f.initial = Signed(d, plan, "initial") /\ f.target = Signed(d, plan, "target")
        /\ \/ f.total = Plain(plan.sizing.total)
           \/ f.adjusted = Plain(plan.sizing.adjusted)
    BY <1>1, StoredFields
  <1>3. c.mode = d.mode /\ c.slices = d.slices
    BY <1>2 DEF MayResume
  <1>4. mid \in Nat \ {0} /\ d.slices \in Nat /\ d.slices > 0
    BY <1>1, StartupBounds, CommandsTyped DEF ExecutionOptions, Accepted
  <1>5. CASE PositionMode(c)
    <2>1. PositionMode(d)
      BY <1>3, <1>5 DEF PositionMode
    <2> DEFINE t == TargetOf(d, mid)
    <2>2. t \in Int
      BY <1>1, <1>4, TargetInt
    <2>3. plan.target = t /\ plan.phases = PhasesFor(plan.initial, t)
          /\ plan = PositionPlanTo(t, plan.initial, d.slices)
      BY <1>1, <2>1, PositionPlanIs
    <2>4. f.initial = Plain(plan.initial) /\ f.target = Plain(plan.target)
      BY <1>2, <2>1 DEF Signed
    <2>5. f.initial.lots = plan.initial
      BY <2>4, PlainLots
    <2> DEFINE ref == IF f.ref = NoValue THEN 1 ELSE f.ref
               again == PlanOf(c, ref, plan.initial)
    <2>6. Resumed(c, f) = again /\ Rebuilt(c, f) = again
      BY <1>5, <2>5 DEF Resumed, Rebuilt
    <2>7. again.initial = plan.initial /\ again.phases = PhasesFor(plan.initial, again.target)
      BY <1>5, PositionPlanIs
    <2>8. Plain(again.target) = f.target /\ again.phases # <<>>
      BY <1>5, <2>6 DEF MayResume
    <2> HIDE DEF t, ref, again
    <2>9. again.target = plan.target
      BY <2>4, <2>8, PlainLots
    <2>10. plan.initial # plan.target
      BY <2>7, <2>8, <2>9 DEF PhasesFor
    <2>11. plan.side = plan.phases[1].side /\ plan.phases # <<>>
      BY <2>3, <2>7, <2>8, <2>9 DEF PositionPlanTo
    <2>12. plan.side = Sign(plan.target - plan.initial)
      BY <1>1, <2>2, <2>3, <2>10, <2>11, PhaseFacts
    <2>13. c.mode = "flatten" => plan.target = 0
      BY <1>3, <2>3 DEF t, TargetOf, RequestedTarget
    <2>14. f.mode \in PositionModes
      BY <1>2, <2>1 DEF PositionMode
    <2> QED BY <1>1, <1>5, <2>2, <2>3, <2>6, <2>7, <2>9, <2>10, <2>12, <2>13, <2>14
  <1>6. CASE ~PositionMode(c)
    <2>1. ~PositionMode(d)
      BY <1>3, <1>6 DEF PositionMode
    <2> DEFINE total == IF d.mode = "size" THEN d.lots ELSE UsdToCoin(d.lots, mid)
    <2>2. total \in Int
      BY <1>1, <1>4, TotalInt
    <2>3. /\ plan.target = 0 /\ plan.phases = <<>>
          /\ plan.sizing = Sizing(total, d.slices, FALSE)
      <3> DEFINE made == PlanOf(d, mid, plan.initial)
      <3> HIDE DEF total
      <3>0. total = IF d.mode = "size" THEN d.lots ELSE UsdToCoin(d.lots, mid)
        BY DEF total
      <3>1. made.target = 0 /\ made.phases = <<>>
            /\ made.sizing = Sizing(total, d.slices, FALSE)
        BY <2>1, <3>0 DEF PlanOf
      <3>2. plan = made
        BY <1>1
      <3> HIDE DEF made
      <3> QED BY <3>1, <3>2
    <2>4. plan.sizing.total = total /\ plan.sizing.adjusted = TotalAdjusted(total, d.slices)
      BY <2>3 DEF Sizing
    <2> HIDE DEF total
    <2>5. plan.sizing.adjusted \in Int
      BY <1>4, <2>2, <2>4, DivFacts DEF TotalAdjusted, PerSliceOf
    <2>6. Resumed(c, f).sizing.adjusted = f.adjusted.lots
      BY <1>6 DEF Resumed
    <2>7. f.adjusted.lots = plan.sizing.adjusted
      <3>1. CASE f.adjusted = Plain(plan.sizing.adjusted)
        BY <3>1, PlainLots
      <3>2. CASE f.total = Plain(plan.sizing.total)
        <4>1. CASE c.mode = "size"
          <5>1. f.value = Canonical(Spelled(d.lots, d.scale))
            BY <1>2, <1>3, <4>1 DEF RequestedValue, Value
          <5>2. f.value.lots = total
            BY <1>3, <4>1, <5>1 DEF Canonical, Spelled, total
          <5>3. f.adjusted = Plain(Sizing(total, f.slices, FALSE).adjusted)
            BY <1>6, <4>1, <5>2 DEF MayResume, SizingConsistent
          <5>4. f.adjusted = Plain(TotalAdjusted(total, d.slices))
            BY <1>2, <5>3 DEF Sizing
          <5> QED BY <2>4, <5>4, PlainLots
        <4>2. CASE c.mode # "size"
          <5>1. f.total.lots = total
            BY <2>4, <3>2, PlainLots
          <5>2. f.adjusted = Plain(Sizing(total, f.slices, FALSE).adjusted)
            BY <1>6, <4>2, <5>1 DEF MayResume, SizingConsistent
          <5>3. f.adjusted = Plain(TotalAdjusted(total, d.slices))
            BY <1>2, <5>2 DEF Sizing
          <5> QED BY <2>4, <5>3, PlainLots
        <4> QED BY <4>1, <4>2
      <3> QED BY <1>2, <3>1, <3>2
    <2>8. plan.initial \in Int /\ plan.target \in Int
      BY <1>1, <2>3
    <2>9. plan.phases = <<>> /\ Resumed(c, f).sizing.adjusted = plan.sizing.adjusted
      BY <2>3, <2>6, <2>7
    <2> QED BY <1>6, <2>5, <2>8, <2>9
  <1> QED BY <1>5, <1>6

(* A plan is made of whole lots. *)
LEMMA PlanTyped ==
    ASSUME NEW c \in Commands, Accepted(c), NEW mid \in Mids, NEW x \in Int, NEW plan,
           plan = PlanOf(c, mid, x)
    PROVE  /\ plan.initial \in Int /\ plan.target \in Int /\ plan.side \in {-1, 0, 1}
           /\ plan.sizing.total \in Int /\ plan.sizing.per \in Int /\ plan.sizing.adjusted \in Int
           /\ LogicalTotal(plan) \in Int
           /\ c.slices \in Nat /\ c.slices > 0
  <1>1. mid \in Nat \ {0} /\ c.slices \in Nat /\ c.slices > 0 /\ c.side \in {-1, 0, 1}
    BY StartupBounds, CommandsTyped DEF ExecutionOptions, RequestOptions, Accepted
  <1>2. \A t \in Int : \A exact \in BOOLEAN :
            /\ Sizing(t, c.slices, exact).total \in Int /\ Sizing(t, c.slices, exact).per \in Int
            /\ Sizing(t, c.slices, exact).adjusted \in Int
    <2> TAKE t \in Int
    <2> TAKE exact \in BOOLEAN
    <2>1. t \div c.slices \in Int
      BY <1>1, DivFacts
    <2> QED BY <1>1, <2>1 DEF Sizing, PerSliceOf, TotalAdjusted
  <1>3. CASE PositionMode(c)
    <2> DEFINE t == TargetOf(c, mid)
               first == IF PhasesFor(x, t) = <<>> THEN 0 ELSE PhasesFor(x, t)[1].size
               way == IF PhasesFor(x, t) = <<>> THEN 0 ELSE PhasesFor(x, t)[1].side
    <2>1. t \in Int
      BY <1>1, TargetInt
    <2> HIDE DEF t
    <2>2. /\ plan.initial = x /\ plan.target = t /\ plan.phases = PhasesFor(x, t)
          /\ plan.side = way /\ plan.sizing = Sizing(first, c.slices, TRUE)
      BY <1>3 DEF PlanOf, PositionPlanTo, t
    <2>3. first \in Int /\ way \in {-1, 0, 1}
      <3>1. CASE x = t
        BY <3>1 DEF PhasesFor
      <3>2. CASE x # t
        <4>1. Sign(t - x) \in {-1, 0, 1}
          BY <2>1, SignFacts
        <4> QED BY <2>1, <3>2, <4>1, PhaseFacts
      <3> QED BY <3>1, <3>2
    <2> HIDE DEF first, way
    <2>4. plan.sizing.total \in Int /\ plan.sizing.per \in Int /\ plan.sizing.adjusted \in Int
      BY <1>2, <2>2, <2>3
    <2>5. Magnitude(plan.target - plan.initial) \in Int
      BY <2>1, <2>2 DEF Magnitude
    <2>6. LogicalTotal(plan) \in Int
      BY <2>4, <2>5 DEF LogicalTotal
    <2> QED BY <1>1, <2>1, <2>2, <2>3, <2>4, <2>6
  <1>4. CASE ~PositionMode(c)
    <2> DEFINE total == IF c.mode = "size" THEN c.lots ELSE UsdToCoin(c.lots, mid)
    <2>1. total \in Int
      BY <1>1, TotalInt
    <2> HIDE DEF total
    <2>2. /\ plan.initial = 0 /\ plan.target = 0 /\ plan.phases = <<>> /\ plan.side = c.side
          /\ plan.sizing = Sizing(total, c.slices, FALSE)
      BY <1>4 DEF PlanOf, total
    <2>3. plan.sizing.total \in Int /\ plan.sizing.per \in Int /\ plan.sizing.adjusted \in Int
      BY <1>2, <2>1, <2>2
    <2>4. LogicalTotal(plan) \in Int
      BY <2>2, <2>3 DEF LogicalTotal
    <2>5. plan.initial \in Int /\ plan.target \in Int
      BY <2>2
    <2>6. plan.side \in {-1, 0, 1}
      BY <1>1, <2>2
    <2> QED BY <1>1, <2>3, <2>4, <2>5, <2>6
  <1> QED BY <1>3, <1>4

LEMMA WrittenTyped ==
    ASSUME NEW r, NEW plan, Written(r, plan)
    PROVE  /\ plan.initial \in Int /\ plan.target \in Int /\ LogicalTotal(plan) \in Int
           /\ r.side = plan.side /\ r.print \in Prints
  <1>1. PICK c \in Commands, mid \in Mids :
            /\ Accepted(c) /\ plan = PlanOf(c, mid, plan.initial) /\ plan.initial \in Int
            /\ r.side = plan.side /\ r.print \in Prints
    BY DEF Written
  <1>2. plan.target \in Int /\ LogicalTotal(plan) \in Int
    BY <1>1, PlanTyped
  <1> QED BY <1>1, <1>2

-----------------------------------------------------------------------------
(* What one process knows is not disturbed by another. *)

Knows(s, R, A, P) ==
    /\ Told(s)
    /\ s.pc \in Active => Begins(s, P[s.cmd.agent])
    /\ s.pc \in Active /\ s.run # 0 => Resumes(s, R[s.run]) /\ Executes(s, R[s.run], A[s.run])

LEMMA PlanInvIs ==
    PlanInv <=> /\ DOMAIN asked = Ids /\ pos \in [Agents -> Int]
                /\ \A i \in Ids : RunTyped(runs[i]) /\ Accounted(runs[i], asked[i], pos)
                /\ \A p \in Procs : Knows(proc[p], runs, asked, pos)
  BY DEF PlanInv, Knows

(* A process takes a step that changes neither runs nor accounts. *)
LEMMA QuietPlans ==
    ASSUME PlanInv, NEW p \in Procs, DOMAIN proc = Procs,
           \A q \in Procs : q # p => proc'[q] = proc[q],
           UNCHANGED <<runs, asked, pos>>, Knows(proc'[p], runs, asked, pos)
    PROVE  PlanInv'
  BY DEF PlanInv, Knows

(* A process changes a run of its own, and what its account holds. *)
LEMMA OwnPlans ==
    ASSUME StartInv, PlanInv, NEW p \in Procs, proc[p].pc \in Active,
           \A q \in Procs : q # p => proc'[q] = proc[q],
           NEW j \in Ids, j = proc[p].run \/ runs[j].stage = "none",
           \A i \in Ids : i # j => runs'[i] = runs[i] /\ asked'[i] = asked[i],
           DOMAIN asked' = Ids, pos' \in [Agents -> Int],
           \A a \in Agents : a # proc[p].cmd.agent => pos'[a] = pos[a],
           pos' = pos \/ IncompleteOf(runs[j], proc[p].cmd.agent),
           RunTyped(runs'[j]), Accounted(runs'[j], asked'[j], pos'),
           Knows(proc'[p], runs', asked', pos')
    PROVE  PlanInv'
  <1>1. \A i \in Ids : RunTyped(runs'[i])
    BY DEF PlanInv
  <1>2. ASSUME NEW i \in Ids PROVE Accounted(runs'[i], asked'[i], pos')
    <2>1. CASE i = j
      BY <2>1
    <2>2. CASE i # j /\ runs[i].stage = "header"
      <3>1. /\ runs'[i] = runs[i] /\ asked'[i] = asked[i] /\ Accounted(runs[i], asked[i], pos)
            /\ runs[i].agent \in Agents
        BY <2>2 DEF PlanInv, RunTyped
      <3>2. CASE pos' = pos
        BY <3>1, <3>2
      <3>3. CASE runs[i].agent # proc[p].cmd.agent
        BY <3>1, <3>3 DEF Accounted
      <3>4. CASE runs[i].agent = proc[p].cmd.agent /\ IncompleteOf(runs[j], proc[p].cmd.agent)
        <4>1. runs[i].status # "incomplete"
          BY <2>2, <3>1, <3>4 DEF StartInv, OneOpen, IncompleteOf
        <4> QED BY <3>1, <4>1 DEF Accounted
      <3> QED BY <3>2, <3>3, <3>4
    <2>3. CASE i # j /\ runs[i].stage # "header"
      BY <2>3 DEF Accounted
    <2> QED BY <2>1, <2>2, <2>3
  <1>3. ASSUME NEW q \in Procs PROVE Knows(proc'[q], runs', asked', pos')
    <2>1. CASE q = p
      BY <2>1
    <2>2. CASE q # p /\ proc[q].pc \in Active
      <3>1. proc'[q] = proc[q] /\ Knows(proc[q], runs, asked, pos) /\ Fine(proc[q], runs)
        BY <2>2 DEF StartInv, PlanInv, Knows
      <3>2. proc[q].cmd.agent # proc[p].cmd.agent /\ proc[q].cmd.agent \in Agents
        BY <2>2, <3>1, OnlyOne, CommandsOwned DEF Fine
      <3>3. pos'[proc[q].cmd.agent] = pos[proc[q].cmd.agent]
        BY <3>2
      <3>4. proc[q].run # 0 => proc[q].run # j
        <4>1. CASE j = proc[p].run
          BY <2>2, <4>1 DEF StartInv, Apart
        <4>2. CASE runs[j].stage = "none"
          BY <3>1, <4>2 DEF Fine, IncompleteOf, Active
        <4> QED BY <4>1, <4>2
      <3>5. proc[q].run # 0 => proc[q].run \in Ids
        BY <3>1, StartupBounds DEF Fine, Ids
      <3>6. proc[q].run # 0 =>
                /\ runs'[proc[q].run] = runs[proc[q].run]
                /\ asked'[proc[q].run] = asked[proc[q].run]
        BY <3>4, <3>5
      <3> QED BY <3>1, <3>3, <3>6 DEF Knows
    <2>3. CASE q # p /\ proc[q].pc \notin Active
      <3>1. proc'[q] = proc[q] /\ Told(proc[q])
        BY <2>3 DEF PlanInv
      <3> QED BY <2>3, <3>1 DEF Knows
    <2> QED BY <2>1, <2>2, <2>3
  <1> QED BY <1>1, <1>2, <1>3 DEF PlanInv, Knows

(* What the other fields of a run are about. *)
LEMMA SameRun ==
    ASSUME NEW r, NEW s, NEW plan,
           s.stage = r.stage, s.print = r.print, s.symbol = r.symbol, s.side = r.side,
           s.deadline = r.deadline, s.agent = r.agent, s.master = r.master
    PROVE  /\ Written(r, plan) => Written(s, plan)
           /\ Readable(r) => Readable(s)
           /\ \A t : OwnPrint(t, r, plan) => OwnPrint(t, s, plan)
  BY DEF Written, Readable, HeaderMatches, OwnPrint

LEMMA EndedKnows ==
    ASSUME NEW R, NEW A, NEW P
    PROVE  Knows([Off EXCEPT !.pc = "ended"], R, A, P)
  BY DEF Knows, Told, Active, Off

LEMMA RefusalPlans ==
    ASSUME StartInv, PlanInv, NEW p \in Procs, Refused(p)
    PROVE  PlanInv'
  <1>1. DOMAIN proc = Procs
    BY DEF StartInv
  <1>2. /\ proc'[p] = [Off EXCEPT !.pc = "ended"]
        /\ \A q \in Procs : q # p => proc'[q] = proc[q]
        /\ UNCHANGED <<runs, asked, pos>>
    BY <1>1 DEF Refused, Ends
  <1> QED BY <1>1, <1>2, EndedKnows, QuietPlans

LEMMA LaunchPlans ==
    ASSUME StartInv, PlanInv, NEW p \in Procs, NEW c \in Commands, TakeLock(p, c)
    PROVE  PlanInv'
  <1>1. DOMAIN proc = Procs /\ DOMAIN proc[p] = ProcFields /\ proc[p].run = 0
    BY DEF StartInv, Fine, TakeLock, Invoked
  <1>2. /\ proc'[p].pc = "locked" /\ proc'[p].cmd = c /\ proc'[p].run = 0
        /\ \A q \in Procs : q # p => proc'[q] = proc[q]
        /\ UNCHANGED <<runs, asked, pos>> /\ Accepted(c) /\ c.live
    <2>1. proc' = [proc EXCEPT ![p].pc = "locked", ![p].cmd = c]
      BY DEF TakeLock, Locks
    <2> QED BY <1>1, <2>1 DEF TakeLock, Locks, ProcFields, Off
  <1>3. Knows(proc'[p], runs, asked, pos)
    BY <1>2 DEF Knows, Told, Begins
  <1> QED BY <1>1, <1>2, <1>3, QuietPlans

(* Until it has passed the gate a process has no plan. *)
LEMMA ScanPlans ==
    ASSUME StartInv, PlanInv, NEW p \in Procs,
           ListRuns(p) \/ ReadRun(p) \/ NoneFound(p) \/ PassGate(p)
    PROVE  PlanInv'
  <1>1. DOMAIN proc = Procs /\ DOMAIN proc[p] = ProcFields /\ proc[p].pc \in Active
    BY DEF StartInv, Fine, Active, ListRuns, ReadRun, NoneFound, PassGate
  <1>2. /\ proc'[p].pc \in {"scan", "gate", "probe"} /\ proc'[p].cmd = proc[p].cmd
        /\ \A q \in Procs : q # p => proc'[q] = proc[q]
        /\ UNCHANGED <<runs, asked, pos>>
    <2>1. CASE ListRuns(p)
      BY <1>1, <2>1 DEF ListRuns, ProcFields, Off
    <2>2. CASE ReadRun(p)
      <3>1. CASE proc' = [proc EXCEPT ![p].run = NextListed(p), ![p].left = {}, ![p].pc = "gate"]
        BY <1>1, <2>2, <3>1 DEF ReadRun, ProcFields, Off
      <3>2. CASE proc' = [proc EXCEPT ![p].left = @ \ {NextListed(p)}]
        BY <1>1, <2>2, <3>2 DEF ReadRun, ProcFields, Off
      <3> QED BY <2>2, <3>1, <3>2 DEF ReadRun
    <2>3. CASE NoneFound(p) \/ PassGate(p)
      BY <1>1, <2>3 DEF NoneFound, PassGate, Goes, ProcFields, Off
    <2> QED BY <2>1, <2>2, <2>3
  <1>3. Accepted(proc[p].cmd) /\ proc[p].cmd.live
    BY <1>1 DEF PlanInv, Told
  <1>4. Knows(proc'[p], runs, asked, pos)
    BY <1>2, <1>3 DEF Knows, Told, Begins, Resumes, Executes
  <1> QED BY <1>1, <1>2, <1>4, QuietPlans

(* A run is closed, or reported, and keeps what was written of it. *)
LEMMA ClosePlans ==
    ASSUME StartInv, PlanInv, NEW p \in Procs,
           Abandon(p) \/ ResumeExpired(p) \/ AlreadyThere(p) \/ RunEnds(p)
    PROVE  PlanInv'
  <1> DEFINE j == proc[p].run
  <1>1. Fine(proc[p], runs) /\ DOMAIN proc = Procs /\ DOMAIN runs = Ids
    BY DEF StartInv
  <1>2. Ends(p) /\ UNCHANGED <<asked, pos>>
    BY DEF Abandon, ResumeExpired, AlreadyThere, RunEnds
  <1>3. PICK st : runs' = [runs EXCEPT ![j].status = st]
    BY DEF Abandon, ResumeExpired, AlreadyThere, RunEnds
  <1>4. /\ proc[p].pc \in {"reconcile", "plan", "execute"}
        /\ proc[p].pc = "plan" => proc[p].cmd.select = "resume"
    BY DEF Abandon, ResumeExpired, AlreadyThere, RunEnds, Continues, Reconciled, Cmd
  <1>5. j \in Ids /\ IncompleteOf(runs[j], proc[p].cmd.agent) /\ proc[p].pc \in Active
    BY <1>1, <1>4, StartupBounds DEF Fine, Active, Ids
  <1>6. RunFine(runs[j]) /\ RunTyped(runs[j]) /\ Accounted(runs[j], asked[j], pos)
    BY <1>5 DEF StartInv, PlanInv
  <1> DEFINE r == runs'[j]
  <1>7. /\ r.stage = runs[j].stage /\ r.print = runs[j].print /\ r.symbol = runs[j].symbol
        /\ r.side = runs[j].side /\ r.deadline = runs[j].deadline /\ r.agent = runs[j].agent
        /\ r.master = runs[j].master /\ r.open = runs[j].open /\ r.filled = runs[j].filled
    BY <1>1, <1>3, <1>5, <1>6 DEF RunFine, RunFields, NoRun
  <1>8. \A i \in Ids : i # j => runs'[i] = runs[i] /\ asked'[i] = asked[i]
    BY <1>2, <1>3, <1>1
  <1>9. /\ proc'[p] = [Off EXCEPT !.pc = "ended"]
        /\ \A q \in Procs : q # p => proc'[q] = proc[q]
    BY <1>1, <1>2 DEF Ends
  <1>10. DOMAIN asked' = Ids /\ pos' \in [Agents -> Int] /\ pos' = pos /\ asked' = asked
    BY <1>2 DEF PlanInv
  <1> HIDE DEF j, r
  <1>11. Written(runs[j], asked[j]) => Written(r, asked[j])
    BY <1>7, SameRun
  <1>12. RunTyped(r) /\ Accounted(r, asked[j], pos)
    BY <1>5, <1>6, <1>7, <1>11 DEF RunTyped, Accounted, TradedWithin, IncompleteOf
  <1>13. Knows(proc'[p], runs', asked', pos')
    BY <1>9, EndedKnows
  <1>14. RunTyped(runs'[j]) /\ Accounted(runs'[j], asked'[j], pos') /\ j = proc[p].run
    BY <1>10, <1>12 DEF r, j
  <1> QED BY <1>5, <1>8, <1>9, <1>10, <1>13, <1>14, OwnPlans

(* A run is identified, and its fingerprint compared, before its price is  *)
(* asked for.                                                              *)
LEMMA MatchPlans ==
    ASSUME StartInv, PlanInv, NEW p \in Procs, Probe(p) \/ ResumeMatches(p) \/ SeesPrice(p)
    PROVE  PlanInv'
  <1> DEFINE s == proc[p]
             n == proc'[p]
  <1>1. DOMAIN proc = Procs /\ DOMAIN s = ProcFields /\ s.pc \in Active /\ Fine(s, runs)
    BY DEF StartInv, Fine, Active, Probe, ResumeMatches, Continues, Reconciled, SeesPrice
  <1>2. Accepted(s.cmd) /\ s.cmd.live /\ (s.run # 0 => Resumes(s, runs[s.run]))
    BY <1>1 DEF PlanInv, Told
  <1>3. /\ \A q \in Procs : q # p => proc'[q] = proc[q]
        /\ UNCHANGED <<runs, asked, pos>>
    BY <1>1 DEF Probe, ResumeMatches, SeesPrice, Goes
  <1>4. CASE Probe(p)
    <2>1. n.pc = (IF s.cmd.select = "new" THEN "price" ELSE "reconcile") /\ n.cmd = s.cmd
          /\ n.run = s.run
      BY <1>1, <1>4 DEF Probe, Goes, Cmd, ProcFields, Off
    <2>2. s.cmd.select = "resume" => Readable(runs[s.run])
      BY <1>4 DEF Probe, Identified, Cmd, MyRun
    <2>3. Knows(n, runs, asked, pos)
      <3> HIDE DEF s, n
      <3> QED BY <1>2, <2>1, <2>2 DEF Knows, Told, Begins, Resumes, Executes
    <2> QED BY <1>1, <1>3, <2>3, QuietPlans
  <1>5. CASE ResumeMatches(p)
    <2>1. n.pc = "price" /\ n.cmd = s.cmd /\ n.run = s.run /\ s.pc = "reconcile"
          /\ s.cmd.select = "resume" /\ MayResume(s.cmd, runs[s.run].print, MasterOf[s.cmd.agent])
      BY <1>1, <1>5 DEF ResumeMatches, Continues, Reconciled, Matches, Goes, Cmd, MyRun, Agent,
         ProcFields, Off
    <2>2. Knows(n, runs, asked, pos)
      <3> HIDE DEF s, n
      <3> QED BY <1>2, <2>1 DEF Knows, Told, Begins, Resumes, Executes
    <2> QED BY <1>1, <1>3, <2>2, QuietPlans
  <1>6. CASE SeesPrice(p)
    <2>1. PICK mid \in Mids : proc' = [proc EXCEPT ![p].pc = "plan", ![p].mid = mid]
      BY <1>6 DEF SeesPrice
    <2>2. n.pc = "plan" /\ n.cmd = s.cmd /\ n.run = s.run /\ n.mid \in Mids /\ s.pc = "price"
      BY <1>1, <1>6, <2>1 DEF SeesPrice, ProcFields, Off
    <2>3. Knows(n, runs, asked, pos)
      <3> HIDE DEF s, n
      <3> QED BY <1>2, <2>2 DEF Knows, Told, Begins, Resumes, Executes
    <2> QED BY <1>1, <1>3, <2>3, QuietPlans
  <1> QED BY <1>4, <1>5, <1>6

(* A fill is credited to the run and to the account: what is left of the   *)
(* plan and the way left to its target shrink by the same lots.            *)
LEMMA CreditedRun ==
    ASSUME NEW r, RunFine(r), RunTyped(r), r.stage = "header", NEW plan,
           NEW fill \in {0, r.open}
    PROVE  /\ RunTyped(Credited(r, fill)) /\ fill \in Nat
           /\ Written(r, plan) => Written(Credited(r, fill), plan)
           /\ Readable(r) => Readable(Credited(r, fill))
           /\ \A t : OwnPrint(t, r, plan) => OwnPrint(t, Credited(r, fill), plan)
           /\ Credited(r, fill).filled = r.filled + fill /\ Credited(r, fill).open = 0
           /\ Credited(r, fill).print = r.print /\ Credited(r, fill).deadline = r.deadline
           /\ Credited(r, fill).side = r.side /\ Credited(r, fill).agent = r.agent
           /\ Credited(r, fill).stage = r.stage /\ Credited(r, fill).status = r.status
  <1> DEFINE c == Credited(r, fill)
  <1>1. /\ r.open \in Nat /\ r.filled \in Nat /\ r.side \in {-1, 0, 1} /\ fill \in Nat
    BY DEF RunTyped
  <1>2. /\ c.stage = r.stage /\ c.print = r.print /\ c.symbol = r.symbol /\ c.side = r.side
        /\ c.deadline = r.deadline /\ c.agent = r.agent /\ c.master = r.master
        /\ c.status = r.status /\ c.open = 0 /\ c.filled = r.filled + fill
    BY DEF RunFine, RunFields, NoRun, Credited
  <1> HIDE DEF c
  <1>3. RunTyped(c)
    BY <1>1, <1>2 DEF RunTyped
  <1>4. /\ Written(r, plan) => Written(c, plan)
        /\ Readable(r) => Readable(c)
        /\ \A t : OwnPrint(t, r, plan) => OwnPrint(t, c, plan)
    BY <1>2, SameRun
  <1> QED BY <1>1, <1>2, <1>3, <1>4 DEF c

LEMMA CreditedAccount ==
    ASSUME NEW plan, plan.initial \in Int, LogicalTotal(plan) \in Int, NEW r, RunTyped(r),
           NEW c, NEW fill \in {0, r.open}, NEW x \in Int, TradedWithin(r, plan, x),
           c.filled = r.filled + fill, c.open = 0, c.side = r.side, c.print = r.print
    PROVE  TradedWithin(c, plan, ApplySignedFill(x, r.side, fill))
  <1>1. /\ r.open \in Nat /\ r.filled \in Nat /\ r.side \in {-1, 0, 1} /\ fill \in Nat
    BY DEF RunTyped
  <1>2. c.filled + c.open <= LogicalTotal(plan)
    BY <1>1 DEF TradedWithin
  <1>3. ASSUME r.print.mode \in PositionModes
        PROVE  ApplySignedFill(x, r.side, fill) = ApplySignedFill(plan.initial, c.side, c.filled)
    <2>1. x = ApplySignedFill(plan.initial, r.side, r.filled)
      BY <1>3 DEF TradedWithin
    <2> QED BY <1>1, <2>1 DEF ApplySignedFill
  <1> QED BY <1>2, <1>3 DEF TradedWithin

(* An order is settled: after a restart, or by the process that sent it. *)
LEMMA CreditPlans ==
    ASSUME StartInv, PlanInv, NEW p \in Procs, Reconcile(p) \/ SettleOrder(p)
    PROVE  PlanInv'
  <1> DEFINE j == proc[p].run
             s == proc[p]
             n == proc'[p]
             a == proc[p].cmd.agent
  <1>1. DOMAIN proc = Procs /\ DOMAIN runs = Ids /\ Fine(s, runs) /\ s.pc \in {"reconcile", "execute"}
    BY DEF StartInv, Reconcile, SettleOrder
  <1>2. /\ s.pc \in Active /\ j \in Ids /\ IncompleteOf(runs[j], a) /\ DOMAIN s = ProcFields
        /\ s.cmd \in Commands /\ j # 0
    BY <1>1, StartupBounds DEF Fine, Active, Ids
  <1>3. a \in Agents
    BY <1>2, CommandsOwned
  <1>4. RunFine(runs[j]) /\ RunTyped(runs[j]) /\ Accounted(runs[j], asked[j], pos)
    BY <1>2 DEF StartInv, PlanInv
  <1>5. /\ DOMAIN asked = Ids /\ pos \in [Agents -> Int] /\ Knows(s, runs, asked, pos)
    BY DEF PlanInv, Knows
  <1>6. PICK fill \in {0, runs[j].open} :
            /\ runs' = [runs EXCEPT ![j] = Credited(runs[j], fill)]
            /\ pos' = [pos EXCEPT ![a] = ApplySignedFill(pos[a], runs[j].side, fill)]
            /\ asked' = asked
            /\ IF s.pc = "reconcile" THEN proc' = proc
               ELSE proc' = [proc EXCEPT ![p].todo = proc[p].todo - fill, ![p].sent = FALSE]
    <2>1. CASE Reconcile(p)
      BY <1>2, <1>3, <2>1 DEF Reconcile, MyRun, Agent, Cmd
    <2>2. CASE SettleOrder(p)
      BY <1>1, <1>2, <1>3, <2>2 DEF SettleOrder, MyRun, Agent, Cmd
    <2> QED BY <2>1, <2>2
  <1> DEFINE r == Credited(runs[j], fill)
  <1>7. /\ RunTyped(r) /\ Accounted(r, asked[j], pos')
        /\ pos' \in [Agents -> Int] /\ \A b \in Agents : b # a => pos'[b] = pos[b]
        /\ r.filled = runs[j].filled + fill /\ fill \in Nat
        /\ Readable(runs[j]) => Readable(r)
        /\ \A t : OwnPrint(t, runs[j], asked[j]) => OwnPrint(t, r, asked[j])
        /\ r.print = runs[j].print /\ r.deadline = runs[j].deadline
    <2>1. runs[j].stage = "header" /\ runs[j].agent = a
      BY <1>2 DEF IncompleteOf
    <2>2. pos[a] \in Int /\ runs[j].side \in Int /\ fill \in Int
      BY <1>3, <1>4, <1>5, <1>6 DEF RunTyped
    <2>3. ApplySignedFill(pos[a], runs[j].side, fill) \in Int
      BY <2>2 DEF ApplySignedFill
    <2>4. /\ pos' \in [Agents -> Int] /\ pos'[a] = ApplySignedFill(pos[a], runs[j].side, fill)
          /\ \A b \in Agents : b # a => pos'[b] = pos[b]
      BY <1>3, <1>5, <1>6, <2>3
    <2> HIDE DEF j, a
    <2>5. /\ RunTyped(r) /\ fill \in Nat
          /\ Written(runs[j], asked[j]) => Written(r, asked[j])
          /\ Readable(runs[j]) => Readable(r)
          /\ \A t : OwnPrint(t, runs[j], asked[j]) => OwnPrint(t, r, asked[j])
          /\ r.filled = runs[j].filled + fill /\ r.open = 0
          /\ r.print = runs[j].print /\ r.deadline = runs[j].deadline
          /\ r.side = runs[j].side /\ r.agent = runs[j].agent
          /\ r.stage = runs[j].stage /\ r.status = runs[j].status
      BY <1>4, <2>1, CreditedRun
    <2> HIDE DEF r
    <2>6. Accounted(r, asked[j], pos')
      <3> SUFFICES ASSUME runs[j].print # NoValue
                   PROVE  Written(r, asked[j]) /\ (r.status = "incomplete" => TradedWithin(r, asked[j], pos'[a]))
        BY <2>1, <2>5 DEF Accounted
      <3>1. Written(runs[j], asked[j]) /\ (runs[j].status = "incomplete" => TradedWithin(runs[j], asked[j], pos[a]))
        BY <1>4, <2>1 DEF Accounted
      <3>2. asked[j].initial \in Int /\ LogicalTotal(asked[j]) \in Int
        BY <3>1, WrittenTyped
      <3>3. runs[j].status = "incomplete" => TradedWithin(r, asked[j], pos'[a])
        BY <1>4, <2>2, <2>4, <2>5, <3>1, <3>2, CreditedAccount
      <3> QED BY <2>5, <3>1, <3>3
    <2> QED BY <2>4, <2>5, <2>6
  <1>8. /\ runs'[j] = r /\ asked'[j] = asked[j]
        /\ \A i \in Ids : i # j => runs'[i] = runs[i] /\ asked'[i] = asked[i]
    BY <1>1, <1>2, <1>6
  <1>9. \A q \in Procs : q # p => proc'[q] = proc[q]
    BY <1>1, <1>6
  <1>10. /\ n.pc = s.pc /\ n.cmd = s.cmd /\ n.run = j /\ n.mid = s.mid /\ n.plan = s.plan
         /\ s.pc = "execute" => n.todo = s.todo - fill
    BY <1>1, <1>2, <1>6 DEF ProcFields, Off
  <1> HIDE DEF r
  <1>11. Told(n) /\ Begins(n, pos'[n.cmd.agent])
    <2> HIDE DEF s, n, j
    <2> QED BY <1>1, <1>5, <1>10 DEF Knows, Told, Begins
  <1>12. Resumes(n, r)
    <2> HIDE DEF s, n, j
    <2>1. Resumes(s, runs[j])
      BY <1>2, <1>5 DEF Knows, j, s
    <2> QED BY <1>7, <1>10, <2>1 DEF Resumes
  <1>13. Executes(n, r, asked[j])
    <2> SUFFICES ASSUME s.pc = "execute" PROVE Executes(n, r, asked[j])
      BY <1>1, <1>10 DEF Executes
    <2>1. Executes(s, runs[j], asked[j])
      BY <1>2, <1>5 DEF Knows
    <2>2. /\ s.todo \in Nat /\ runs[j].filled + s.todo = LogicalTotal(asked[j])
          /\ runs[j].print # NoValue /\ s.cmd.select # "abandon" /\ s.plan.sizing.per \in Nat \ {0}
          /\ s.cmd.mode = "flatten" =>
                s.cmd.token = Token(s.cmd, asked[j], MasterOf[a], runs[j].deadline)
          /\ s.cmd.select = "new" => OwnPrint(s, runs[j], asked[j])
      BY <2>1 DEF Executes
    <2>3. /\ runs[j].filled + runs[j].open <= LogicalTotal(asked[j])
          /\ runs[j].filled \in Nat /\ runs[j].open \in Nat
      BY <1>2, <1>4, <2>2 DEF Accounted, TradedWithin, RunTyped, IncompleteOf
    <2> HIDE DEF s, n, j
    <2>4. LogicalTotal(asked[j]) \in Int /\ fill <= s.todo
      BY <1>6, <2>2, <2>3
    <2>5. n.todo \in Nat /\ r.filled + n.todo = LogicalTotal(asked[j])
      BY <1>7, <1>10, <2>2, <2>3, <2>4
    <2>6. OwnPrint(s, r, asked[j]) => OwnPrint(n, r, asked[j])
      BY <1>10 DEF OwnPrint
    <2> QED BY <1>7, <1>10, <2>2, <2>5, <2>6 DEF Executes, a, s
  <1>14. Knows(n, runs', asked', pos')
    BY <1>8, <1>10, <1>11, <1>12, <1>13 DEF Knows
  <1> HIDE DEF s, n
  <1> QED BY <1>2, <1>5, <1>6, <1>7, <1>8, <1>9, <1>14, OwnPlans DEF s, n

(* An order is sent, of what is still to be done. *)
LEMMA SendPlans ==
    ASSUME StartInv, PlanInv, NEW p \in Procs, SendOrder(p)
    PROVE  PlanInv'
  <1> DEFINE j == proc[p].run
             s == proc[p]
             n == proc'[p]
             per == proc[p].plan.sizing.per
             size == IF proc[p].todo < 2 * per THEN proc[p].todo ELSE per
             r == [runs[j] EXCEPT !.open = size]
  <1>1. /\ DOMAIN proc = Procs /\ DOMAIN runs = Ids /\ Fine(s, runs) /\ s.pc = "execute"
        /\ s.todo > 0 /\ runs[j].open = 0
    BY DEF StartInv, SendOrder, MyRun
  <1>2. /\ s.pc \in Active /\ j \in Ids /\ IncompleteOf(runs[j], s.cmd.agent)
        /\ DOMAIN s = ProcFields /\ j # 0
    BY <1>1, StartupBounds DEF Fine, Active, Ids
  <1>3. RunFine(runs[j]) /\ RunTyped(runs[j]) /\ Accounted(runs[j], asked[j], pos)
    BY <1>2 DEF StartInv, PlanInv
  <1>4. DOMAIN asked = Ids /\ pos \in [Agents -> Int] /\ Knows(s, runs, asked, pos)
    BY DEF PlanInv, Knows
  <1>5. runs' = [runs EXCEPT ![j].open = size] /\ proc' = [proc EXCEPT ![p].sent = TRUE]
        /\ asked' = asked /\ pos' = pos
    BY DEF SendOrder
  <1> HIDE DEF size, per
  <1>6. /\ runs'[j] = r
        /\ \A i \in Ids : i # j => runs'[i] = runs[i] /\ asked'[i] = asked[i]
    BY <1>1, <1>2, <1>5
  <1>7. /\ n.pc = s.pc /\ n.cmd = s.cmd /\ n.run = j /\ n.mid = s.mid /\ n.plan = s.plan
        /\ n.todo = s.todo /\ \A q \in Procs : q # p => proc'[q] = proc[q]
    BY <1>1, <1>2, <1>5 DEF ProcFields, Off
  <1>8. /\ r.stage = runs[j].stage /\ r.print = runs[j].print /\ r.symbol = runs[j].symbol
        /\ r.side = runs[j].side /\ r.deadline = runs[j].deadline /\ r.agent = runs[j].agent
        /\ r.master = runs[j].master /\ r.status = runs[j].status /\ r.open = size
        /\ r.filled = runs[j].filled
    BY <1>3 DEF RunFine, RunFields, NoRun
  <1>9. /\ s.todo \in Nat /\ runs[j].filled + s.todo = LogicalTotal(asked[j])
        /\ runs[j].print # NoValue /\ per \in Nat \ {0}
    BY <1>1, <1>2, <1>4 DEF Knows, Executes, per
  <1>10. runs[j].filled \in Nat
    BY <1>3 DEF RunTyped
  <1> HIDE DEF s, n, j, r
  <1>11. size \in Nat /\ size <= s.todo
    BY <1>9 DEF size, s
  <1>12. /\ Written(runs[j], asked[j]) => Written(r, asked[j])
         /\ Readable(runs[j]) => Readable(r)
         /\ \A t : OwnPrint(t, runs[j], asked[j]) => OwnPrint(t, r, asked[j])
    BY <1>8, SameRun
  <1>13. RunTyped(r)
    BY <1>3, <1>8, <1>11 DEF RunTyped
  <1>14. r.filled + r.open <= LogicalTotal(asked[j])
    <2>1. runs[j].filled + size <= runs[j].filled + s.todo
      BY <1>9, <1>10, <1>11
    <2> QED BY <1>8, <1>9, <2>1
  <1>15. Accounted(r, asked[j], pos)
    BY <1>3, <1>8, <1>12, <1>14 DEF Accounted, TradedWithin
  <1>16. Told(n) /\ Begins(n, pos[n.cmd.agent])
    BY <1>1, <1>4, <1>7 DEF Knows, Told, Begins
  <1>17. Resumes(s, runs[j]) /\ Executes(s, runs[j], asked[j])
    BY <1>2, <1>4 DEF Knows, s, j
  <1>18. Resumes(n, r)
    BY <1>7, <1>8, <1>12, <1>17 DEF Resumes
  <1>19. OwnPrint(s, r, asked[j]) => OwnPrint(n, r, asked[j])
    BY <1>7 DEF OwnPrint
  <1>20. Executes(n, r, asked[j])
    BY <1>7, <1>8, <1>12, <1>17, <1>19 DEF Executes
  <1>21. Knows(n, runs', asked', pos')
    BY <1>5, <1>6, <1>7, <1>16, <1>18, <1>20 DEF Knows
  <1>22. RunTyped(runs'[j]) /\ Accounted(runs'[j], asked'[j], pos')
    BY <1>5, <1>6, <1>13, <1>15
  <1>23. /\ DOMAIN asked' = Ids /\ pos' \in [Agents -> Int] /\ pos' = pos
         /\ \A a \in Agents : a # proc[p].cmd.agent => pos'[a] = pos[a]
    BY <1>4, <1>5
  <1>24. /\ proc[p].pc \in Active /\ j \in Ids /\ j = proc[p].run
         /\ Knows(proc'[p], runs', asked', pos')
    BY <1>2, <1>21 DEF s, n, j
  <1> QED BY <1>6, <1>7, <1>22, <1>23, <1>24, OwnPlans

(* The directory and the file of a run come before anything is in them. *)
LEMMA MakePlans ==
    ASSUME StartInv, PlanInv, NEW p \in Procs, MakeDir(p) \/ MakeFile(p)
    PROVE  PlanInv'
  <1> DEFINE s == proc[p]
             n == proc'[p]
             j == IF s.pc = "mkdir" THEN FreshId ELSE s.run
             r == runs'[j]
  <1>1. /\ DOMAIN proc = Procs /\ DOMAIN runs = Ids /\ Fine(s, runs) /\ s.pc \in {"mkdir", "create"}
        /\ s.pc \in Active /\ asked' = asked /\ pos' = pos
    BY DEF StartInv, MakeDir, MakeFile, Active
  <1>2. /\ j \in Ids /\ j # 0 /\ runs[j].stage \in {"none", "dir"}
        /\ j = s.run \/ runs[j].stage = "none"
        /\ runs' = [runs EXCEPT ![j].stage = IF s.pc = "mkdir" THEN "dir" ELSE "file"]
        /\ n.pc = (IF s.pc = "mkdir" THEN "create" ELSE "header")
        /\ n.cmd = s.cmd /\ n.run = j /\ n.mid = s.mid /\ n.plan = s.plan /\ n.todo = s.todo
        /\ \A q \in Procs : q # p => proc'[q] = proc[q]
    <2>1. CASE MakeDir(p)
      <3>1. FreshId \in Ids /\ runs[FreshId].stage = "none" /\ s.pc = "mkdir"
        BY <2>1, FreshIsNew DEF MakeDir
      <3>2. 0 \notin Ids
        BY DEF Ids
      <3>3. /\ runs' = [runs EXCEPT ![FreshId].stage = "dir"]
            /\ proc' = [proc EXCEPT ![p].run = FreshId, ![p].pc = "create"]
        BY <2>1 DEF MakeDir
      <3> QED BY <1>1, <3>1, <3>2, <3>3 DEF Fine, ProcFields, Off
    <2>2. CASE MakeFile(p)
      <3>1. s.pc = "create" /\ s.run \in Ids /\ s.run # 0 /\ runs[s.run].stage = "dir"
        BY <1>1, <2>2, StartupBounds DEF MakeFile, Fine, Ids
      <3>2. /\ runs' = [runs EXCEPT ![s.run].stage = "file"]
            /\ proc' = [proc EXCEPT ![p].pc = "header"]
        BY <2>2 DEF MakeFile, Goes
      <3> QED BY <1>1, <3>1, <3>2 DEF Fine, ProcFields, Off
    <2> QED BY <2>1, <2>2
  <1> HIDE DEF j
  <1>3. RunFine(runs[j]) /\ RunTyped(runs[j])
    BY <1>2 DEF StartInv, PlanInv
  <1>4. /\ r.stage \in {"dir", "file"} /\ r.open = runs[j].open /\ r.side = runs[j].side
        /\ r.filled = runs[j].filled
    BY <1>1, <1>2, <1>3 DEF RunFine, RunFields, NoRun
  <1>5. RunTyped(r) /\ Accounted(r, asked'[j], pos')
    BY <1>2, <1>3, <1>4 DEF RunTyped, Accounted
  <1>6. Knows(s, runs, asked, pos) /\ DOMAIN asked = Ids /\ pos \in [Agents -> Int]
    BY DEF PlanInv, Knows
  <1>7. Knows(n, runs', asked', pos')
    <2> HIDE DEF s, n
    <2>1. Told(s) /\ Begins(s, pos[s.cmd.agent])
      BY <1>1, <1>6 DEF Knows
    <2>2. Told(n) /\ Begins(n, pos[s.cmd.agent]) /\ n.cmd.select = "new" /\ n.pc # "execute"
      BY <1>1, <1>2, <2>1 DEF Told, Begins
    <2> QED BY <1>1, <1>2, <2>2 DEF Knows, Resumes, Executes
  <1>8. /\ \A i \in Ids : i # j => runs'[i] = runs[i] /\ asked'[i] = asked[i]
        /\ DOMAIN asked' = Ids /\ pos' \in [Agents -> Int]
        /\ \A a \in Agents : a # proc[p].cmd.agent => pos'[a] = pos[a]
    BY <1>1, <1>2, <1>6
  <1>9. proc[p].pc \in Active /\ j \in Ids /\ (j = proc[p].run \/ runs[j].stage = "none") /\ pos' = pos
    BY <1>1, <1>2
  <1> QED BY <1>2, <1>5, <1>7, <1>8, <1>9, OwnPlans

(* What a process writes of a plan is a fingerprint. *)
LEMMA PrintTyped ==
    ASSUME NEW c \in Commands, Accepted(c), NEW mid \in Mids, NEW x \in Int, NEW plan,
           plan = PlanOf(c, mid, x), NEW m \in STRING, NEW d \in Nat
    PROVE  Fingerprint(c, plan, mid, m, d) \in Prints
  <1> DEFINE f == Fingerprint(c, plan, mid, m, d)
  <1>1. \A y \in Int : Plain(y) \in Decimals
    BY DEF Plain, Canonical, Spelled, ScaleOf, Decimals
  <1>2. /\ plan.initial \in Int /\ plan.target \in Int /\ plan.side \in {-1, 0, 1}
        /\ plan.sizing.total \in Int /\ plan.sizing.per \in Int /\ plan.sizing.adjusted \in Int
    BY PlanTyped
  <1>3. /\ c.mode \in PositionModes \cup OrdinaryModes /\ c.agent \in STRING /\ c.symbol \in STRING
        /\ c.slices \in Nat /\ c.knobs \in STRING /\ c.slippage \in Int /\ c.cap \in {NoValue} \cup Int
        /\ c.lots \in Int /\ mid \in Nat
    BY CommandsTyped, StartupBounds DEF RequestOptions, ExecutionOptions, RunOptions, Accepted
  <1>4. RequestedValue(c) \in {NoValue} \cup Decimals
    BY <1>3 DEF RequestedValue, Value, Canonical, Spelled, ScaleOf, Decimals
  <1>5. Signed(c, plan, "initial") \in {NoValue} \cup Decimals
        /\ Signed(c, plan, "target") \in {NoValue} \cup Decimals
    BY <1>1, <1>2 DEF Signed
  <1> DEFINE Kinds == {"adjust", "close", "open"}
             PhaseSet == [kind : Kinds, side : {-1, 0, 1}, size : Int, reduceOnly : BOOLEAN]
             PrintSet == [kind : Kinds, side : {-1, 0, 1}, size : Decimals, reduceOnly : BOOLEAN]
  <1>6. plan.phases \in Seq(PhaseSet)
    <2>1. \A k \in Kinds, y \in Int, b \in BOOLEAN : Phase(k, y, b) \in PhaseSet
      BY DEF Phase, Sign, Magnitude
    <2>2. ASSUME NEW i \in Int, NEW t \in Int PROVE PhasesFor(i, t) \in Seq(PhaseSet)
      <3> DEFINE reduces == /\ i # 0
                            /\ \/ t = 0
                               \/ Sign(i) = Sign(t) /\ Magnitude(t) < Magnitude(i)
      <3>1. reduces \in BOOLEAN
        OBVIOUS
      <3>2. \/ PhasesFor(i, t) = <<>>
            \/ PhasesFor(i, t) = <<Phase("close", -i, TRUE), Phase("open", t, FALSE)>>
            \/ PhasesFor(i, t) = <<Phase("adjust", t - i, reduces)>>
        BY DEF PhasesFor
      <3> HIDE DEF reduces
      <3>3. /\ Phase("close", -i, TRUE) \in PhaseSet /\ Phase("open", t, FALSE) \in PhaseSet
            /\ Phase("adjust", t - i, reduces) \in PhaseSet
        <4>1. -i \in Int /\ t - i \in Int
          OBVIOUS
        <4>2. "close" \in Kinds /\ "open" \in Kinds /\ "adjust" \in Kinds
          OBVIOUS
        <4>3. TRUE \in BOOLEAN /\ FALSE \in BOOLEAN
          OBVIOUS
        <4> HIDE DEF PhaseSet, Kinds
        <4> QED BY <2>1, <3>1, <4>1, <4>2, <4>3, Zenon
      <3>4. \A S : \A u, v \in S : <<>> \in Seq(S) /\ <<u>> \in Seq(S) /\ <<u, v>> \in Seq(S)
        OBVIOUS
      <3> HIDE DEF PhaseSet
      <3>5. /\ <<>> \in Seq(PhaseSet)
            /\ <<Phase("close", -i, TRUE), Phase("open", t, FALSE)>> \in Seq(PhaseSet)
            /\ <<Phase("adjust", t - i, reduces)>> \in Seq(PhaseSet)
        BY <3>3, <3>4
      <3> QED BY <3>2, <3>5
    <2>3. CASE PositionMode(c)
      <3>1. TargetOf(c, mid) \in Int
        BY StartupBounds, TargetInt
      <3>2. plan.phases = PhasesFor(x, TargetOf(c, mid))
        BY <2>3, PositionPlanIs
      <3> HIDE DEF PhaseSet
      <3> QED BY <2>2, <3>1, <3>2
    <2>4. CASE ~PositionMode(c)
      <3>1. plan.phases = <<>>
        BY <2>4 DEF PlanOf
      <3> HIDE DEF PhaseSet
      <3> QED BY <3>1
    <2> QED BY <2>3, <2>4
  <1>7. [i \in DOMAIN plan.phases |-> PhasePrint(plan.phases[i])] \in Seq(PrintSet)
    <2>1. \A ph \in PhaseSet : PhasePrint(ph) \in PrintSet
      BY <1>1 DEF PhasePrint
    <2> HIDE DEF PhaseSet, PrintSet
    <2>2. \A i \in DOMAIN plan.phases : PhasePrint(plan.phases[i]) \in PrintSet
      BY <1>6, <2>1
    <2>3. DOMAIN plan.phases = 1..Len(plan.phases) /\ Len(plan.phases) \in Nat
      BY <1>6
    <2> QED BY <2>2, <2>3
  <1> HIDE DEF PhaseSet
  <1>8. Plain(plan.sizing.total) \in Decimals /\ Plain(plan.sizing.per) \in Decimals
        /\ Plain(plan.sizing.adjusted) \in Decimals
    BY <1>1, <1>2
  <1>9. (IF c.mode = "target_usd" THEN mid ELSE NoValue) \in {NoValue} \cup Nat
    BY <1>3
  <1> QED BY <1>2, <1>3, <1>4, <1>5, <1>7, <1>8, <1>9 DEF Fingerprint, Prints

(* A plan is the one of the position it begins with, and its slices are    *)
(* what its sizing says.                                                   *)
LEMMA PlanAgain ==
    ASSUME NEW c \in Commands, Accepted(c), NEW mid \in Mids, NEW x \in Int, NEW plan,
           plan = PlanOf(c, mid, x)
    PROVE  /\ plan = PlanOf(c, mid, plan.initial)
           /\ PositionMode(c) => plan.initial = x
           /\ plan.sizing.per = PerSliceOf(plan.sizing.total, c.slices)
           /\ Sized(c, plan, mid) => plan.sizing.per \in Nat \ {0}
  <1>1. PositionMode(c) => PlanOf(c, mid, x).initial = x
    BY PositionPlanIs
  <1>2. ~PositionMode(c) => \A y : PlanOf(c, mid, x) = PlanOf(c, mid, y)
    BY OrdinaryAnywhere
  <1>3. plan.sizing.per = PerSliceOf(plan.sizing.total, c.slices)
    BY DEF PlanOf, PositionPlanTo, Sizing
  <1>4. plan.sizing.per \in Int
    BY PlanTyped
  <1>5. Sized(c, plan, mid) => plan.sizing.per > 0
    BY <1>3 DEF Sized, SizingAccepted
  <1>6. Sized(c, plan, mid) => plan.sizing.per \in Nat \ {0}
    BY <1>4, <1>5
  <1>7. plan = PlanOf(c, mid, plan.initial) /\ (PositionMode(c) => plan.initial = x)
    BY <1>1, <1>2
  <1> QED BY <1>3, <1>6, <1>7

(* The Header is written: the run is begun for the plan that was made. *)
LEMMA HeaderPlans ==
    ASSUME StartInv, PlanInv, NEW p \in Procs, WriteHeader(p)
    PROVE  PlanInv'
  <1> DEFINE j == proc[p].run
             s == proc[p]
             n == proc'[p]
             c == proc[p].cmd
             a == proc[p].cmd.agent
             plan == proc[p].plan
             old == runs[j]
             d == IF DeadlineOf(p) = Unset THEN j ELSE DeadlineOf(p)
             f == Fingerprint(c, plan, s.mid, MasterOf[a], d)
             r == runs'[j]
  <1>1. /\ DOMAIN proc = Procs /\ DOMAIN runs = Ids /\ Fine(s, runs) /\ s.pc = "header"
    BY DEF StartInv, WriteHeader
  <1>2. /\ s.pc \in Active /\ j \in Ids /\ j # 0 /\ DOMAIN s = ProcFields /\ c \in Commands
        /\ old.stage = "file"
    BY <1>1, StartupBounds DEF Fine, Active, Ids
  <1>3. a \in Agents /\ MasterOf[a] \in STRING
    BY <1>2, CommandsOwned, AccountsTyped
  <1>4. RunFine(old) /\ RunTyped(old)
    BY <1>2 DEF StartInv, PlanInv
  <1>5. /\ DOMAIN asked = Ids /\ pos \in [Agents -> Int] /\ Knows(s, runs, asked, pos)
    BY DEF PlanInv, Knows
  <1>6. /\ c.select = "new" /\ plan = PlanOf(c, s.mid, pos[a]) /\ s.todo = LogicalTotal(plan)
        /\ Sized(c, plan, s.mid)
        /\ c.mode = "flatten" =>
              c.deadline # NoValue /\ c.token = Token(c, plan, MasterOf[a], c.deadline)
        /\ Accepted(c) /\ c.live /\ s.mid \in Mids
    BY <1>1, <1>2, <1>5 DEF Knows, Begins, Told
  <1>7. pos[a] \in Int
    BY <1>3, <1>5
  <1>8. d \in Nat /\ (c.deadline # NoValue => d = c.deadline)
    <2>1. c.deadline \in {NoValue} \cup Nat
      BY <1>2, CommandsTyped DEF RequestOptions
    <2>2. DeadlineOf(p) = IF c.deadline = NoValue THEN Unset ELSE c.deadline
      BY <1>6 DEF DeadlineOf, Cmd
    <2>3. j \in Nat
      BY <1>2, StartupBounds DEF Ids
    <2> QED BY <1>6, <2>1, <2>2, <2>3 DEF Unset
  <1>9. /\ runs' = [runs EXCEPT ![j] =
                      [old EXCEPT !.stage = "header", !.agent = a, !.master = MasterOf[a],
                                  !.symbol = c.symbol, !.side = plan.side, !.deadline = d,
                                  !.print = f]]
        /\ asked' = [asked EXCEPT ![j] = plan] /\ pos' = pos
        /\ proc' = [proc EXCEPT ![p].pc = "execute"]
    BY <1>2 DEF WriteHeader, Agent, Cmd, Goes
  <1> HIDE DEF d, f
  <1>10. /\ r.stage = "header" /\ r.agent = a /\ r.master = MasterOf[a] /\ r.symbol = c.symbol
         /\ r.side = plan.side /\ r.deadline = d /\ r.print = f /\ r.open = 0 /\ r.filled = 0
         /\ asked'[j] = plan
         /\ \A i \in Ids : i # j => runs'[i] = runs[i] /\ asked'[i] = asked[i]
    <2>1. old.open = 0 /\ old.filled = 0 /\ DOMAIN old = RunFields
      BY <1>2, <1>4 DEF RunFine, RunTyped
    <2> QED BY <1>1, <1>2, <1>5, <1>9, <2>1 DEF RunFields, NoRun
  <1>11. /\ n.pc = "execute" /\ n.cmd = c /\ n.run = j /\ n.mid = s.mid /\ n.plan = plan
         /\ n.todo = s.todo /\ \A q \in Procs : q # p => proc'[q] = proc[q]
    BY <1>1, <1>2, <1>9 DEF ProcFields, Off
  <1> HIDE DEF j, s, n, c, a, plan, old, r
  <1>12. /\ plan.initial \in Int /\ plan.side \in {-1, 0, 1} /\ LogicalTotal(plan) \in Int
    BY <1>2, <1>6, <1>7, PlanTyped
  <1>13. /\ plan = PlanOf(c, s.mid, plan.initial) /\ (PositionMode(c) => plan.initial = pos[a])
         /\ plan.sizing.per \in Nat \ {0}
    BY <1>2, <1>6, <1>7, PlanAgain
  <1>14. f \in Prints /\ f # NoValue
    <2>1. f \in Prints
      BY <1>2, <1>3, <1>6, <1>7, <1>8, PrintTyped DEF f, s, c, a, plan
    <2> QED BY <2>1, NoValueFresh
  <1>15. f = Fingerprint(c, plan, s.mid, r.master, r.deadline) /\ f.mode = c.mode
    BY <1>10 DEF f, s, c, a, plan, Fingerprint
  <1>16. Written(r, plan)
    <2>1. ChangedInOneSize(f, f)
      BY <1>14 DEF ChangedInOneSize, Prints
    <2> QED BY <1>2, <1>6, <1>10, <1>12, <1>13, <1>14, <1>15, <2>1 DEF Written
  <1>17. TradedWithin(r, plan, pos[a])
    <2>1. LogicalTotal(plan) > 0
      BY <1>6 DEF Sized
    <2>2. r.filled + r.open <= LogicalTotal(plan)
      BY <1>10, <1>12, <2>1
    <2>3. ASSUME r.print.mode \in PositionModes
          PROVE  pos[a] = ApplySignedFill(plan.initial, r.side, r.filled)
      BY <1>7, <1>10, <1>12, <1>13, <1>15, <2>3 DEF PositionMode, ApplySignedFill
    <2> QED BY <2>2, <2>3 DEF TradedWithin
  <1>18. RunTyped(r) /\ Accounted(r, plan, pos)
    BY <1>3, <1>10, <1>12, <1>16, <1>17 DEF RunTyped, Accounted
  <1>19. OwnPrint(n, r, plan)
    BY <1>6, <1>8, <1>10, <1>11, <1>12, <1>13, <1>15 DEF OwnPrint, a, c
  <1>20. Executes(n, r, plan)
    <2>1. n.todo \in Nat /\ r.filled + n.todo = LogicalTotal(plan)
      BY <1>6, <1>10, <1>11, <1>12 DEF Sized
    <2>2. c.mode = "flatten" => c.token = Token(c, plan, MasterOf[a], r.deadline)
      BY <1>6, <1>8, <1>10
    <2> QED BY <1>6, <1>10, <1>11, <1>13, <1>14, <1>19, <2>1, <2>2 DEF Executes, a, c
  <1>21. Told(n) /\ Begins(n, pos'[n.cmd.agent]) /\ Resumes(n, r)
    BY <1>6, <1>11 DEF Told, Begins, Resumes
  <1>22. Knows(n, runs', asked', pos')
    BY <1>10, <1>11, <1>20, <1>21 DEF Knows, r, j
  <1>23. RunTyped(runs'[j]) /\ Accounted(runs'[j], asked'[j], pos')
    BY <1>9, <1>10, <1>18 DEF r
  <1>24. /\ DOMAIN asked' = Ids /\ pos' \in [Agents -> Int] /\ pos' = pos
         /\ \A b \in Agents : b # proc[p].cmd.agent => pos'[b] = pos[b]
    BY <1>5, <1>9
  <1>25. /\ proc[p].pc \in Active /\ j \in Ids /\ j = proc[p].run
         /\ Knows(proc'[p], runs', asked', pos')
    BY <1>2, <1>22 DEF s, n, j
  <1> QED BY <1>10, <1>11, <1>23, <1>24, <1>25, OwnPlans

(* A plan is accepted.  A new run is begun for it; a run that is resumed   *)
(* goes on with what is left of the plan it was begun for.                 *)
LEMMA NewPlan ==
    ASSUME StartInv, PlanInv, NEW p \in Procs, Planned(p), Cmd(p).select = "new"
    PROVE  Knows(proc'[p], runs, asked, pos)
  <1> DEFINE s == proc[p]
             n == proc'[p]
             c == proc[p].cmd
             a == proc[p].cmd.agent
             plan == PlanOf(c, s.mid, pos[a])
  <1>1. /\ DOMAIN proc = Procs /\ Fine(s, runs) /\ s.pc = "plan" /\ s.pc \in Active
        /\ c.select = "new" /\ Executable(p)
    BY DEF StartInv, Planned, Active, Cmd
  <1>2. s.run = 0 /\ c \in Commands /\ DOMAIN s = ProcFields
    BY <1>1 DEF Fine
  <1>3. a \in Agents /\ pos \in [Agents -> Int] /\ Told(s)
    BY <1>2, CommandsOwned DEF PlanInv
  <1>4. pos[a] \in Int /\ Accepted(c) /\ c.live /\ s.mid \in Mids
    BY <1>1, <1>3 DEF Told
  <1>5. FrozenPlan(p) = plan
    BY <1>1 DEF FrozenPlan, Cmd, Agent
  <1>6. Continuation(p) = plan
    <2>1. CASE PositionMode(c)
      <3>1. plan = PositionPlanTo(plan.target, pos[a], c.slices)
        BY <2>1, PositionPlanIs
      <3> HIDE DEF plan
      <3> QED BY <1>5, <2>1, <3>1 DEF Continuation, Cmd, Agent
    <2>2. CASE ~PositionMode(c)
      BY <1>5, <2>2 DEF Continuation, Cmd
    <2> QED BY <2>1, <2>2
  <1>7. n.pc = "mkdir" /\ n.cmd = c /\ n.run = 0 /\ n.mid = s.mid /\ n.plan = plan
        /\ n.todo = Todo(p)
    <2>1. proc' = [proc EXCEPT ![p].pc = IF Cmd(p).select = "new" THEN "mkdir" ELSE "execute",
                               ![p].plan = Continuation(p), ![p].todo = Todo(p)]
      BY DEF Planned
    <2> HIDE DEF plan
    <2> QED BY <1>1, <1>2, <1>6, <2>1 DEF Cmd, ProcFields, Off
  <1>8. /\ plan.initial \in Int /\ plan.target \in Int /\ plan.sizing.adjusted \in Int
    BY <1>2, <1>4, PlanTyped
  <1>9. Todo(p) > 0
    BY <1>1 DEF Executable
  <1>10. Todo(p) = LogicalTotal(plan)
    <2>1. CASE PositionMode(c)
      <3>1. plan.initial = pos[a] /\ plan.phases = PhasesFor(pos[a], plan.target)
        BY <2>1, PositionPlanIs
      <3> HIDE DEF plan
      <3>2. Todo(p) = Magnitude(plan.target - pos[a])
        BY <1>6, <2>1 DEF Todo, Cmd, Agent
      <3>3. pos[a] # plan.target
        BY <1>8, <1>9, <3>2 DEF Magnitude
      <3>4. plan.phases # <<>>
        BY <1>4, <1>8, <3>1, <3>3, PhaseFacts
      <3> QED BY <3>1, <3>2, <3>4 DEF LogicalTotal
    <2>2. CASE ~PositionMode(c)
      <3>1. plan.phases = <<>>
        BY <2>2 DEF PlanOf
      <3> HIDE DEF plan
      <3>2. Todo(p) = plan.sizing.adjusted - 0
        BY <1>1, <1>5, <2>2 DEF Todo, Cmd
      <3> QED BY <1>8, <3>1, <3>2 DEF LogicalTotal
    <2> QED BY <2>1, <2>2
  <1>11. Sized(c, plan, s.mid)
    <2>1. (IF PositionMode(Cmd(p)) THEN Continuation(p) ELSE PlanOf(Cmd(p), proc[p].mid, 0)) = plan
      BY <1>6, OrdinaryAnywhere DEF Cmd
    <2> HIDE DEF plan
    <2>2. \A total \in {plan.sizing.total} \cup {plan.phases[i].size : i \in DOMAIN plan.phases} :
              SizingAccepted(total, c.slices, s.mid)
      BY <1>1, <2>1 DEF Executable, Cmd
    <2> QED BY <1>9, <1>10, <2>2 DEF Sized
  <1>12. ASSUME c.mode = "flatten"
         PROVE  /\ c.deadline # NoValue
                /\ c.token = Token(c, plan, MasterOf[a], c.deadline)
    <2>1. Confirmed(p)
      BY <1>1, <1>12 DEF Executable, Cmd
    <2>2. DeadlineOf(p) = IF c.deadline = NoValue THEN Unset ELSE c.deadline
      BY <1>1 DEF DeadlineOf, Cmd
    <2> HIDE DEF plan
    <2> QED BY <1>5, <2>1, <2>2 DEF Confirmed, Cmd, Agent
  <1> HIDE DEF plan
  <1>13. n.plan = PlanOf(c, s.mid, pos[a])
    BY <1>7 DEF plan
  <1> HIDE DEF s, n, c, a
  <1>14. Told(n)
    BY <1>4, <1>7 DEF Told, Active
  <1>15. Begins(n, pos[n.cmd.agent])
    <2>1. n.cmd.agent = a /\ c.select = "new" /\ n.cmd = c
      BY <1>1, <1>7 DEF a, c
    <2> QED BY <1>7, <1>10, <1>11, <1>12, <1>13, <2>1 DEF Begins
  <1> QED BY <1>7, <1>14, <1>15 DEF Knows, n

LEMMA ContinuedPlan ==
    ASSUME StartInv, PlanInv, NEW p \in Procs, Planned(p), Cmd(p).select # "new"
    PROVE  Knows(proc'[p], runs, asked, pos)
  <1> DEFINE s == proc[p]
             n == proc'[p]
             c == proc[p].cmd
             a == proc[p].cmd.agent
             j == proc[p].run
             r == runs[j]
             plan == asked[j]
             f == r.print
             frozen == Resumed(c, f)
  <1>1. /\ DOMAIN proc = Procs /\ Fine(s, runs) /\ s.pc = "plan" /\ s.pc \in Active
        /\ c.select # "new" /\ Executable(p)
    BY DEF StartInv, Planned, Active, Cmd
  <1>2. c \in Commands /\ DOMAIN s = ProcFields /\ c.select = "resume"
    BY <1>1, CommandsTyped DEF Fine, RunOptions
  <1>3. j # 0 /\ j \in Ids /\ IncompleteOf(r, a)
    BY <1>1, <1>2, StartupBounds DEF Fine, Ids
  <1>4. /\ a \in Agents /\ pos \in [Agents -> Int] /\ Told(s) /\ Resumes(s, r)
        /\ RunTyped(r) /\ Accounted(r, plan, pos)
    BY <1>1, <1>2, <1>3, CommandsOwned DEF PlanInv
  <1>5. pos[a] \in Int /\ Accepted(c) /\ c.live /\ s.mid \in Mids
    BY <1>1, <1>4 DEF Told
  <1>6. Readable(r) /\ MayResume(c, f, MasterOf[a])
    BY <1>1, <1>2, <1>4 DEF Resumes
  <1>7. f # NoValue
    BY <1>6 DEF MayResume
  <1>8. Written(r, plan) /\ TradedWithin(r, plan, pos[a])
    BY <1>3, <1>4, <1>7 DEF Accounted, IncompleteOf
  <1>9. /\ r.filled \in Nat /\ r.open \in Nat /\ r.filled + r.open <= LogicalTotal(plan)
    BY <1>4, <1>8 DEF RunTyped, TradedWithin
  <1>10. FrozenPlan(p) = frozen
    BY <1>2 DEF FrozenPlan, Cmd, MyRun
  <1>11. /\ n.pc = "execute" /\ n.cmd = c /\ n.run = j /\ n.mid = s.mid
         /\ n.plan = Continuation(p) /\ n.todo = Todo(p)
    <2>1. proc' = [proc EXCEPT ![p].pc = IF Cmd(p).select = "new" THEN "mkdir" ELSE "execute",
                               ![p].plan = Continuation(p), ![p].todo = Todo(p)]
      BY DEF Planned
    <2> QED BY <1>1, <1>2, <2>1 DEF Cmd, ProcFields, Off
  <1>12. Todo(p) > 0
    BY <1>1 DEF Executable
  <1>13. /\ plan.initial \in Int /\ plan.target \in Int /\ LogicalTotal(plan) \in Int /\ f \in Prints
    BY <1>8, WrittenTyped
  <1>14. /\ PositionMode(c) =>
              /\ f.mode \in PositionModes
              /\ frozen.initial = plan.initial /\ frozen.target = plan.target
              /\ frozen.phases = plan.phases
              /\ plan.phases = PhasesFor(plan.initial, plan.target)
              /\ plan.initial # plan.target
              /\ r.side = Sign(plan.target - plan.initial)
         /\ ~PositionMode(c) =>
              /\ plan.phases = <<>>
              /\ frozen.sizing.adjusted = plan.sizing.adjusted
              /\ plan.sizing.adjusted \in Int
    <2>1. c \in Commands /\ Written(r, plan) /\ MayResume(c, r.print, MasterOf[a])
      BY <1>2, <1>6, <1>8
    <2> HIDE DEF r, plan, c, a
    <2> QED BY <2>1, ResumedIsAsked
  <1> HIDE DEF frozen
  <1>15. Todo(p) \in Int /\ r.filled + Todo(p) = LogicalTotal(plan)
    <2>1. CASE PositionMode(c)
      <3>1. Continuation(p) = PositionPlanTo(plan.target, pos[a], c.slices)
        BY <1>10, <1>14, <2>1 DEF Continuation, Cmd, Agent
      <3>2. Continuation(p).target = plan.target
        BY <3>1 DEF PositionPlanTo
      <3>3. Todo(p) = Magnitude(plan.target - pos[a])
        BY <2>1, <3>2 DEF Todo, Cmd, Agent
      <3>4. pos[a] = ApplySignedFill(plan.initial, r.side, r.filled)
        BY <1>8, <1>14, <2>1 DEF TradedWithin
      <3>5. plan.phases # <<>>
        BY <1>13, <1>14, <2>1, PhaseFacts
      <3>6. LogicalTotal(plan) = Magnitude(plan.target - plan.initial)
        BY <3>5 DEF LogicalTotal
      <3> HIDE DEF r, plan, a
      <3>7. r.filled <= Magnitude(plan.target - plan.initial)
        BY <1>9, <1>13, <3>6
      <3>8. Todo(p) = Magnitude(plan.target - plan.initial) - r.filled
        BY <1>9, <1>13, <1>14, <2>1, <3>3, <3>4, <3>7, WayLeft
      <3> QED BY <1>9, <1>13, <3>6, <3>8
    <2>2. CASE ~PositionMode(c)
      <3>1. Todo(p) = plan.sizing.adjusted - r.filled
        BY <1>2, <1>10, <1>14, <2>2 DEF Todo, Cmd, MyRun
      <3>2. LogicalTotal(plan) = plan.sizing.adjusted
        BY <1>14, <2>2 DEF LogicalTotal
      <3> HIDE DEF r, plan
      <3> QED BY <1>9, <1>13, <3>1, <3>2
    <2> QED BY <2>1, <2>2
  <1>16. Todo(p) \in Nat
    BY <1>12, <1>15
  <1>17. n.plan.sizing.per \in Nat \ {0}
    <2>1. CASE PositionMode(c)
      <3> DEFINE next == PositionPlanTo(plan.target, pos[a], c.slices)
                 phases == PhasesFor(pos[a], plan.target)
                 first == IF phases = <<>> THEN 0 ELSE phases[1].size
      <3>1. Continuation(p) = next
        BY <1>10, <1>14, <2>1 DEF Continuation, Cmd, Agent
      <3>2. next.sizing.per = PerSliceOf(first, c.slices) /\ next.sizing.total = first
        BY DEF PositionPlanTo, Sizing
      <3> HIDE DEF next
      <3>3. SizingAccepted(next.sizing.total, c.slices, s.mid)
        BY <1>1, <2>1, <3>1 DEF Executable, Cmd
      <3>4. first \in Int
        <4>1. CASE pos[a] = plan.target
          BY <4>1 DEF PhasesFor
        <4>2. CASE pos[a] # plan.target
          BY <1>5, <1>13, <4>2, PhaseFacts
        <4> QED BY <4>1, <4>2
      <3> HIDE DEF first
      <3>5. c.slices \in Nat /\ c.slices > 0
        BY <1>2, <1>5, CommandsTyped DEF ExecutionOptions, Accepted
      <3>6. PerSliceOf(first, c.slices) \in Int /\ PerSliceOf(first, c.slices) > 0
        BY <3>2, <3>3, <3>4, <3>5, DivFacts DEF PerSliceOf, SizingAccepted
      <3> QED BY <1>11, <3>1, <3>2, <3>6
    <2>2. CASE ~PositionMode(c)
      <3>1. Continuation(p) = frozen
        BY <1>10, <2>2 DEF Continuation, Cmd
      <3>2. frozen.sizing.per = f.per.lots
        BY <2>2 DEF frozen, Resumed
      <3>3. f.per.lots \in Int
        BY <1>13 DEF Prints, Decimals
      <3>4. f.per.lots > 0
        BY <1>6, <1>7 DEF Readable, HeaderReplays
      <3> QED BY <1>11, <3>1, <3>2, <3>3, <3>4
    <2> QED BY <2>1, <2>2
  <1>18. c.mode = "flatten" => c.token = Token(c, plan, MasterOf[a], r.deadline)
    <2> SUFFICES ASSUME c.mode = "flatten" PROVE c.token = Token(c, plan, MasterOf[a], r.deadline)
      OBVIOUS
    <2>1. Confirmed(p) /\ PositionMode(c)
      BY <1>1 DEF Executable, Cmd, PositionMode, PositionModes
    <2>2. DeadlineOf(p) = r.deadline
      BY <1>2 DEF DeadlineOf, Cmd, MyRun
    <2>3. c.token = Token(c, frozen, MasterOf[a], r.deadline)
      BY <1>10, <2>1, <2>2 DEF Confirmed, Cmd, Agent
    <2> QED BY <1>14, <2>1, <2>3 DEF Token
  <1> HIDE DEF s, n, c, a, r, plan, f, j
  <1>19. Told(n) /\ Begins(n, pos[n.cmd.agent])
    BY <1>5, <1>11 DEF Told, Begins
  <1>20. Resumes(n, r)
    BY <1>6, <1>11 DEF Resumes, a, c, f, r, j
  <1>21. Executes(n, r, plan)
    <2>1. r.print # NoValue /\ n.cmd.agent = a
      BY <1>7, <1>11 DEF f, r, a, c
    <2> QED BY <1>2, <1>11, <1>15, <1>16, <1>17, <1>18, <2>1 DEF Executes
  <1> QED BY <1>11, <1>19, <1>20, <1>21 DEF Knows, n, r, plan

LEMMA InitPlans == Init => PlanInv
  <1> SUFFICES ASSUME Init PROVE PlanInv
    OBVIOUS
  <1>1. PICK h \in Heirlooms :
            /\ runs = [i \in Ids |-> IF i = 1 THEN h.run ELSE NoRun]
            /\ asked = [i \in Ids |-> IF i = 1 THEN h.asked ELSE NoValue]
    BY DEF Init
  <1>2. proc = [p \in Procs |-> Off] /\ pos = Holding /\ Off.pc = "off"
    BY DEF Init, Off
  <1>3. \A p \in Procs : proc[p].pc \notin Active /\ Told(proc[p])
    BY <1>2 DEF Told, Active
  <1>4. RunTyped(NoRun) /\ \A A, P : Accounted(NoRun, A, P)
    BY DEF RunTyped, Accounted, NoRun
  <1>5. RunTyped(h.run)
    BY HeirloomsReplay DEF RunTyped
  <1>6. Accounted(h.run, h.asked, pos)
    BY <1>2, HeirloomsWritten DEF Accounted
  <1>7. \A i \in Ids : RunTyped(runs[i]) /\ Accounted(runs[i], asked[i], pos)
    BY <1>1, <1>4, <1>5, <1>6
  <1> QED BY <1>1, <1>2, <1>3, <1>7, AccountsTyped DEF PlanInv

LEMMA PlannedPlans ==
    ASSUME StartInv, PlanInv, NEW p \in Procs, Planned(p)
    PROVE  PlanInv'
  <1>1. Knows(proc'[p], runs, asked, pos)
    BY NewPlan, ContinuedPlan
  <1>2. /\ DOMAIN proc = Procs /\ UNCHANGED <<runs, asked, pos>>
        /\ \A q \in Procs : q # p => proc'[q] = proc[q]
    BY DEF StartInv, Planned
  <1> QED BY <1>1, <1>2, QuietPlans

(* Every step of every process keeps what is written of the runs, and what *)
(* each process knows of its plan.                                         *)
LEMMA NextPlans == StartInv /\ PlanInv /\ [Next]_vars => PlanInv'
  <1> SUFFICES ASSUME StartInv, PlanInv, [Next]_vars PROVE PlanInv'
    OBVIOUS
  <1>1. CASE (\E d \in 0..MaxRuns : DeadlinePasses(d)) \/ UNCHANGED vars
    <2>1. UNCHANGED <<runs, asked, pos, proc>>
      BY <1>1 DEF DeadlinePasses, vars
    <2> QED BY <2>1 DEF PlanInv
  <1>2. ASSUME NEW p \in Procs, NEW c \in Commands, Launching(p, c) PROVE PlanInv'
    BY <1>2, LaunchPlans, RefusalPlans DEF Launching, RefusedEarly, DryRun, LockHeld
  <1>3. ASSUME NEW p \in Procs, Starting(p) PROVE PlanInv'
    BY <1>3, ScanPlans, RefusalPlans DEF Starting, NamedRunRefused, ReadRunFails, GateRefuses
  <1>4. ASSUME NEW p \in Procs, Planning(p) PROVE PlanInv'
    BY <1>4, MatchPlans, CreditPlans, ClosePlans, PlannedPlans, RefusalPlans
       DEF Planning, ProbeRefused, ReconcileFails, FingerprintRefused, PlanRefused
  <1>5. ASSUME NEW p \in Procs, Executing(p) PROVE PlanInv'
    BY <1>5, MakePlans, HeaderPlans, SendPlans, CreditPlans, ClosePlans, RefusalPlans
       DEF Executing, TooLate
  <1>6. ASSUME NEW p \in Procs, Crash(p) PROVE PlanInv'
    BY <1>6, RefusalPlans DEF Crash
  <1> QED BY <1>1, <1>2, <1>3, <1>4, <1>5, <1>6 DEF Next

(* Every run has the plan it was begun for, and the account has moved by   *)
(* what it has filled, whoever resumed it and however often.               *)
THEOREM PlanInvariant == Spec => []PlanInv
  BY InitPlans, NextPlans, StartInvariant, PTL DEF Spec

(* What is executed is what the run was begun for, after any number of     *)
(* crashes and resumptions: validate_resume_execution_fingerprint lets     *)
(* through no other sizing, and what is filled is not executed again.      *)
THEOREM RequestIsExecuted == Spec => []ExecutesTheRequest
  <1>1. StartInv /\ PlanInv => ExecutesTheRequest
    <2> SUFFICES ASSUME StartInv, PlanInv, NEW p \in Procs, proc[p].pc = "execute"
                 PROVE  /\ runs[proc[p].run].side = asked[proc[p].run].side
                        /\ runs[proc[p].run].filled + proc[p].todo = LogicalTotal(asked[proc[p].run])
      BY DEF ExecutesTheRequest, MyRun
    <2>1. Fine(proc[p], runs)
      BY DEF StartInv
    <2>2. /\ proc[p].run \in Ids /\ proc[p].run # 0 /\ proc[p].pc \in Active
          /\ IncompleteOf(runs[proc[p].run], proc[p].cmd.agent)
      BY <2>1, StartupBounds DEF Fine, Active, Ids
    <2>3. Executes(proc[p], runs[proc[p].run], asked[proc[p].run])
          /\ Accounted(runs[proc[p].run], asked[proc[p].run], pos)
      BY <2>2 DEF PlanInv
    <2>4. Written(runs[proc[p].run], asked[proc[p].run])
      BY <2>2, <2>3 DEF Executes, Accounted, IncompleteOf
    <2> QED BY <2>3, <2>4, WrittenTyped DEF Executes
  <1> QED BY <1>1, StartInvariant, PlanInvariant, PTL

(* A flatten is executed only by a process that was given the token of the *)
(* position, the cap and the deadline its run was begun with.              *)
THEOREM TokenIsOfTheStart == Spec => []ConfirmedIsFrozen
  <1>1. StartInv /\ PlanInv => ConfirmedIsFrozen
    <2> SUFFICES ASSUME StartInv, PlanInv, NEW p \in Procs, proc[p].pc = "execute",
                        proc[p].cmd.mode = "flatten"
                 PROVE  proc[p].cmd.token = Token(proc[p].cmd, asked[proc[p].run],
                                                  MasterOf[proc[p].cmd.agent], runs[proc[p].run].deadline)
      BY DEF ConfirmedIsFrozen, MyRun, Cmd, Agent
    <2>1. proc[p].run # 0 /\ proc[p].pc \in Active
      BY DEF StartInv, Fine, Active
    <2> QED BY <2>1 DEF PlanInv, Executes
  <1> QED BY <1>1, StartInvariant, PlanInvariant, PTL

(* A run that is continued is one that its report calls resumable: replay  *)
(* and the resume check together are as strict as resume_eligible.         *)
THEOREM EligibleIfContinued == Spec => []ContinuedIsEligible
  <1>1. StartInv /\ PlanInv => ContinuedIsEligible
    <2> SUFFICES ASSUME StartInv, PlanInv, NEW p \in Procs,
                        proc[p].pc \in {"price", "plan", "execute"}, proc[p].cmd.select = "resume"
                 PROVE  ResumeEligible(runs[proc[p].run])
      BY DEF ContinuedIsEligible, MyRun, Cmd
    <2> DEFINE c == proc[p].cmd
               r == runs[proc[p].run]
               f == r.print
    <2>1. /\ proc[p].run # 0 /\ proc[p].pc \in Active /\ c \in Commands
          /\ IncompleteOf(r, c.agent)
      BY DEF StartInv, Fine, Active
    <2>2. Readable(r) /\ MayResume(c, f, MasterOf[c.agent])
      BY <2>1 DEF PlanInv, Resumes
    <2>3. f # NoValue /\ f.mode = c.mode
      BY <2>2 DEF MayResume
    <2>4. HeaderReplays(f) /\ f.deadline = r.deadline
      BY <2>2, <2>3 DEF Readable, HeaderMatches
    <2>5. ReportStatus(r) = "incomplete"
      BY <2>1, <2>2 DEF ReportStatus, IncompleteOf
    <2>8. Accepted(c)
      BY <2>1 DEF PlanInv, Told
    <2> HIDE DEF c, r, f
    <2>6. CASE f.mode \in OrdinaryModes
      <3>1. f.initial = NoValue /\ f.target = NoValue /\ f.phases = <<>>
        BY <2>3, <2>4, <2>6 DEF HeaderReplays, OrdinaryReplays
      <3> QED BY <2>3, <2>4, <2>5, <2>6, <3>1, Zenon DEF ResumeEligible, f, r
    <2>7. CASE f.mode \notin OrdinaryModes
      <3>1. /\ f.initial # NoValue /\ f.target # NoValue
            /\ (f.value = NoValue) = (f.mode = "flatten")
            /\ (f.ref # NoValue) = (f.mode = "target_usd")
        BY <2>3, <2>4, <2>7 DEF HeaderReplays, PositionReplays
      <3>2. f.phases # <<>>
        <4> DEFINE again == Rebuilt(c, f)
                   ref == IF f.ref = NoValue THEN 1 ELSE f.ref
        <4>1. c.mode \in PositionModes \cup OrdinaryModes
          BY <2>1, CommandsTyped, <2>8 DEF RequestOptions, Accepted
        <4>2. PositionMode(c)
          BY <2>3, <2>7, <4>1 DEF PositionMode
        <4>3. /\ again.phases # <<>>
              /\ f.phases = [i \in DOMAIN again.phases |-> PhasePrint(again.phases[i])]
          BY <2>2, <4>2 DEF MayResume
        <4>4. \E i, t : again.phases = PhasesFor(i, t)
          BY <4>2 DEF Rebuilt, PlanOf, PositionPlanTo
        <4> HIDE DEF again
        <4>5. 1 \in DOMAIN again.phases
          BY <4>3, <4>4 DEF PhasesFor
        <4>6. 1 \in DOMAIN f.phases
          BY <4>3, <4>5
        <4> QED BY <4>6
      <3> QED BY <2>3, <2>4, <2>5, <2>7, <3>1, <3>2, Zenon DEF ResumeEligible, f, r
    <2> QED BY <2>6, <2>7 DEF r
  <1> QED BY <1>1, StartInvariant, PlanInvariant, PTL

-----------------------------------------------------------------------------
(* What the program writes, it reads back. *)

(* Every target comes out whole: where one has a fraction, the difference  *)
(* to the position may be spelled shorter than the two, and the Header is  *)
(* then refused.                                                           *)
WholeTargets ==
    \A c \in Commands, mid \in Mids : PositionMode(c) => TargetOf(c, mid) % 10 = 0

(* The distance to a whole number is whole where the number is. *)
LEMMA WholeDistance ==
    ASSUME NEW i \in Int, NEW t \in Int, t % 10 = 0
    PROVE  ScaleOf(Magnitude(t - i)) = ScaleOf(i) /\ ScaleOf(t) = 0
  BY DEF ScaleOf, Magnitude

(* The sizes of a plan that was accepted. *)
LEMMA AcceptedSizes ==
    ASSUME NEW t \in Int, NEW n \in Nat, n > 0, PerSliceOf(t, n) > 0
    PROVE  /\ PerSliceOf(t, n) \in Int /\ TotalAdjusted(t, n) \in Int
           /\ TotalAdjusted(t, n) > 0 /\ TotalAdjusted(t, n) <= t
           /\ PerSliceOf(t, n) <= TotalAdjusted(t, n) /\ PerSliceOf(t, n) <= t /\ t > 0
  <1> DEFINE q == t \div n
  <1>1. q \in Int /\ q * n <= t /\ q > 0
    BY DivFacts DEF PerSliceOf
  <1> HIDE DEF q
  <1>2. q * n \in Int /\ q <= q * n
    BY <1>1
  <1>3. PerSliceOf(t, n) = q /\ TotalAdjusted(t, n) = q * n
    BY DEF PerSliceOf, TotalAdjusted, q
  <1> QED BY <1>1, <1>2, <1>3

(* The resume check does not see how a request is spelled, nor the options *)
(* that only say which run it is about.                                    *)
LEMMA SpellingIsNotSeen ==
    ASSUME NEW c \in Commands, NEW d \in Commands, SameRequest(c, d), NEW f, NEW m,
           MayResume(d, f, m)
    PROVE  MayResume(c, f, m)
  <1>1. DOMAIN c = OptionNames
    BY CommandsTyped
  <1>2. /\ c.mode = d.mode /\ c.lots = d.lots /\ c.side = d.side /\ c.slices = d.slices
        /\ c.agent = d.agent /\ c.knobs = d.knobs /\ c.slippage = d.slippage /\ c.cap = d.cap
        /\ c.deadline = d.deadline
    BY <1>1 DEF SameRequest, OptionNames
  <1>3. RequestedValue(c) = RequestedValue(d)
    BY <1>2 DEF RequestedValue, Value, Canonical, Spelled
  <1>4. PositionMode(c) = PositionMode(d)
    BY <1>2 DEF PositionMode
  <1>5. PositionMode(c) => Rebuilt(c, f) = Rebuilt(d, f)
    BY <1>2, <1>4 DEF Rebuilt, PlanOf, PositionMode, TargetOf
  <1> QED BY <1>2, <1>3, <1>4, <1>5 DEF MayResume

(* The Header of an ordinary run. *)
LEMMA OrdinaryHeader ==
    ASSUME NEW c \in Commands, Accepted(c), c.live, ~PositionMode(c), NEW mid \in Mids,
           NEW x \in Int, NEW plan, plan = PlanOf(c, mid, x), Sized(c, plan, mid),
           NEW m \in STRING, NEW d \in Nat, NEW f, f = Fingerprint(c, plan, mid, m, d),
           c.deadline # NoValue => d = c.deadline
    PROVE  HeaderReplays(f) /\ MayResume(c, f, m)
  <1> DEFINE total == IF c.mode = "size" THEN c.lots ELSE UsdToCoin(c.lots, mid)
  <1>1. /\ c.slices \in Nat /\ c.slices > 0 /\ c.side \in {-1, 1} /\ c.lots > 0
        /\ c.mode \in OrdinaryModes /\ c.slippage >= 0 /\ c.slippage < 10000 /\ c.cap > 0
    BY CommandsTyped DEF ExecutionOptions, RequestOptions, Accepted, SlippageAllowed, CapGiven,
       PositionMode
  <1>2. total \in Int
    BY StartupBounds, TotalInt
  <1> HIDE DEF total
  <1>3. /\ plan.side = c.side /\ plan.phases = <<>>
        /\ plan.sizing = Sizing(total, c.slices, FALSE)
    BY DEF PlanOf, total
  <1>4. /\ plan.sizing.total = total /\ plan.sizing.per = PerSliceOf(total, c.slices)
        /\ plan.sizing.adjusted = TotalAdjusted(total, c.slices)
    BY <1>3 DEF Sizing
  <1>5. PerSliceOf(total, c.slices) > 0
    BY <1>4 DEF Sized, SizingAccepted
  <1>6. /\ f.mode = c.mode /\ f.value = RequestedValue(c) /\ f.agent = c.agent /\ f.master = m
        /\ f.side = plan.side /\ f.slices = c.slices
        /\ f.knobs = c.knobs /\ f.slippage = c.slippage /\ f.cap = c.cap /\ f.deadline = d
        /\ f.total = Plain(total) /\ f.per = Plain(PerSliceOf(total, c.slices))
        /\ f.adjusted = Plain(TotalAdjusted(total, c.slices))
        /\ f.initial = NoValue /\ f.target = NoValue
    BY <1>4 DEF Fingerprint, Signed
  <1>7. f.ref = NoValue
    BY <1>1 DEF Fingerprint, OrdinaryModes
  <1>8. f.phases = <<>>
    <2>1. f.phases = [i \in DOMAIN plan.phases |-> PhasePrint(plan.phases[i])]
      BY DEF Fingerprint
    <2>2. DOMAIN plan.phases = {}
      BY <1>3
    <2> QED BY <2>1, <2>2
  <1>9. f.value = Plain(c.lots)
    BY <1>1, <1>6 DEF RequestedValue, Value, Plain, Canonical, Spelled, OrdinaryModes
  <1>10. /\ f.total.lots = total /\ f.per.lots = PerSliceOf(total, c.slices)
         /\ f.adjusted.lots = TotalAdjusted(total, c.slices) /\ f.value.lots = c.lots
    BY <1>6, <1>9, PlainLots
  <1>11. OrdinaryReplays(f)
    <2>1. f.per.lots * f.slices = f.adjusted.lots
      BY <1>6, <1>10 DEF TotalAdjusted
    <2>2. f.mode = "size" => f.value = f.total
      BY <1>6, <1>9 DEF total
    <2> QED BY <1>1, <1>6, <1>7, <1>8, <1>10, <2>1, <2>2 DEF OrdinaryReplays
  <1>12. HeaderReplays(f)
    <2>1. /\ f.per.lots > 0 /\ f.adjusted.lots > 0 /\ f.total.lots > 0
          /\ f.adjusted.lots <= f.total.lots /\ f.per.lots <= f.adjusted.lots
      BY <1>1, <1>2, <1>5, <1>10, AcceptedSizes
    <2> QED BY <1>1, <1>3, <1>6, <1>11, <2>1 DEF HeaderReplays
  <1>13. f # NoValue
    <2>1. f \in Prints
      BY PrintTyped
    <2> QED BY <2>1, NoValueFresh
  <1>14. SizingConsistent(f, IF c.mode = "size" THEN f.value.lots ELSE f.total.lots, FALSE)
    <2>1. (IF c.mode = "size" THEN f.value.lots ELSE f.total.lots) = total
      BY <1>10 DEF total
    <2>2. SizingConsistent(f, total, FALSE)
      BY <1>6 DEF SizingConsistent, Sizing
    <2> QED BY <2>1, <2>2
  <1>15. MayResume(c, f, m)
    BY <1>6, <1>13, <1>14 DEF MayResume
  <1> QED BY <1>12, <1>15

(* The Header of a position run, whose target is whole. *)
LEMMA PositionHeader ==
    ASSUME NEW c \in Commands, Accepted(c), c.live, PositionMode(c), NEW mid \in Mids,
           NEW x \in Int, NEW plan, plan = PlanOf(c, mid, x), Sized(c, plan, mid),
           NEW m \in STRING, NEW d \in Nat, NEW f, f = Fingerprint(c, plan, mid, m, d),
           c.deadline # NoValue => d = c.deadline, TargetOf(c, mid) % 10 = 0
    PROVE  HeaderReplays(f) /\ MayResume(c, f, m)
  <1> DEFINE t == TargetOf(c, mid)
             phases == PhasesFor(x, t)
             total == phases[1].size
  <1>1. /\ c.slices \in Nat /\ c.slices > 0 /\ c.mode \in PositionModes
        /\ c.slippage >= 0 /\ c.slippage < 10000 /\ c.cap > 0 /\ mid \in Nat \ {0}
        /\ c.mode \notin OrdinaryModes
    BY CommandsTyped, StartupBounds DEF ExecutionOptions, RequestOptions, Accepted,
       SlippageAllowed, CapGiven, PositionMode, PositionModes, OrdinaryModes
  <1>2. t \in Int /\ t % 10 = 0
    BY <1>1, TargetInt
  <1>3. plan = PositionPlanTo(t, x, c.slices)
    BY PositionPlanIs
  <1> HIDE DEF t
  <1>4. plan.initial = x /\ plan.target = t /\ plan.phases = phases
    BY <1>3 DEF PositionPlanTo
  <1>5. x # t
    <2>1. LogicalTotal(plan) > 0
      BY DEF Sized
    <2>2. ASSUME x = t PROVE FALSE
      <3>1. plan.phases = <<>> /\ plan.sizing.adjusted = 0
        BY <1>3, <2>2 DEF PositionPlanTo, PhasesFor, Sizing
      <3> QED BY <2>1, <3>1 DEF LogicalTotal
    <2> QED BY <2>2
  <1>6. /\ phases # <<>> /\ 1 \in DOMAIN phases /\ phases[1].side = Sign(t - x) /\ total \in Nat
    BY <1>2, <1>5, PhaseFacts
  <1>7. /\ plan.side = phases[1].side /\ plan.sizing = Sizing(total, c.slices, TRUE)
    BY <1>3, <1>6 DEF PositionPlanTo
  <1> HIDE DEF phases, total
  <1>8. /\ plan.sizing.total = total /\ plan.sizing.per = PerSliceOf(total, c.slices)
        /\ plan.sizing.adjusted = total
    BY <1>7 DEF Sizing
  <1>9. PerSliceOf(total, c.slices) > 0
    BY <1>8 DEF Sized, SizingAccepted
  <1>10. plan.side \in {-1, 1}
    BY <1>2, <1>5, <1>6, <1>7 DEF Sign
  <1>11. /\ f.mode = c.mode /\ f.value = RequestedValue(c) /\ f.agent = c.agent /\ f.master = m
         /\ f.side = plan.side /\ f.slices = c.slices
         /\ f.knobs = c.knobs /\ f.slippage = c.slippage /\ f.cap = c.cap /\ f.deadline = d
         /\ f.total = Plain(total) /\ f.per = Plain(PerSliceOf(total, c.slices))
         /\ f.adjusted = Plain(total) /\ f.initial = Plain(x) /\ f.target = Plain(t)
    BY <1>4, <1>8 DEF Fingerprint, Signed
  <1>12. f.ref = IF c.mode = "target_usd" THEN mid ELSE NoValue
    BY DEF Fingerprint
  <1>13. f.phases = [i \in DOMAIN phases |-> PhasePrint(phases[i])]
    BY <1>4 DEF Fingerprint
  <1>14. /\ f.total.lots = total /\ f.per.lots = PerSliceOf(total, c.slices)
         /\ f.adjusted.lots = total /\ f.initial.lots = x /\ f.target.lots = t
    BY <1>11, PlainLots
  <1>15. f \in Prints /\ f # NoValue
    <2>1. f \in Prints
      BY PrintTyped
    <2> QED BY <2>1, NoValueFresh
  <1>16. /\ DOMAIN phases = 1..Len(phases) /\ Len(phases) \in {1, 2}
         /\ \A i \in DOMAIN phases : DOMAIN phases[i] = {"kind", "side", "size", "reduceOnly"}
         /\ Len(phases) = 1 => phases[1].size = Magnitude(t - x)
    <2> DEFINE reduces == /\ x # 0
                          /\ \/ t = 0
                             \/ Sign(x) = Sign(t) /\ Magnitude(t) < Magnitude(x)
    <2>1. \/ phases = <<Phase("adjust", t - x, reduces)>>
          \/ phases = <<Phase("close", -x, TRUE), Phase("open", t, FALSE)>>
      BY <1>5 DEF phases, PhasesFor, reduces
    <2> HIDE DEF reduces
    <2>2. \A k, y, b : /\ DOMAIN Phase(k, y, b) = {"kind", "side", "size", "reduceOnly"}
                       /\ Phase(k, y, b).size = Magnitude(y)
      BY DEF Phase
    <2>3. CASE phases = <<Phase("adjust", t - x, reduces)>>
      <3> DEFINE u == Phase("adjust", t - x, reduces)
      <3>1. DOMAIN u = {"kind", "side", "size", "reduceOnly"} /\ u.size = Magnitude(t - x)
        BY <2>2
      <3>2. phases = <<u>>
        BY <2>3
      <3> HIDE DEF u
      <3> QED BY <3>1, <3>2
    <2>4. CASE phases = <<Phase("close", -x, TRUE), Phase("open", t, FALSE)>>
      <3> DEFINE u == Phase("close", -x, TRUE)
                 v == Phase("open", t, FALSE)
      <3>1. /\ DOMAIN u = {"kind", "side", "size", "reduceOnly"}
            /\ DOMAIN v = {"kind", "side", "size", "reduceOnly"}
        BY <2>2
      <3>2. phases = <<u, v>>
        BY <2>4
      <3> HIDE DEF u, v
      <3>3. Len(phases) = 2 /\ DOMAIN phases = 1..2 /\ phases[1] = u /\ phases[2] = v
        BY <3>2
      <3>4. \A i \in 1..2 : i = 1 \/ i = 2
        OBVIOUS
      <3> QED BY <3>1, <3>3, <3>4
    <2> QED BY <2>1, <2>3, <2>4
  <1>17. PhasesConsistent(f)
    <2>1. PhasesFor(f.initial.lots, f.target.lots) = phases
      BY <1>14 DEF phases
    <2>2. Len(f.phases) = Len(phases) /\ \A i \in DOMAIN phases : f.phases[i] = PhasePrint(phases[i])
      <3>1. DOMAIN f.phases = 1..Len(phases) /\ Len(phases) \in Nat
        BY <1>13, <1>16
      <3>2. Len(f.phases) \in Nat /\ DOMAIN f.phases = 1..Len(f.phases)
        BY <1>15 DEF Prints
      <3>3. Len(f.phases) = Len(phases)
        BY <3>1, <3>2
      <3> QED BY <1>13, <3>3
    <2>3. \A i \in DOMAIN phases :
             /\ f.phases[i].size = Plain(phases[i].size)
             /\ f.phases[i] = [phases[i] EXCEPT !.size = f.phases[i].size]
      <3> TAKE i \in DOMAIN phases
      <3> DEFINE ph == phases[i]
                 size == Plain(ph.size)
      <3>1. f.phases[i] = [ph EXCEPT !.size = size] /\ "size" \in DOMAIN ph
        BY <1>16, <2>2 DEF PhasePrint
      <3> HIDE DEF ph, size
      <3>2. f.phases[i].size = size
        BY <3>1
      <3> QED BY <3>1, <3>2 DEF ph, size
    <2>4. ASSUME ~Crosses(phases), NEW i \in DOMAIN phases
          PROVE  Plain(phases[i].size) = [Minus(f.target, f.initial) EXCEPT !.lots = Magnitude(@)]
      <3>1. i = 1 /\ phases[i].size = Magnitude(t - x)
        BY <1>16, <2>4 DEF Crosses
      <3>2. ScaleOf(Magnitude(t - x)) = ScaleOf(x) /\ ScaleOf(t) = 0
        BY <1>2, WholeDistance
      <3>3. Plain(phases[i].size) = [lots |-> Magnitude(t - x), scale |-> ScaleOf(x)]
        BY <3>1, <3>2 DEF Plain, Canonical, Spelled
      <3>4. f.target = [lots |-> t, scale |-> 0] /\ f.initial = [lots |-> x, scale |-> ScaleOf(x)]
        BY <1>11, <3>2 DEF Plain, Canonical, Spelled
      <3>5. ScaleOf(x) \in {0, 1}
        BY DEF ScaleOf
      <3> HIDE DEF t
      <3>6. Minus(f.target, f.initial) = [lots |-> t - x, scale |-> ScaleOf(x)]
        BY <3>4, <3>5 DEF Minus, Spelled
      <3>7. [Minus(f.target, f.initial) EXCEPT !.lots = Magnitude(@)]
              = [lots |-> Magnitude(t - x), scale |-> ScaleOf(x)]
        BY <3>6
      <3> QED BY <3>3, <3>7
    <2> QED BY <2>1, <2>2, <2>3, <2>4 DEF PhasesConsistent
  <1>18. PositionReplays(f)
    <2>1. f.initial # NoValue /\ f.target # NoValue
      <3>1. \A y \in Int : Plain(y) \in Decimals
        BY DEF Plain, Canonical, Spelled, ScaleOf, Decimals
      <3> QED BY <1>2, <1>11, <3>1, NoValueFresh
    <2>2. f.mode = "flatten" => f.target.lots = 0
      BY <1>11, <1>14 DEF t, TargetOf, RequestedTarget
    <2>3. (f.value = NoValue) = (f.mode = "flatten")
      <3>1. Value(c) \in Decimals
        <4>1. c.lots \in Int
          BY CommandsTyped DEF RequestOptions
        <4> QED BY <4>1 DEF Value, Canonical, Spelled, ScaleOf, Decimals
      <3>2. f.value = NoValue <=> f.mode = "flatten"
        BY <1>11, <3>1, NoValueFresh DEF RequestedValue
      <3> QED BY <3>2
    <2>4. (f.ref # NoValue) = (f.mode = "target_usd")
      <3>1. f.ref # NoValue <=> f.mode = "target_usd"
        BY <1>1, <1>11, <1>12, NoValueFresh
      <3> QED BY <3>1
    <2>5. f.ref # NoValue => f.ref > 0
      BY <1>1, <1>12
    <2>6. f.phases # <<>> => f.side = f.phases[1].side
      <3>1. f.phases[1] = PhasePrint(phases[1]) /\ "side" \in DOMAIN phases[1]
        BY <1>6, <1>13, <1>16
      <3> QED BY <1>7, <1>11, <3>1 DEF PhasePrint
    <2> QED BY <1>17, <2>1, <2>2, <2>3, <2>4, <2>5, <2>6 DEF PositionReplays
  <1>19. HeaderReplays(f)
    <2>1. /\ f.per.lots > 0 /\ f.adjusted.lots > 0 /\ f.total.lots > 0
          /\ f.adjusted.lots <= f.total.lots /\ f.per.lots <= f.adjusted.lots
      BY <1>1, <1>6, <1>9, <1>14, AcceptedSizes
    <2> QED BY <1>1, <1>10, <1>11, <1>18, <2>1 DEF HeaderReplays
  <1>20. MayResume(c, f, m)
    <2>1. Rebuilt(c, f) = plan
      <3>1. TargetOf(c, IF f.ref = NoValue THEN 1 ELSE f.ref) = t
        BY <1>1, <1>12, NoValueFresh DEF t, TargetOf, RequestedTarget, PositionModes
      <3>2. Rebuilt(c, f) = PositionPlanTo(t, x, c.slices)
        BY <1>14, <3>1 DEF Rebuilt, PlanOf
      <3> QED BY <1>3, <3>2
    <2>2. SizingConsistent(f, phases[1].size, TRUE)
      <3>1. SizingConsistent(f, total, TRUE)
        BY <1>11 DEF SizingConsistent, Sizing
      <3> QED BY <3>1 DEF total
    <2>3. Plain(plan.target) = f.target /\ plan.phases # <<>> /\ plan.side = f.side
      BY <1>4, <1>6, <1>11
    <2>4. f.phases = [i \in DOMAIN plan.phases |-> PhasePrint(plan.phases[i])]
      BY <1>4, <1>13
    <2>5. SizingConsistent(f, plan.phases[1].size, TRUE)
      BY <1>4, <2>2
    <2>6. c.deadline # NoValue => c.deadline = f.deadline
      BY <1>11
    <2>7. LET again == Rebuilt(c, f) IN
          /\ Plain(again.target) = f.target /\ again.phases # <<>>
          /\ f.phases = [i \in DOMAIN again.phases |-> PhasePrint(again.phases[i])]
          /\ again.side = f.side
          /\ SizingConsistent(f, again.phases[1].size, TRUE)
      BY <2>1, <2>3, <2>4, <2>5
    <2> QED BY <1>11, <1>15, <2>6, <2>7 DEF MayResume
  <1> QED BY <1>19, <1>20

(* Every Header that is written for a request with a whole target is read  *)
(* back, by replay and by the resume check, for the same request however   *)
(* it is spelled.                                                          *)
THEOREM OwnHeaderIsReadBack ==
    ASSUME WholeTargets
    PROVE  Spec => []OwnHeaderReplays
  <1>1. StartInv /\ PlanInv => OwnHeaderReplays
    <2> SUFFICES ASSUME StartInv, PlanInv, NEW p \in Procs, proc[p].pc = "execute"
                 PROVE  /\ Readable(runs[proc[p].run])
                        /\ \A d \in Commands : SameRequest(d, proc[p].cmd) =>
                              MayResume(d, runs[proc[p].run].print, MasterOf[proc[p].cmd.agent])
      BY DEF OwnHeaderReplays, MyRun, Cmd, Agent
    <2> DEFINE s == proc[p]
               c == proc[p].cmd
               j == proc[p].run
               r == runs[j]
               plan == asked[j]
               m == MasterOf[c.agent]
    <2>1. Fine(s, runs)
      BY DEF StartInv
    <2>2. /\ j \in Ids /\ j # 0 /\ s.pc \in Active /\ IncompleteOf(r, c.agent) /\ c \in Commands
      BY <2>1, StartupBounds DEF Fine, Active, Ids
    <2>3. /\ Told(s) /\ Resumes(s, r) /\ Executes(s, r, plan) /\ Accounted(r, plan, pos)
      BY <2>2 DEF PlanInv
    <2>4. /\ r.print # NoValue /\ Accepted(c) /\ c.live /\ s.mid \in Mids /\ r.stage = "header"
          /\ c.select \in {"new", "resume"}
      <3>1. c.select \in {"new", "resume", "abandon"}
        BY <2>2, CommandsTyped DEF RunOptions
      <3> QED BY <2>2, <2>3, <3>1 DEF Executes, Told, IncompleteOf
    <2>5. Readable(r) /\ MayResume(c, r.print, m)
      <3>1. CASE c.select = "resume"
        BY <2>3, <3>1 DEF Resumes
      <3>2. CASE c.select = "new"
        <4>1. OwnPrint(s, r, plan)
          BY <2>3, <3>2 DEF Executes
        <4>2. r.print \in Prints
          BY <2>3, <2>4, WrittenTyped DEF Accounted
        <4> HIDE DEF s, r, plan, j
        <4>3. /\ r.agent = c.agent /\ r.master = m /\ r.symbol = c.symbol /\ r.side = plan.side
              /\ c.deadline # NoValue => r.deadline = c.deadline
              /\ r.print = Fingerprint(c, plan, s.mid, m, r.deadline)
              /\ plan.initial \in Int /\ plan = PlanOf(c, s.mid, plan.initial)
              /\ Sized(c, plan, s.mid)
          BY <4>1 DEF OwnPrint, s
        <4>4. HeaderMatches(r)
          BY <4>3 DEF HeaderMatches, Fingerprint
        <4>5. r.deadline \in Nat /\ m \in STRING
          <5>1. r.print.deadline = r.deadline
            BY <2>4, <4>4 DEF HeaderMatches
          <5>2. m \in STRING
            BY <2>2, CommandsOwned, AccountsTyped
          <5> QED BY <4>2, <5>1, <5>2 DEF Prints
        <4> HIDE DEF c, m
        <4>6. CASE PositionMode(c)
          <5>1. TargetOf(c, s.mid) % 10 = 0
            BY <2>2, <2>4, <4>6 DEF WholeTargets
          <5>2. HeaderReplays(r.print) /\ MayResume(c, r.print, m)
            BY <2>2, <2>4, <4>3, <4>5, <4>6, <5>1, PositionHeader
          <5> QED BY <2>4, <4>4, <5>2 DEF Readable
        <4>7. CASE ~PositionMode(c)
          <5>1. HeaderReplays(r.print) /\ MayResume(c, r.print, m)
            BY <2>2, <2>4, <4>3, <4>5, <4>7, OrdinaryHeader
          <5> QED BY <2>4, <4>4, <5>1 DEF Readable
        <4> QED BY <4>6, <4>7
      <3> QED BY <2>4, <3>1, <3>2
    <2>6. ASSUME NEW d \in Commands, SameRequest(d, c) PROVE MayResume(d, r.print, m)
      BY <2>2, <2>5, <2>6, SpellingIsNotSeen
    <2> QED BY <2>5, <2>6
  <1> QED BY <1>1, StartInvariant, PlanInvariant, PTL
=============================================================================
