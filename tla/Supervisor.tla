----------------------------- MODULE Supervisor -----------------------------
(***************************************************************************)
(* PID 1 (internal/supervisor): it starts the entrypoint, reaps every      *)
(* process of the container that dies as its child, and on a signal, or    *)
(* once the entrypoint is gone, asks all processes to stop and reboots     *)
(* when none is left.                                                      *)
(*                                                                         *)
(* The kernel is modelled as far as the loop depends on it.  A signal that *)
(* is already pending is not queued again (pend is a set: it stands for    *)
(* the kernel's pending set and the Go runtime's mask alike), and          *)
(* signal.Notify drops a signal when sigCh is full.  A dead process is a   *)
(* zombie until its parent waits for it; the children of a dead process,   *)
(* zombies too, become children of PID 1.  A process that SIGKILL has hit  *)
(* can do nothing but die.                                                 *)
(*                                                                         *)
(* SIGTERM, SIGPWR and SIGRTMIN+3 are handled alike: "PWR" stands for the  *)
(* three.  That a process reacts to the SIGTERM of beginShutdown, or does  *)
(* not, is covered by processes exiting, or not, at any time.              *)
(***************************************************************************)
EXTENDS Naturals, Sequences

CONSTANTS
  Proc,   \* the processes that may ever exist besides PID 1
  Main,   \* the entrypoint
  Cap     \* capacity of sigCh (64)

ASSUME MainAssumption == Main \in Proc
ASSUME CapAssumption == Cap \in Nat \ {0}

Init1 == "init"        \* PID 1, as a parent
Host == "host"         \* a parent outside the container's pid namespace
NoParent == "noparent" \* the parent of a process that has not been created
ASSUME ParentAssumption == {Init1, Host, NoParent} \cap Proc = {}

VARIABLES
  state,         \* the state of each process
  parent,        \* the parent of each process
  fromMain,      \* history: the processes descended from the entrypoint
  late,          \* history: the processes created after SIGKILL was sent
  doomed,        \* the processes that SIGKILL has been sent to
  pend,          \* signals sent to PID 1 and not yet offered to sigCh
  sigCh,         \* the channel that Run receives from
  pc,            \* where Run is
  sawMain,       \* reapAll's result so far
  shuttingDown,  \* Run's shuttingDown
  rebootCmd,     \* Run's rebootCmd
  timer          \* the goroutine that sends SIGKILL after ShutdownGrace

procVars == <<state, parent, fromMain, late, doomed>>
loopVars == <<pc, sawMain, shuttingDown, rebootCmd, timer>>
vars == <<procVars, pend, sigCh, loopVars>>

Signal == {"CHLD", "INT", "PWR"}

(* The type of the state; sigCh never holds more than its capacity.        *)
TypeOK ==
  /\ state \in [Proc -> {"unborn", "running", "zombie", "gone"}]
  /\ parent \in [Proc -> Proc \cup {Init1, Host, NoParent}]
  /\ fromMain \in SUBSET Proc
  /\ late \in SUBSET Proc
  /\ doomed \in SUBSET Proc
  /\ pend \in SUBSET Signal
  /\ sigCh \in Seq(Signal)
  /\ Len(sigCh) <= Cap
  /\ pc \in {"start", "recv", "reapChld", "reapAgain", "done", "off", "failed"}
  /\ sawMain \in BOOLEAN
  /\ shuttingDown \in BOOLEAN
  /\ rebootCmd \in {"POWER_OFF", "RESTART"}
  /\ timer \in {"unset", "sleeping", "fired"}

Init ==
  /\ state = [p \in Proc |-> "unborn"]
  /\ parent = [p \in Proc |-> NoParent]
  /\ fromMain = {}
  /\ late = {}
  /\ doomed = {}
  /\ pend = {}
  /\ sigCh = <<>>
  /\ pc = "start"
  /\ sawMain = FALSE
  /\ shuttingDown = FALSE
  /\ rebootCmd = "POWER_OFF"
  /\ timer = "unset"

Ended == pc \in {"off", "failed"}
Children(q) == {p \in Proc : parent[p] = q /\ state[p] \in {"running", "zombie"}}
Zombies == {p \in Children(Init1) : state[p] = "zombie"}

----------------------------------------------------------------------------
(* The container's processes.                                              *)

(* Linux refuses to fork a process that has a signal to handle.            *)
Fork(p, c) ==
  /\ ~Ended
  /\ state[p] = "running" /\ p \notin doomed
  /\ c # Main /\ state[c] = "unborn"
  /\ state' = [state EXCEPT ![c] = "running"]
  /\ parent' = [parent EXCEPT ![c] = p]
  /\ fromMain' = IF p \in fromMain THEN fromMain \cup {c} ELSE fromMain
  /\ late' = IF timer = "fired" THEN late \cup {c} ELSE late
  /\ UNCHANGED <<doomed, pend, sigCh, loopVars>>

(* A command started in the container from outside ("lxc exec").           *)
Attach(c) ==
  /\ ~Ended
  /\ c # Main /\ state[c] = "unborn"
  /\ state' = [state EXCEPT ![c] = "running"]
  /\ parent' = [parent EXCEPT ![c] = Host]
  /\ late' = IF timer = "fired" THEN late \cup {c} ELSE late
  /\ UNCHANGED <<fromMain, doomed, pend, sigCh, loopVars>>

(* PID 1 gets SIGCHLD if p was its child, or if it inherits a zombie.      *)
Exit(p) ==
  /\ ~Ended
  /\ state[p] = "running"
  /\ state' = [state EXCEPT ![p] = IF parent[p] = Host THEN "gone" ELSE "zombie"]
  /\ parent' = [c \in Proc |-> IF c \in Children(p) THEN Init1 ELSE parent[c]]
  /\ pend' = IF parent[p] = Init1 \/ \E c \in Children(p) : state[c] = "zombie"
             THEN pend \cup {"CHLD"} ELSE pend
  /\ UNCHANGED <<fromMain, late, doomed, sigCh, loopVars>>

(* A process waits for a child of its own.                                 *)
ProcWait(p, c) ==
  /\ ~Ended
  /\ state[p] = "running"
  /\ parent[c] = p /\ state[c] = "zombie"
  /\ state' = [state EXCEPT ![c] = "gone"]
  /\ UNCHANGED <<parent, fromMain, late, doomed, pend, sigCh, loopVars>>

(* LXD asks for a reboot (SIGINT) or a shutdown (SIGPWR).                  *)
Request(sig) ==
  /\ ~Ended
  /\ sig \in {"INT", "PWR"} \ pend
  /\ pend' = pend \cup {sig}
  /\ UNCHANGED <<procVars, sigCh, loopVars>>

(* Mutant of Deliver: the channel is not bounded.                          *)
DeliverUnbounded(sig) ==
  /\ ~Ended
  /\ sig \in pend
  /\ pend' = pend \ {sig}
  /\ sigCh' = Append(sigCh, sig)
  /\ UNCHANGED <<procVars, loopVars>>

(* signal.Notify: a full channel loses the signal.                         *)
Deliver(sig) ==
  /\ ~Ended
  /\ sig \in pend
  /\ pend' = pend \ {sig}
  /\ sigCh' = IF Len(sigCh) < Cap THEN Append(sigCh, sig) ELSE sigCh
  /\ UNCHANGED <<procVars, loopVars>>

----------------------------------------------------------------------------
(* Run.                                                                    *)

StartEntrypoint ==
  /\ pc = "start"
  /\ pc' = "recv"
  /\ state' = [state EXCEPT ![Main] = "running"]
  /\ parent' = [parent EXCEPT ![Main] = Init1]
  /\ fromMain' = {Main}
  /\ UNCHANGED <<late, doomed, pend, sigCh, sawMain, shuttingDown, rebootCmd, timer>>

(* exec fails: Run returns the error, and PID 1 exits (cmd/peel).          *)
StartFails ==
  /\ pc = "start"
  /\ pc' = "failed"
  /\ UNCHANGED <<procVars, pend, sigCh, sawMain, shuttingDown, rebootCmd, timer>>

(* The first request wins; kill(-1, SIGTERM) leaves the state as it is.    *)
beginShutdown(cmd) ==
  \/ shuttingDown /\ UNCHANGED <<shuttingDown, rebootCmd, timer>>
  \/ ~shuttingDown /\ shuttingDown' = TRUE /\ rebootCmd' = cmd /\ timer' = "sleeping"

ReceiveChld ==
  /\ pc = "recv"
  /\ sigCh # <<>> /\ Head(sigCh) = "CHLD"
  /\ sigCh' = Tail(sigCh)
  /\ pc' = "reapChld"
  /\ sawMain' = FALSE
  /\ UNCHANGED <<procVars, pend, shuttingDown, rebootCmd, timer>>

ReceiveRequest ==
  /\ pc = "recv"
  /\ sigCh # <<>> /\ Head(sigCh) \in {"INT", "PWR"}
  /\ sigCh' = Tail(sigCh)
  /\ beginShutdown(IF Head(sigCh) = "INT" THEN "RESTART" ELSE "POWER_OFF")
  /\ pc' = "reapAgain"
  /\ UNCHANGED <<procVars, pend, sawMain>>

(* Mutant of Wait4Child: the last child reaped decides about sawMain.      *)
Wait4ChildForgets(c) ==
  /\ pc \in {"reapChld", "reapAgain"}
  /\ c \in Zombies
  /\ state' = [state EXCEPT ![c] = "gone"]
  /\ sawMain' = (c = Main)
  /\ UNCHANGED <<parent, fromMain, late, doomed, pend, sigCh, pc, shuttingDown, rebootCmd, timer>>

(* reapAll: wait4 returns a dead child, and the loop goes on; nothing is   *)
(* dead (pid 0); there is no child at all (ECHILD).                        *)
Wait4Child(c) ==
  /\ pc \in {"reapChld", "reapAgain"}
  /\ c \in Zombies
  /\ state' = [state EXCEPT ![c] = "gone"]
  /\ sawMain' = (sawMain \/ c = Main)
  /\ UNCHANGED <<parent, fromMain, late, doomed, pend, sigCh, pc, shuttingDown, rebootCmd, timer>>

Wait4Nothing == Zombies = {} /\ Children(Init1) # {}

Wait4Echild == Children(Init1) = {}

(* Mutant of ReapedChld: reapAll returns after a single wait4.             *)
ReapedChldEarly ==
  /\ pc = "reapChld"
  /\ IF sawMain /\ ~shuttingDown THEN beginShutdown("POWER_OFF")
                                 ELSE UNCHANGED <<shuttingDown, rebootCmd, timer>>
  /\ pc' = CASE shuttingDown' /\ Wait4Echild -> "done"
             [] shuttingDown' /\ ~Wait4Echild -> "reapAgain"
             [] ~shuttingDown' -> "recv"
  /\ UNCHANGED <<procVars, pend, sigCh, sawMain>>

(* The rest of the SIGCHLD case, after reapAll has returned.               *)
ReapedChld ==
  /\ pc = "reapChld"
  /\ Wait4Nothing \/ Wait4Echild
  /\ IF sawMain /\ ~shuttingDown THEN beginShutdown("POWER_OFF")
                                 ELSE UNCHANGED <<shuttingDown, rebootCmd, timer>>
  /\ pc' = CASE shuttingDown' /\ Wait4Echild -> "done"
             [] shuttingDown' /\ ~Wait4Echild -> "reapAgain"
             [] ~shuttingDown' -> "recv"
  /\ UNCHANGED <<procVars, pend, sigCh, sawMain>>

(* Mutant of ReapedAgain: the reboot does not wait for live children.      *)
ReapedAgainHasty ==
  /\ pc = "reapAgain"
  /\ Wait4Nothing \/ Wait4Echild
  /\ pc' = "done"
  /\ UNCHANGED <<procVars, pend, sigCh, sawMain, shuttingDown, rebootCmd, timer>>

(* The check after the switch, made only while shutting down.              *)
ReapedAgain ==
  /\ pc = "reapAgain"
  /\ Wait4Nothing \/ Wait4Echild
  /\ pc' = IF Wait4Echild THEN "done" ELSE "recv"
  /\ UNCHANGED <<procVars, pend, sigCh, sawMain, shuttingDown, rebootCmd, timer>>

(* reboot(2); should it fail, PID 1 exits, which ends the container too.   *)
Reboot ==
  /\ pc = "done"
  /\ pc' = "off"
  /\ UNCHANGED <<procVars, pend, sigCh, sawMain, shuttingDown, rebootCmd, timer>>

Running == {p \in Proc : state[p] = "running"}

(* Mutant of GraceElapsed: SIGKILL goes to the entrypoint only.            *)
GraceElapsedMainOnly ==
  /\ timer = "sleeping" /\ ~Ended
  /\ timer' = "fired"
  /\ doomed' = Running \cap {Main}
  /\ UNCHANGED <<state, parent, fromMain, late, pend, sigCh, pc, sawMain, shuttingDown, rebootCmd>>

GraceElapsed ==
  /\ timer = "sleeping" /\ ~Ended
  /\ timer' = "fired"
  /\ doomed' = Running
  /\ UNCHANGED <<state, parent, fromMain, late, pend, sigCh, pc, sawMain, shuttingDown, rebootCmd>>

----------------------------------------------------------------------------

Run ==
  \/ StartEntrypoint \/ StartFails
  \/ ReceiveChld \/ ReceiveRequest
  \/ ReapedChld \/ ReapedAgain \/ Reboot
  \/ \E c \in Proc : Wait4Child(c)

Next ==
  \/ Run
  \/ GraceElapsed
  \/ \E sig \in Signal : Request(sig) \/ Deliver(sig)
  \/ \E p \in Proc : Attach(p) \/ Exit(p)
  \/ \E p, c \in Proc : Fork(p, c) \/ ProcWait(p, c)

(* PID 1 is scheduled, pending signals are delivered, the timer elapses    *)
(* and what SIGKILL has hit dies.  Nothing else is assumed of processes:   *)
(* they may ignore SIGTERM and leave their zombies alone.                  *)
Fairness ==
  /\ WF_vars(Run)
  /\ WF_vars(GraceElapsed)
  /\ \A sig \in Signal : WF_vars(Deliver(sig))
  /\ \A p \in Proc : WF_vars(p \in doomed /\ Exit(p))

SafetySpec == Init /\ [][Next]_vars
Spec == SafetySpec /\ Fairness

----------------------------------------------------------------------------
(* Safety.                                                                 *)

(* PID 1 never blocks on sigCh for ever: when it waits and nothing is on   *)
(* its way to it, no zombie is left behind and, in a shutdown, some child  *)
(* is still running whose death will wake it.  SIGCHLDs that were merged   *)
(* or dropped never matter.                                                *)
NoLostWakeup ==
  pc = "recv" /\ sigCh = <<>> /\ "CHLD" \notin pend
    => Zombies = {} /\ (shuttingDown => Children(Init1) # {})

(* The death of the entrypoint is acted upon, whoever is reaped with it    *)
(* and in whichever of the two reapAll calls.                              *)
MainNoticed == state[Main] = "gone" => shuttingDown \/ (pc = "reapChld" /\ sawMain)

(* When PID 1 reboots, every process descended from the entrypoint has     *)
(* died and been waited for: ECHILD, which speaks of children only, means  *)
(* that the whole tree is empty.                                           *)
TreeEmptyAtReboot ==
  pc \in {"done", "off"} => \A p \in fromMain : state[p] = "gone"

----------------------------------------------------------------------------
(* Liveness.                                                               *)

(* A process that came into the container after SIGKILL was sent, and      *)
(* stays: SIGKILL is not sent again, so the shutdown waits for it if it is *)
(* orphaned.                                                               *)
Latecomer == late \cap Running # {}
NoLatecomerStays == []<>~Latecomer

(* Once the entrypoint is dead, a request has reached sigCh or a shutdown  *)
(* has begun, the container goes down, although processes ignore SIGTERM,  *)
(* fork, and are orphaned.  A request that finds sigCh full is lost.       *)
Requested == \E i \in DOMAIN sigCh : sigCh[i] # "CHLD"
ShutdownCompletes ==
  NoLatecomerStays => ((shuttingDown \/ Requested \/ state[Main] = "zombie") ~> Ended)

(* A zombie that PID 1 is the parent of is reaped.                         *)
ZombiesReaped == \A p \in Proc : p \in Zombies ~> state[p] = "gone" \/ Ended

(* PID 1 always gets on with its two duties, in a shutdown and before it.  *)
SupervisorProgresses == ShutdownCompletes /\ ZombiesReaped
=============================================================================
