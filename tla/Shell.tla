-------------------------------- MODULE Shell ---------------------------------
(***************************************************************************)
(* The shell tool (crates/tools/src/shell.rs): a command runs in a process *)
(* group of its own, which is registered for emergency exits, killed when  *)
(* the call is cancelled or its time is up, and killed again when the      *)
(* group's guard is dropped.  Two pumps read the command's pipes until     *)
(* nobody can write any more, or until the call is cancelled or times out. *)
(*                                                                         *)
(* What the command prints is left out, and the two pumps are one.         *)
(***************************************************************************)
CONSTANTS
    Shells  \* the shell calls of the run

VARIABLES
    shell,       \* shell[c]: where the call and its processes are
    shellGroups  \* shell.rs GROUPS: the groups `cancel_processes` would kill

shellVars == <<shell, shellGroups>>

Call == [pc       : {"idle", "spawned", "waiting", "killed", "done"},
         group    : {"none", "alive", "orphans", "dead"},
         over     : BOOLEAN,   \* cancelled, or the deadline has passed
         outsider : BOOLEAN]   \* a process that left the group holds a pipe

ShellTypeOK == shell \in [Shells -> Call] /\ shellGroups \subseteq Shells

ShellInit ==
    /\ shell = [c \in Shells |->
                  [pc |-> "idle", group |-> "none", over |-> FALSE, outsider |-> FALSE]]
    /\ shellGroups = {}

(* The call goes on to `pc` and leaves its group as `group`.               *)
Goes(c, pc, group) ==
    shell' = [shell EXCEPT ![c] = [pc |-> pc, group |-> group,
                                   over |-> @.over, outsider |-> @.outsider]]

Flags(c, over, outsider) ==
    shell' = [shell EXCEPT ![c] = [pc |-> @.pc, group |-> @.group,
                                   over |-> over, outsider |-> outsider]]

(* Refused before it started: cancelled, bad input, or no shell to run it. *)
ShellRefused(c) ==
    /\ shell[c].pc = "idle"
    /\ Goes(c, "done", "none")
    /\ UNCHANGED shellGroups

(* `cmd.spawn()`; the token was looked at before.                          *)
ShellSpawn(c) ==
    /\ shell[c].pc = "idle"
    /\ Goes(c, "spawned", "alive")
    /\ UNCHANGED shellGroups

(* `ProcessGroup::new`.                                                    *)
ShellRegister(c) ==
    /\ shell[c].pc = "spawned"
    /\ Goes(c, "waiting", shell[c].group)
    /\ shellGroups' = shellGroups \cup {c}

(* The token fires or the deadline, which every call has, passes.          *)
ShellExpires(c) ==
    /\ shell[c].pc \in {"waiting", "killed"} /\ ~shell[c].over
    /\ Flags(c, TRUE, shell[c].outsider)
    /\ UNCHANGED shellGroups

(* `wait`: stopped, or the shell has exited; either way its group is       *)
(* killed, and then the shell itself has ended.                            *)
ShellKill(c) ==
    /\ shell[c].pc = "waiting"
    /\ shell[c].over \/ shell[c].group # "alive"
    /\ Goes(c, "killed", "dead")
    /\ UNCHANGED shellGroups

(* The pumps have ended: nobody holds the pipes open, or the call is over. *)
Drained(c) == shell[c].over \/ ~shell[c].outsider

(* `execute` returns, or bails out because the timeout is too large: the   *)
(* guard is dropped, which kills the group and forgets it.                 *)
ShellReturn(c) ==
    /\ shell[c].pc = "waiting" \/ (shell[c].pc = "killed" /\ Drained(c))
    /\ Goes(c, "done", "dead")
    /\ shellGroups' = shellGroups \ {c}

ShellTasks(c) ==
    ShellRegister(c) \/ ShellExpires(c) \/ ShellKill(c) \/ ShellReturn(c)

(* The command: it ends with or without children that stay behind in its   *)
(* group, and a process of it may leave the group with the pipes open.     *)
CommandSide(c) ==
    /\ UNCHANGED shellGroups
    /\ \/ /\ shell[c].group = "alive"
          /\ \E g \in {"orphans", "dead"} : Goes(c, shell[c].pc, g)
       \/ /\ shell[c].group = "orphans"
          /\ Goes(c, shell[c].pc, "dead")
       \/ /\ shell[c].group \in {"alive", "orphans"} /\ ~shell[c].outsider
          /\ Flags(c, shell[c].over, TRUE)
       \/ /\ shell[c].outsider
          /\ Flags(c, shell[c].over, FALSE)
=============================================================================
