----------------------------- MODULE FilesystemLock -----------------------------
(***************************************************************************)
(* twisted.python.lockfile.FilesystemLock on a system with symbolic links: *)
(* processes that take, release and break a lock by system calls, one at a *)
(* time, and that may die between any two of them.  The flag `clean' of a  *)
(* lock, which nothing in the code reads, is left out.                     *)
(***************************************************************************)
EXTENDS FiniteSets

CONSTANT Processes   \* process ids; a new process may get the id of a dead one

NoLink == "noLink"

\* What is no link is not the id of a process either.
FilesystemLockAssumption == NoLink \notin Processes

VARIABLES
    link,     \* the pid that the symbolic link names, NoLink if there is none
    alive,    \* [p] a process with this id exists
    at,       \* [p] the system call that comes next, "idle" outside lock and unlock
    pid,      \* [p] what readlink returned
    locked,   \* [p] self.locked
    same,     \* history: [p] the link is the very one that p has read
    raced     \* history: a process removed another link than the one it had read

fsVars == <<link, alive, at, pid, locked, same, raced>>

Init ==
    /\ link = NoLink
    /\ alive = [p \in Processes |-> TRUE]
    /\ at = [p \in Processes |-> "idle"]
    /\ pid = [p \in Processes |-> NoLink]
    /\ locked = [p \in Processes |-> FALSE]
    /\ same = [p \in Processes |-> FALSE]
    /\ raced = FALSE

Goes(p, from, to) == at[p] = from /\ at' = [at EXCEPT ![p] = to]

-------------------------------------------------------------------------------
(***************************************************************************)
(* lock()                                                                  *)
(***************************************************************************)
Lock(p) ==
    /\ alive[p] /\ ~locked[p]
    /\ Goes(p, "idle", "symlink")
    /\ UNCHANGED <<link, alive, pid, locked, same, raced>>

Symlink(p) ==
    /\ link = NoLink
    /\ Goes(p, "symlink", "idle")
    /\ link' = p
    /\ locked' = [locked EXCEPT ![p] = TRUE]
    /\ UNCHANGED <<alive, pid, same, raced>>

SymlinkExists(p) ==
    /\ link # NoLink
    /\ Goes(p, "symlink", "readlink")
    /\ UNCHANGED <<link, alive, pid, locked, same, raced>>

Readlink(p) ==
    /\ link # NoLink
    /\ Goes(p, "readlink", "kill")
    /\ pid' = [pid EXCEPT ![p] = link]
    /\ same' = [same EXCEPT ![p] = TRUE]
    /\ UNCHANGED <<link, alive, locked, raced>>

\* ENOENT: the lock has vanished, try again.
ReadlinkFails(p) ==
    /\ link = NoLink
    /\ Goes(p, "readlink", "symlink")
    /\ UNCHANGED <<link, alive, pid, locked, same, raced>>

KillIgnored(p) == TRUE

OwnerGone(p) == ~alive[pid[p]]

\* kill(pid, 0): the owner is there, lock() returns False ...
KillSucceeds(p) ==
    /\ Goes(p, "kill", "idle")
    /\ ~OwnerGone(p)
    /\ UNCHANGED <<link, alive, pid, locked, same, raced>>

\* ... or ESRCH: it is not.
KillFails(p) ==
    /\ Goes(p, "kill", "rmlink")
    /\ OwnerGone(p)
    /\ UNCHANGED <<link, alive, pid, locked, same, raced>>

\* The link goes, whoever made it.
Unlink == link' = NoLink /\ same' = [q \in Processes |-> FALSE]

Rmlink(p) ==
    /\ link # NoLink
    /\ Goes(p, "rmlink", "symlink")
    /\ Unlink
    /\ raced' = (raced \/ ~same[p])
    /\ UNCHANGED <<alive, pid, locked>>

\* ENOENT: another process cleaned up the lock.
RmlinkFails(p) ==
    /\ link = NoLink
    /\ Goes(p, "rmlink", "symlink")
    /\ UNCHANGED <<link, alive, pid, locked, same, raced>>

-------------------------------------------------------------------------------
(***************************************************************************)
(* unlock(); isLocked() is lock() followed by unlock().                    *)
(***************************************************************************)
Unlock(p) ==
    /\ alive[p] /\ locked[p]
    /\ Goes(p, "idle", "ownReadlink")
    /\ UNCHANGED <<link, alive, pid, locked, same, raced>>

OwnReadlink(p) ==
    /\ link = p
    /\ Goes(p, "ownReadlink", "ownRmlink")
    /\ UNCHANGED <<link, alive, pid, locked, same, raced>>

\* readlink or the comparison of the pids fails: unlock() raises.
NotOwned(p) ==
    /\ link # p
    /\ Goes(p, "ownReadlink", "idle")
    /\ UNCHANGED <<link, alive, pid, locked, same, raced>>

OwnRmlink(p) ==
    /\ link # NoLink
    /\ Goes(p, "ownRmlink", "idle")
    /\ Unlink
    /\ locked' = [locked EXCEPT ![p] = FALSE]
    /\ UNCHANGED <<alive, pid, raced>>

OwnRmlinkFails(p) ==
    /\ link = NoLink
    /\ Goes(p, "ownRmlink", "idle")
    /\ UNCHANGED <<link, alive, pid, locked, same, raced>>

-------------------------------------------------------------------------------
(***************************************************************************)
(* A process dies, leaving its link behind; its id is used again.          *)
(***************************************************************************)
Crash(p) ==
    /\ alive[p]
    /\ alive' = [alive EXCEPT ![p] = FALSE]
    /\ at' = [at EXCEPT ![p] = "idle"]
    /\ locked' = [locked EXCEPT ![p] = FALSE]
    /\ UNCHANGED <<link, pid, same, raced>>

Reborn(p) ==
    /\ ~alive[p]
    /\ alive' = [alive EXCEPT ![p] = TRUE]
    /\ UNCHANGED <<link, at, pid, locked, same, raced>>

Next ==
    \E p \in Processes :
        \/ Lock(p) \/ Symlink(p) \/ SymlinkExists(p) \/ Readlink(p) \/ ReadlinkFails(p)
        \/ KillSucceeds(p) \/ KillFails(p) \/ Rmlink(p) \/ RmlinkFails(p)
        \/ Unlock(p) \/ OwnReadlink(p) \/ NotOwned(p) \/ OwnRmlink(p) \/ OwnRmlinkFails(p)
        \/ Crash(p) \/ Reborn(p)

Spec == Init /\ [][Next]_fsVars

-------------------------------------------------------------------------------
(***************************************************************************)
(* The class is documented as a mutex.                                     *)
(***************************************************************************)
MutualExclusion == \A p, q \in Processes : locked[p] /\ locked[q] => p = q

(***************************************************************************)
(* What lock(), unlock() and the death of processes keep true: the link    *)
(* names the process that has the lock, so nobody else can have it, and    *)
(* unlock() never fails.  Only one thing can go wrong: a process that      *)
(* breaks a dead owner's lock removes, without looking again, the link     *)
(* that another one has made since.                                        *)
(***************************************************************************)
HolderOwnsTheLink ==
    ~raced => \A p \in Processes :
                 /\ locked[p] => link = p
                 /\ at[p] = "ownRmlink" => link = p
===============================================================================
