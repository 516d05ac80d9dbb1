--------------------------- MODULE BookkeepingProofs ---------------------------
(***************************************************************************)
(* Proofs about the components that MCBookkeeping puts side by side, each  *)
(* for every value of its constants and from its own specification:        *)
(* FilesystemLock, DirDBM, DeferredFilesystemLock, Connector, DNSResolver, *)
(* Cooperator and HTTPClient.  The prefixes are the names of the instances *)
(* (Link! is FilesystemLock); Cooperator has none.                         *)
(***************************************************************************)
EXTENDS MCBookkeeping, FiniteSetTheorems, NaturalsInduction, WellFoundedInduction, TLAPS

-------------------------------------------------------------------------------
(***************************************************************************)
(* FilesystemLock.  The invariant says which link a process that is about  *)
(* to remove one has read, and whose it is.                                *)
(***************************************************************************)
Calls == {"idle", "symlink", "readlink", "kill", "rmlink", "ownReadlink", "ownRmlink"}

LinkTypes ==
    /\ link \in Processes \cup {Link!NoLink}
    /\ alive \in [Processes -> BOOLEAN]
    /\ at \in [Processes -> Calls]
    /\ pid \in [Processes -> Processes \cup {Link!NoLink}]
    /\ locked \in [Processes -> BOOLEAN]
    /\ same \in [Processes -> BOOLEAN]

\* A dead process is nowhere; unlock() is called by a process that has the lock.
Unlocking ==
    \A p \in Processes :
        /\ ~alive[p] => ~locked[p] /\ at[p] = "idle"
        /\ at[p] \in {"ownReadlink", "ownRmlink"} => locked[p]

\* The link that was read is there as long as `same' says so, and then a process
\* that is about to break the lock knows that nobody has it.
Breaking ==
    \A p \in Processes :
        /\ at[p] \in {"kill", "rmlink"} => pid[p] \in Processes
        /\ same[p] => link = pid[p] /\ link # Link!NoLink
        /\ (at[p] = "rmlink" /\ same[p]) => ~locked[pid[p]]

LinkInvariant == LinkTypes /\ Unlocking /\ Breaking /\ Link!HolderOwnsTheLink

LEMMA LinkInit == Link!Init => LinkInvariant
BY LinkAssumption
   DEF Link!Init, LinkInvariant, LinkTypes, Calls, Unlocking, Breaking,
       Link!HolderOwnsTheLink, Link!FilesystemLockAssumption, Link!NoLink

LEMMA LinkTypesStep == LinkTypes /\ [Link!Next]_(Link!fsVars) => LinkTypes'
<1> SUFFICES ASSUME LinkTypes, [Link!Next]_(Link!fsVars) PROVE LinkTypes'
  OBVIOUS
<1> USE DEF LinkTypes, Calls, Link!NoLink, Link!Goes, Link!Unlink
<1>1. ASSUME NEW p \in Processes, Link!Lock(p) PROVE LinkTypes'
  BY <1>1 DEF Link!Lock
<1>2. ASSUME NEW p \in Processes, Link!Symlink(p) PROVE LinkTypes'
  BY <1>2 DEF Link!Symlink
<1>3. ASSUME NEW p \in Processes, Link!SymlinkExists(p) PROVE LinkTypes'
  BY <1>3 DEF Link!SymlinkExists
<1>4. ASSUME NEW p \in Processes, Link!Readlink(p) PROVE LinkTypes'
  BY <1>4 DEF Link!Readlink
<1>5. ASSUME NEW p \in Processes, Link!ReadlinkFails(p) PROVE LinkTypes'
  BY <1>5 DEF Link!ReadlinkFails
<1>6. ASSUME NEW p \in Processes, Link!KillSucceeds(p) PROVE LinkTypes'
  BY <1>6 DEF Link!KillSucceeds
<1>7. ASSUME NEW p \in Processes, Link!KillFails(p) PROVE LinkTypes'
  BY <1>7 DEF Link!KillFails
<1>8. ASSUME NEW p \in Processes, Link!Rmlink(p) PROVE LinkTypes'
  BY <1>8 DEF Link!Rmlink
<1>9. ASSUME NEW p \in Processes, Link!RmlinkFails(p) PROVE LinkTypes'
  BY <1>9 DEF Link!RmlinkFails
<1>10. ASSUME NEW p \in Processes, Link!Unlock(p) PROVE LinkTypes'
  BY <1>10 DEF Link!Unlock
<1>11. ASSUME NEW p \in Processes, Link!OwnReadlink(p) PROVE LinkTypes'
  BY <1>11 DEF Link!OwnReadlink
<1>12. ASSUME NEW p \in Processes, Link!NotOwned(p) PROVE LinkTypes'
  BY <1>12 DEF Link!NotOwned
<1>13. ASSUME NEW p \in Processes, Link!OwnRmlink(p) PROVE LinkTypes'
  BY <1>13 DEF Link!OwnRmlink
<1>14. ASSUME NEW p \in Processes, Link!OwnRmlinkFails(p) PROVE LinkTypes'
  BY <1>14 DEF Link!OwnRmlinkFails
<1>15. ASSUME NEW p \in Processes, Link!Crash(p) PROVE LinkTypes'
  BY <1>15 DEF Link!Crash
<1>16. ASSUME NEW p \in Processes, Link!Reborn(p) PROVE LinkTypes'
  BY <1>16 DEF Link!Reborn
<1>20. CASE UNCHANGED Link!fsVars
  BY <1>20 DEF Link!fsVars
<1> QED BY <1>1, <1>2, <1>3, <1>4, <1>5, <1>6, <1>7, <1>8, <1>9, <1>10, <1>11, <1>12, <1>13, <1>14, <1>15, <1>16, <1>20 DEF Link!Next

LEMMA LinkStep == LinkInvariant /\ [Link!Next]_(Link!fsVars) => LinkInvariant'
<1> SUFFICES ASSUME LinkInvariant, [Link!Next]_(Link!fsVars) PROVE LinkInvariant'
  OBVIOUS
<1>0. LinkTypes'
  BY LinkTypesStep DEF LinkInvariant
<1> DEFINE Rest == Unlocking /\ Breaking /\ Link!HolderOwnsTheLink
<1> USE LinkAssumption DEF LinkInvariant, LinkTypes, Unlocking, Breaking,
    Link!HolderOwnsTheLink, Link!FilesystemLockAssumption, Link!NoLink, Link!Goes, Link!Unlink
<1>1. ASSUME NEW p \in Processes, Link!Lock(p) PROVE Rest'
  BY <1>1 DEF Link!Lock
<1>2. ASSUME NEW p \in Processes, Link!Symlink(p) PROVE Rest'
  BY <1>2 DEF Link!Symlink
<1>3. ASSUME NEW p \in Processes, Link!SymlinkExists(p) PROVE Rest'
  BY <1>3 DEF Link!SymlinkExists
<1>4. ASSUME NEW p \in Processes, Link!Readlink(p) PROVE Rest'
  BY <1>4 DEF Link!Readlink
<1>5. ASSUME NEW p \in Processes, Link!ReadlinkFails(p) PROVE Rest'
  BY <1>5 DEF Link!ReadlinkFails
<1>6. ASSUME NEW p \in Processes, Link!KillSucceeds(p) PROVE Rest'
  BY <1>6 DEF Link!KillSucceeds
<1>7. ASSUME NEW p \in Processes, Link!KillFails(p) PROVE Rest'
  BY <1>7 DEF Link!KillFails, Link!OwnerGone
<1>8. ASSUME NEW p \in Processes, Link!Rmlink(p) PROVE Rest'
  BY <1>8 DEF Link!Rmlink
<1>9. ASSUME NEW p \in Processes, Link!RmlinkFails(p) PROVE Rest'
  BY <1>9 DEF Link!RmlinkFails
<1>10. ASSUME NEW p \in Processes, Link!Unlock(p) PROVE Rest'
  BY <1>10 DEF Link!Unlock
<1>11. ASSUME NEW p \in Processes, Link!OwnReadlink(p) PROVE Rest'
  BY <1>11 DEF Link!OwnReadlink
<1>12. ASSUME NEW p \in Processes, Link!NotOwned(p) PROVE Rest'
  BY <1>12 DEF Link!NotOwned
<1>13. ASSUME NEW p \in Processes, Link!OwnRmlink(p) PROVE Rest'
  BY <1>13 DEF Link!OwnRmlink
<1>14. ASSUME NEW p \in Processes, Link!OwnRmlinkFails(p) PROVE Rest'
  BY <1>14 DEF Link!OwnRmlinkFails
<1>15. ASSUME NEW p \in Processes, Link!Crash(p) PROVE Rest'
  BY <1>15 DEF Link!Crash
<1>16. ASSUME NEW p \in Processes, Link!Reborn(p) PROVE Rest'
  BY <1>16 DEF Link!Reborn
<1>20. CASE UNCHANGED Link!fsVars
  BY <1>20 DEF Link!fsVars
<1> QED
  BY <1>0, <1>1, <1>2, <1>3, <1>4, <1>5, <1>6, <1>7, <1>8, <1>9, <1>10, <1>11, <1>12, <1>13, <1>14, <1>15, <1>16, <1>20
  DEF Link!Next

(***************************************************************************)
(* As long as no process has removed another link than the one it read,    *)
(* whoever has the lock owns the link, however processes lock, unlock,     *)
(* break a dead owner's lock, die and come back.                           *)
(***************************************************************************)
THEOREM LinkIsOwned == Link!Spec => []HolderOwnsTheLink
<1>1. Link!Spec => []LinkInvariant
  BY LinkInit, LinkStep, PTL DEF Link!Spec
<1>2. LinkInvariant => HolderOwnsTheLink
  BY DEF LinkInvariant, HolderOwnsTheLink
<1> QED BY <1>1, <1>2, PTL

-------------------------------------------------------------------------------
(***************************************************************************)
(* DirDBM.  The invariant says what an operation that is going on has left *)
(* in the directory, and that the rest of it is in order: no .rpl file is  *)
(* left once the directory is open and no assignment is going on.  None of *)
(* this holds of a key for which os.remove or os.rename has failed.        *)
(***************************************************************************)
SettingAts == {"write", "removePartial", "removeOld", "rename"}

Settings == [at : SettingAts, key : Keys, value : Values, ext : {"rpl", "new"}]

FileTypes ==
    /\ file \in [Keys -> Dbm!Contents]
    /\ rpl \in [Keys -> Dbm!Contents]
    /\ new \in [Keys -> Dbm!Contents]
    /\ dbmUp \in BOOLEAN /\ torn \in SUBSET Keys

OpTypes ==
    /\ op.at \in SettingAts \cup {"nothing", "recover"}
    /\ op.at = "nothing" => op = Dbm!Nothing
    /\ op.at \in SettingAts => op \in Settings

\* The files of the key that is being set.
SettingKey(k) ==
    /\ op.ext = "new" => rpl[k] = Dbm!Absent /\ file[k] = Dbm!Absent
    /\ (op.ext = "rpl" /\ op.at # "rename") => file[k] # Dbm!Absent
    /\ op.at = "removeOld" => op.ext = "rpl"
    /\ op.at = "rename" => file[k] = Dbm!Absent
    /\ (op.at \in {"removeOld", "rename"} /\ op.ext = "rpl") => rpl[k] = op.value
    /\ (op.at = "rename" /\ op.ext = "new") => new[k] = op.value

Directory ==
    /\ (dbmUp /\ op.at = "nothing") => \A k \in Keys \ torn : rpl[k] = Dbm!Absent
    /\ op.at = "recover" => ~dbmUp
    /\ op.at \in SettingAts =>
          /\ dbmUp
          /\ op.key \notin torn => SettingKey(op.key)
          /\ \A k \in Keys \ (torn \cup {op.key}) : rpl[k] = Dbm!Absent

DbmInvariant == FileTypes /\ OpTypes /\ Directory

LEMMA DbmInit == Dbm!Init => DbmInvariant
BY DEF Dbm!Init, DbmInvariant, FileTypes, OpTypes, Directory, Dbm!Contents, Dbm!Absent, Dbm!Partial,
       Dbm!Nothing, SettingAts

\* What an assignment that is going on may rely on.
LEMMA SettingFacts ==
    ASSUME DbmInvariant, op.at \in SettingAts
    PROVE  /\ op \in Settings /\ op.key \in Keys /\ op.value \in Values /\ op.ext \in {"rpl", "new"}
           /\ dbmUp /\ (op.key \notin torn => SettingKey(op.key))
           /\ \A k \in Keys \ (torn \cup {op.key}) : rpl[k] = "absent"
           /\ op # Dbm!Nothing
BY DEF DbmInvariant, OpTypes, Directory, Settings, SettingAts, Dbm!Absent, Dbm!Nothing

\* What is written into the file that __setitem__ writes leaves the others alone.
LEMMA WriteFacts ==
    ASSUME FileTypes, NEW k \in Keys, NEW e \in {"rpl", "new"}, NEW c \in Dbm!Contents,
           Dbm!Write(k, e, c)
    PROVE  /\ rpl' \in [Keys -> Dbm!Contents] /\ new' \in [Keys -> Dbm!Contents]
           /\ \A j \in Keys \ {k} : rpl'[j] = rpl[j]
           /\ rpl'[k] = IF e = "rpl" THEN c ELSE rpl[k]
           /\ new'[k] = IF e = "new" THEN c ELSE new[k]
<1>1. CASE e = "rpl"
  BY <1>1 DEF FileTypes, Dbm!Write
<1>2. CASE e = "new"
  BY <1>2 DEF FileTypes, Dbm!Write
<1> QED BY <1>1, <1>2

LEMMA DbmStep == DbmInvariant /\ [Dbm!Next]_(Dbm!dbmVars) => DbmInvariant'
<1> SUFFICES ASSUME DbmInvariant, [Dbm!Next]_(Dbm!dbmVars) PROVE DbmInvariant'
  OBVIOUS
<1> USE DbmAssumption DEF DbmInvariant, FileTypes, OpTypes, Directory, Dbm!Contents, Dbm!Absent, Dbm!Partial,
       Dbm!Nothing, Settings, SettingAts, SettingKey, Dbm!DirDBMAssumption
<1>1. ASSUME NEW k \in Keys, NEW v \in Values, Dbm!SetItem(k, v) PROVE DbmInvariant'
  <2>1. /\ rpl' \in [Keys -> Dbm!Contents] /\ new' \in [Keys -> Dbm!Contents]
        /\ \A j \in Keys \ {k} : rpl'[j] = rpl[j]
        /\ rpl'[k] = IF file[k] # "absent" THEN "partial" ELSE rpl[k]
    BY <1>1, WriteFacts DEF Dbm!SetItem, Dbm!Extension
  <2> QED BY <1>1, <2>1 DEF Dbm!SetItem, Dbm!Extension
<1>2. ASSUME NEW k \in Keys, Dbm!DelItem(k) PROVE DbmInvariant'
  BY <1>2 DEF Dbm!DelItem
<1>3. ASSUME NEW k \in Keys, Dbm!RemoveNew(k) PROVE DbmInvariant'
  BY <1>3 DEF Dbm!RemoveNew
<1>4. ASSUME NEW k \in Keys, Dbm!Replace(k) PROVE DbmInvariant'
  BY <1>4 DEF Dbm!Replace, Dbm!Replaces
<1>5. CASE Dbm!Written
  <2> DEFINE k == op.key
  <2>0. /\ op \in Settings /\ k \in Keys /\ op.value \in Values /\ dbmUp /\ dbmUp'
        /\ op.at = "write" /\ op.ext \in {"rpl", "new"}
        /\ k \notin torn => SettingKey(k)
        /\ \A j \in Keys \ (torn \cup {k}) : rpl[j] = "absent"
    BY <1>5, SettingFacts DEF Dbm!Written
  <2>1. /\ file' = file /\ torn' = torn /\ op'.key = k /\ op'.value = op.value /\ op'.ext = op.ext
        /\ op'.at = (IF file[k] # "absent" THEN "removeOld" ELSE "rename")
        /\ op' \in Settings
    BY <1>5, <2>0 DEF Dbm!Written
  <2>2. /\ rpl' \in [Keys -> Dbm!Contents] /\ new' \in [Keys -> Dbm!Contents]
        /\ \A j \in Keys \ {k} : rpl'[j] = rpl[j]
        /\ rpl'[k] = IF op.ext = "rpl" THEN op.value ELSE rpl[k]
        /\ new'[k] = IF op.ext = "new" THEN op.value ELSE new[k]
    BY <1>5, <2>0, WriteFacts DEF Dbm!Written
  <2>3. FileTypes' /\ OpTypes'
    BY <2>0, <2>1, <2>2
  <2>4. k \notin torn => SettingKey(k)'
    BY <2>0, <2>1, <2>2
  <2>5. Directory'
    BY <2>0, <2>1, <2>2, <2>4
  <2> QED BY <2>3, <2>5
<1>6. CASE Dbm!WriteFails
  BY <1>6 DEF Dbm!WriteFails
<1>7. CASE Dbm!RemovePartial
  <2>0. /\ op.key \in Keys /\ op.ext \in {"rpl", "new"} /\ op.at = "removePartial"
        /\ op.key \notin torn => SettingKey(op.key)
        /\ \A j \in Keys \ (torn \cup {op.key}) : rpl[j] = "absent"
    BY <1>7, SettingFacts DEF Dbm!RemovePartial
  <2>1. /\ rpl' \in [Keys -> Dbm!Contents] /\ new' \in [Keys -> Dbm!Contents]
        /\ \A j \in Keys \ {op.key} : rpl'[j] = rpl[j]
        /\ rpl'[op.key] = IF op.ext = "rpl" THEN "absent" ELSE rpl[op.key]
    BY <1>7, <2>0, WriteFacts DEF Dbm!RemovePartial
  <2>2. \A j \in Keys \ torn : rpl'[j] = "absent"
    BY <2>0, <2>1
  <2> QED BY <1>7, <2>1, <2>2 DEF Dbm!RemovePartial
<1>8. CASE Dbm!RemoveOld
  BY <1>8 DEF Dbm!RemoveOld
<1>9. CASE Dbm!Rename
  <2>0. /\ op.key \in Keys /\ op.ext \in {"rpl", "new"} /\ op.at = "rename"
        /\ op.key \notin torn => SettingKey(op.key)
        /\ \A j \in Keys \ (torn \cup {op.key}) : rpl[j] = "absent"
    BY <1>9, SettingFacts DEF Dbm!Rename
  <2>1. /\ rpl' \in [Keys -> Dbm!Contents] /\ new' \in [Keys -> Dbm!Contents]
        /\ \A j \in Keys \ {op.key} : rpl'[j] = rpl[j]
        /\ rpl'[op.key] = IF op.ext = "rpl" THEN "absent" ELSE rpl[op.key]
    BY <1>9, <2>0, WriteFacts DEF Dbm!Rename
  <2>2. \A j \in Keys \ torn : rpl'[j] = "absent"
    BY <2>0, <2>1
  <2> QED BY <1>9, <2>0, <2>1, <2>2 DEF Dbm!Rename
<1>10. CASE Dbm!RemoveOrRenameFails
  BY <1>10, SettingFacts DEF Dbm!RemoveOrRenameFails
<1>11. CASE Dbm!Crash
  BY <1>11 DEF Dbm!Crash
<1>12. CASE Dbm!Open
  BY <1>12 DEF Dbm!Open
<1>13. CASE Dbm!Recovered
  BY <1>13 DEF Dbm!Recovered
<1>20. CASE UNCHANGED Dbm!dbmVars
  BY <1>20 DEF Dbm!dbmVars
<1> QED
  BY <1>1, <1>2, <1>3, <1>4, <1>5, <1>6, <1>7, <1>8, <1>9, <1>10, <1>11, <1>12, <1>13, <1>20 DEF Dbm!Next

-------------------------------------------------------------------------------
(***************************************************************************)
(* The directory implements the map: the refinement mapping of DirDBM, and *)
(* what each step of the process is a step of.                             *)
(***************************************************************************)
Assigning == IF op.at \in {"write", "removeOld", "rename"} THEN {<<op.key, op.value>>} ELSE {}

Ready == dbmUp /\ op = Dbm!Nothing

Found == [k \in Keys |-> Dbm!Found(k)]

MapStep == Dbm!Map!Next \/ UNCHANGED <<Found, Assigning, Ready, torn>>

LEMMA DbmRefines == DbmInvariant /\ [Dbm!Next]_(Dbm!dbmVars) => MapStep
<1> SUFFICES ASSUME DbmInvariant, [Dbm!Next]_(Dbm!dbmVars) PROVE MapStep
  OBVIOUS
<1>i. DbmInvariant'
  BY DbmStep
\* A key that is in order has no .rpl file, but for the one that is being set.
<1>a. \A k \in Keys \ torn : Dbm!Found(k) = Dbm!Stored(k)
  BY DEF DbmInvariant, OpTypes, FileTypes, Directory, Dbm!Nothing, Dbm!Found, Dbm!Stored, Dbm!Absent
<1>b. \A k \in Keys \ torn' : Dbm!Found(k)' = Dbm!Stored(k)'
  BY <1>i DEF DbmInvariant, OpTypes, FileTypes, Directory, Dbm!Nothing, Dbm!Found, Dbm!Stored, Dbm!Absent
<1> DEFINE Kept == \A j \in Keys \ (torn \cup torn') : Dbm!Stored(j)' = Dbm!Stored(j)
           SetTo(k, v) == \A j \in Keys \ (torn \cup torn') :
                             Dbm!Stored(j)' = IF j = k THEN v ELSE Dbm!Stored(j)
<1>c. Kept => Dbm!Map!Becomes(Found)
  BY <1>a, <1>b DEF Dbm!Map!Becomes, Found
<1>d. ASSUME NEW k \in Keys, NEW v, SetTo(k, v) PROVE Dbm!Map!Becomes([Found EXCEPT ![k] = v])
  BY <1>a, <1>b, <1>d DEF Dbm!Map!Becomes, Found
\* While the directory is closed nothing of the map changes.
<1>e. ASSUME Kept, torn' = torn, ~Ready', Assigning' = {} PROVE MapStep
  BY <1>c, <1>e DEF MapStep, Dbm!Map!Next, Dbm!Map!Stop, Found, Ready, Assigning
<1> HIDE DEF Kept, SetTo
<1>1. ASSUME NEW k \in Keys, NEW v \in Values, Dbm!SetItem(k, v) PROVE MapStep
  <2>1. file' = file /\ torn' = torn /\ (file[k] = "absent" => rpl' = rpl)
        /\ \A j \in Keys \ {k} : rpl'[j] = rpl[j]
    BY <1>1 DEF Dbm!SetItem, Dbm!Write, Dbm!Extension, Dbm!Absent, DbmInvariant, FileTypes
  <2>2. Kept
    BY <2>1 DEF Kept, Dbm!Stored, Dbm!Absent
  <2>3. Ready /\ ~Ready' /\ Assigning' = {<<k, v>>}
    BY <1>1 DEF Dbm!SetItem, Ready, Assigning, Dbm!Nothing
  <2> QED BY <2>1, <2>2, <2>3, <1>c DEF MapStep, Dbm!Map!Next, Dbm!Map!Begin, Found, Ready, Assigning
<1>2. ASSUME NEW k \in Keys, Dbm!DelItem(k) PROVE MapStep
  <2>1. SetTo(k, "absent")
    BY <1>2 DEF Dbm!DelItem, SetTo, Dbm!Stored, Dbm!Absent, Dbm!Nothing, DbmInvariant, FileTypes, Directory
  <2>2. Ready /\ Ready' /\ Assigning' = {} /\ torn' = torn
    BY <1>2 DEF Dbm!DelItem, Ready, Assigning, Dbm!Nothing
  <2> QED
    BY <2>1, <2>2, <1>d DEF MapStep, Dbm!Map!Next, Dbm!Map!Delete, Found, Ready, Assigning, Dbm!Absent
<1>3. ASSUME NEW k \in Keys, Dbm!RemoveNew(k) PROVE MapStep
  <2>1. Kept /\ torn' = torn /\ ~Ready' /\ Assigning' = {}
    BY <1>3 DEF Dbm!RemoveNew, Kept, Dbm!Stored, Ready, Assigning, Dbm!Nothing
  <2> QED BY <2>1, <1>e
<1>4. ASSUME NEW k \in Keys, Dbm!Replace(k) PROVE MapStep
  <2>1. torn' = torn /\ ~Ready' /\ Assigning' = {}
    BY <1>4 DEF Dbm!Replace, Ready, Assigning, Dbm!Nothing
  <2>2. Kept
    BY <1>4 DEF Dbm!Replace, Dbm!Replaces, Kept, Dbm!Stored, Dbm!Absent, DbmInvariant, FileTypes
  <2> QED BY <2>1, <2>2, <1>e
<1>5. CASE Dbm!Written
  <2>0. /\ op \in Settings /\ op.key \in Keys /\ op.value \in Values /\ op.ext \in {"rpl", "new"}
        /\ op.at = "write" /\ dbmUp /\ (op.key \notin torn => SettingKey(op.key))
        /\ op # Dbm!Nothing
    BY <1>5, SettingFacts DEF Dbm!Written, SettingAts
  <2>1. /\ file' = file /\ torn' = torn /\ dbmUp' = dbmUp /\ op'.key = op.key /\ op'.value = op.value
        /\ op'.at \in {"removeOld", "rename"}
    BY <1>5, <2>0 DEF Dbm!Written, Settings, Dbm!Absent
  <2>2. op' # Dbm!Nothing
    BY <2>1 DEF Dbm!Nothing
  <2>3. Assigning' = Assigning /\ <<op.key, op.value>> \in Assigning /\ ~Ready /\ ~Ready'
    BY <2>0, <2>1, <2>2 DEF Assigning, Ready
  <2>4. \A j \in Keys \ {op.key} : Dbm!Found(j)' = Dbm!Found(j)
    BY <2>0, <2>1 DEF Dbm!Found
  <2>5. CASE op.key \in torn
    <3>1. Dbm!Map!Becomes([Found EXCEPT ![op.key] = op.value])
      BY <2>0, <2>4, <2>5 DEF Dbm!Map!Becomes, Found
    <3> QED
      BY <2>1, <2>3, <3>1 DEF MapStep, Dbm!Map!Next, Dbm!Map!Set, Found, Ready, Assigning
  <2>6. CASE op.key \notin torn
    <3>1. op.ext = "new" => rpl' = rpl
      BY <1>5, <2>0 DEF Dbm!Written, Dbm!Write
    <3>2. op.ext = "rpl" => file[op.key] # "absent"
      BY <2>0, <2>6 DEF SettingKey, Dbm!Absent
    <3>3. \A j \in Keys : j = op.key => Dbm!Found(j)' = Dbm!Found(j)
      BY <2>0, <2>1, <2>2, <3>1, <3>2 DEF Dbm!Found, Dbm!Stored, Dbm!Absent
    <3>4. Found' = Found
      BY <2>4, <3>3 DEF Found
    <3>5. Ready' = Ready
      BY <2>3 DEF Ready
    <3> QED BY <2>1, <2>3, <3>4, <3>5 DEF MapStep
  <2> QED BY <2>5, <2>6
<1>6. CASE Dbm!WriteFails
  <2>0. op \in Settings /\ op.at = "write"
    BY <1>6, SettingFacts DEF Dbm!WriteFails, SettingAts
  <2>1. Kept /\ torn' = torn
    BY <1>6 DEF Dbm!WriteFails, Kept, Dbm!Stored
  <2>2. op'.at = "removePartial"
    BY <1>6, <2>0 DEF Dbm!WriteFails, Settings
  <2>3. ~Ready' /\ Assigning' = {}
    BY <2>2 DEF Ready, Assigning, Dbm!Nothing
  <2> QED BY <2>1, <2>3, <1>e
<1>7. CASE Dbm!RemovePartial
  <2>0. /\ op.key \in Keys /\ op.ext \in {"rpl", "new"} /\ op.at = "removePartial" /\ dbmUp
        /\ (op.key \notin torn => SettingKey(op.key)) /\ op # Dbm!Nothing
    BY <1>7, SettingFacts DEF Dbm!RemovePartial, SettingAts
  <2>1. /\ file' = file /\ torn' = torn
        /\ \A j \in Keys \ {op.key} : rpl'[j] = rpl[j]
        /\ rpl'[op.key] = IF op.ext = "rpl" THEN "absent" ELSE rpl[op.key]
    BY <1>7, <2>0, WriteFacts DEF Dbm!RemovePartial, DbmInvariant, Dbm!Contents, Dbm!Absent
  <2>2. Kept
    BY <2>0, <2>1 DEF Kept, SettingKey, Dbm!Stored, Dbm!Absent
  <2>3. ~Ready /\ Ready' /\ Assigning = {} /\ Assigning' = {}
    BY <1>7, <2>0 DEF Dbm!RemovePartial, Ready, Assigning, Dbm!Nothing
  <2> QED BY <2>1, <2>2, <2>3, <1>c DEF MapStep, Dbm!Map!Next, Dbm!Map!Resume, Found, Ready, Assigning
<1>8. CASE Dbm!RemoveOld
  <2>0. /\ op \in Settings /\ op.key \in Keys /\ op.value \in Values /\ op.at = "removeOld" /\ dbmUp
        /\ (op.key \notin torn => SettingKey(op.key)) /\ op # Dbm!Nothing
    BY <1>8, SettingFacts DEF Dbm!RemoveOld, SettingAts
  <2>1. /\ file' = [file EXCEPT ![op.key] = "absent"] /\ rpl' = rpl /\ torn' = torn /\ dbmUp' = dbmUp
        /\ op'.key = op.key /\ op'.value = op.value /\ op'.at = "rename"
    BY <1>8, <2>0 DEF Dbm!RemoveOld, Settings, Dbm!Absent
  <2>2. SetTo(op.key, op.value)
    BY <2>0, <2>1 DEF SetTo, SettingKey, Dbm!Stored, Dbm!Absent, DbmInvariant, FileTypes
  <2>3. op' # Dbm!Nothing
    BY <2>1 DEF Dbm!Nothing
  <2>4. Assigning' = Assigning /\ <<op.key, op.value>> \in Assigning /\ ~Ready /\ ~Ready'
    BY <2>0, <2>1, <2>3 DEF Assigning, Ready
  <2>5. Dbm!Map!Becomes([Found EXCEPT ![op.key] = op.value])
    BY <2>0, <2>2, <1>d
  <2> QED BY <2>1, <2>4, <2>5 DEF MapStep, Dbm!Map!Next, Dbm!Map!Set, Found, Ready, Assigning
<1>9. CASE Dbm!Rename
  <2>0. /\ op \in Settings /\ op.key \in Keys /\ op.value \in Values /\ op.ext \in {"rpl", "new"}
        /\ op.at = "rename" /\ dbmUp
        /\ (op.key \notin torn => SettingKey(op.key)) /\ op # Dbm!Nothing
    BY <1>9, SettingFacts DEF Dbm!Rename, SettingAts
  <2>1. /\ \A j \in Keys \ {op.key} : rpl'[j] = rpl[j]
        /\ torn' = torn
    BY <1>9, <2>0, WriteFacts DEF Dbm!Rename, DbmInvariant, Dbm!Contents, Dbm!Absent
  <2>2. op.key \notin torn => file' = [file EXCEPT ![op.key] = op.value]
    BY <1>9, <2>0 DEF Dbm!Rename, SettingKey
  <2>3. \A j \in Keys \ {op.key} : file'[j] = file[j]
    BY <1>9 DEF Dbm!Rename, DbmInvariant, FileTypes
  <2>4. op.value # "absent"
    BY <2>0, DbmAssumption DEF Dbm!DirDBMAssumption, Dbm!Absent
  <2>5. op.key \notin torn => file'[op.key] = op.value
    BY <2>0, <2>2 DEF DbmInvariant, FileTypes
  <2>6. SetTo(op.key, op.value)
    BY <2>1, <2>3, <2>4, <2>5 DEF SetTo, Dbm!Stored, Dbm!Absent
  <2>7. Assigning' = {} /\ <<op.key, op.value>> \in Assigning /\ Ready'
    BY <1>9, <2>0 DEF Dbm!Rename, Ready, Assigning, Dbm!Nothing
  <2>8. Dbm!Map!Becomes([Found EXCEPT ![op.key] = op.value])
    BY <2>0, <2>6, <1>d
  <2> QED BY <2>1, <2>7, <2>8 DEF MapStep, Dbm!Map!Next, Dbm!Map!Set, Found, Ready, Assigning
<1>10. CASE Dbm!RemoveOrRenameFails
  <2>0. op.key \in Keys /\ dbmUp /\ op # Dbm!Nothing
    BY <1>10, SettingFacts DEF Dbm!RemoveOrRenameFails, SettingAts
  <2>1. Kept /\ torn' = torn \cup {op.key} /\ ~Ready /\ Ready' /\ Assigning' = {}
    BY <1>10, <2>0 DEF Dbm!RemoveOrRenameFails, Kept, Dbm!Stored, Ready, Assigning, Dbm!Nothing
  <2> QED BY <2>0, <2>1, <1>c DEF MapStep, Dbm!Map!Next, Dbm!Map!Break, Found, Ready, Assigning
<1>11. CASE Dbm!Crash
  <2>1. Kept /\ torn' = torn /\ ~Ready' /\ Assigning' = {}
    BY <1>11 DEF Dbm!Crash, Kept, Dbm!Stored, Ready, Assigning, Dbm!Nothing
  <2> QED BY <2>1, <1>e
<1>12. CASE Dbm!Open
  <2>1. Kept /\ torn' = torn /\ ~Ready' /\ Assigning' = {}
    BY <1>12 DEF Dbm!Open, Kept, Dbm!Stored, Ready, Assigning, Dbm!Nothing
  <2> QED BY <2>1, <1>e
<1>13. CASE Dbm!Recovered
  <2>1. /\ Kept /\ torn' = {} /\ ~Ready /\ Ready' /\ Assigning = {} /\ Assigning' = {}
    BY <1>13 DEF Dbm!Recovered, Kept, Dbm!Stored, Ready, Assigning, Dbm!Nothing
  <2> QED BY <2>1, <1>c DEF MapStep, Dbm!Map!Next, Dbm!Map!Resume, Found, Ready, Assigning
<1>20. CASE UNCHANGED Dbm!dbmVars
  <2>1. /\ \A k \in Keys : Dbm!Found(k)' = Dbm!Found(k)
        /\ Assigning' = Assigning /\ Ready' = Ready /\ torn' = torn
    BY <1>20 DEF Dbm!dbmVars, Dbm!Found, Dbm!Stored, Assigning, Ready
  <2> QED BY <2>1 DEF MapStep, Found
<1> QED
  BY <1>1, <1>2, <1>3, <1>4, <1>5, <1>6, <1>7, <1>8, <1>9, <1>10, <1>11, <1>12, <1>13, <1>20 DEF Dbm!Next

(***************************************************************************)
(* DirDBM is a map whose entries are set and deleted in one step each.     *)
(* The process may die between any two system calls of __setitem__ and of  *)
(* the recovery: an assignment that has returned is still there, one that  *)
(* has not has taken effect whole or not at all, and no entry is lost      *)
(* except by __delitem__.  Nothing is claimed of a key for which os.remove *)
(* or os.rename has failed, from then until the directory is opened again. *)
(***************************************************************************)
THEOREM DirectoryIsAMap == Dbm!Spec => ImplementsMap
<1>1. Dbm!Spec => []DbmInvariant
  BY DbmInit, DbmStep, PTL DEF Dbm!Spec
<1>2. Dbm!Init => Dbm!Map!Init
  BY DEF Dbm!Init, Dbm!Map!Init, Dbm!Found, Dbm!Stored, Dbm!Absent, Dbm!Nothing
<1>3. DbmInvariant /\ [Dbm!Next]_(Dbm!dbmVars) => [Dbm!Map!Next]_<<Found, Assigning, Ready, torn>>
  BY DbmRefines DEF MapStep
<1> QED
  BY <1>1, <1>2, <1>3, PTL
  DEF ImplementsMap, Dbm!ImplementsMap, Dbm!Spec, Dbm!Map!Spec, Found, Assigning, Ready

-------------------------------------------------------------------------------
(***************************************************************************)
(* DeferredFilesystemLock.  As long as no attempt has begun with a         *)
(* _timeoutCall that is over, at most one attempt waits, and it does not   *)
(* wait with such a call either: cancel() cannot raise.                    *)
(***************************************************************************)
DelayedCall == {"none", "active", "called"}

Fates == {"unborn", "waiting", "locked", "raised", "AlreadyTryingToLock", "TimeoutError",
          "CancelledError"}

AttemptFlags ==
    /\ timeout \in [Attempt!Attempts -> BOOLEAN] /\ reused \in BOOLEAN

AttemptTypes ==
    /\ owner \in {"nobody", "us", "other"} /\ tryCall \in DelayedCall
    /\ timeoutCall \in DelayedCall
    /\ attemptFate \in [Attempt!Attempts -> Fates]
    /\ taker \in Attempt!Attempts \cup {Attempt!Nobody}

OneWaits ==
    ~reused =>
        /\ \A i, j \in Attempt!Attempts :
              (attemptFate[i] = "waiting" /\ attemptFate[j] = "waiting") => i = j
        /\ \A i \in Attempt!Attempts : attemptFate[i] = "waiting" => timeoutCall # "called"

AttemptInvariant == AttemptFlags /\ AttemptTypes /\ OneWaits /\ AttemptIsDriven

LEMMA AttemptInit == Attempt!Init => AttemptInvariant
BY DEF Attempt!Init, AttemptInvariant, AttemptFlags, AttemptTypes, OneWaits, AttemptIsDriven,
       Attempt!AttemptIsDriven, Attempt!LockIsAnnounced, DelayedCall, Fates

LEMMA AttemptStep == AttemptInvariant /\ [Attempt!Next]_(Attempt!dflVars) => AttemptInvariant'
<1> SUFFICES ASSUME AttemptInvariant, [Attempt!Next]_(Attempt!dflVars) PROVE AttemptInvariant'
  OBVIOUS
<1> USE DEF AttemptInvariant, AttemptFlags, AttemptTypes, OneWaits, AttemptIsDriven,
      Attempt!AttemptIsDriven, Attempt!LockIsAnnounced, DelayedCall, Fates, Attempt!Attempts,
      Attempt!Nobody
<1>1. ASSUME NEW i \in Attempt!Attempts, NEW hasTimeout \in BOOLEAN,
             Attempt!DeferUntilLocked(i, hasTimeout)
      PROVE  AttemptInvariant'
  <2>1. CASE tryCall # "none"
    BY <1>1, <2>1 DEF Attempt!DeferUntilLocked
  <2>2. CASE tryCall = "none"
    <3>1. /\ timeout' = [timeout EXCEPT ![i] = hasTimeout] /\ attemptFate[i] = "unborn"
          /\ reused' = (reused \/ timeoutCall = "called")
      BY <1>1, <2>2 DEF Attempt!DeferUntilLocked
    <3>2. Attempt!TryLock(i, "none", hasTimeout)
      BY <1>1, <2>2 DEF Attempt!DeferUntilLocked
    <3>3. AttemptFlags' /\ (~reused' => ~reused /\ timeoutCall # "called")
      BY <3>1
    <3>4. AttemptTypes'
      BY <3>2 DEF Attempt!TryLock, Attempt!CancelRaises
    <3>5. CASE reused'
      BY <3>3, <3>4, <3>5
    <3>6. CASE ~reused' /\ owner = "nobody"
      <4>1. /\ owner' = "us" /\ taker' = i /\ timeoutCall' = "none" /\ tryCall' = "none"
            /\ attemptFate' = [attemptFate EXCEPT ![i] = "locked"]
        BY <3>2, <3>3, <3>6 DEF Attempt!TryLock, Attempt!CancelRaises
      <4> QED BY <2>2, <3>1, <3>3, <3>4, <3>6, <4>1
    <3>7. CASE ~reused' /\ owner # "nobody"
      <4>1. /\ timeoutCall' = (IF hasTimeout /\ timeoutCall = "none" THEN "active" ELSE timeoutCall)
            /\ tryCall' = "active" /\ attemptFate' = [attemptFate EXCEPT ![i] = "waiting"]
            /\ owner' = owner /\ taker' = taker
        BY <3>2, <3>7 DEF Attempt!TryLock
      <4> QED BY <2>2, <3>1, <3>3, <3>4, <3>7, <4>1
    <3> QED BY <3>5, <3>6, <3>7
  <2> QED BY <2>1, <2>2
<1>2. ASSUME NEW i \in Attempt!Attempts, Attempt!TryLockCalled(i) PROVE AttemptInvariant'
  <2>1. /\ tryCall = "active" /\ attemptFate[i] = "waiting" /\ timeout' = timeout
        /\ reused' = reused
    BY <1>2 DEF Attempt!TryLockCalled
  <2>2. Attempt!TryLock(i, "called", timeout[i])
    BY <1>2 DEF Attempt!TryLockCalled
  <2>3. AttemptFlags' /\ AttemptTypes'
    BY <2>1, <2>2 DEF Attempt!TryLock, Attempt!CancelRaises
  <2>4. CASE reused
    BY <2>1, <2>3, <2>4
  <2>5. CASE ~reused /\ owner = "nobody"
    <3>1. /\ owner' = "us" /\ taker' = i /\ timeoutCall' = "none" /\ tryCall' = "none"
          /\ attemptFate' = [attemptFate EXCEPT ![i] = "locked"]
      BY <2>1, <2>2, <2>5 DEF Attempt!TryLock, Attempt!CancelRaises
    <3> QED BY <2>1, <2>3, <2>5, <3>1
  <2>6. CASE ~reused /\ owner # "nobody"
    BY <2>1, <2>2, <2>3, <2>6 DEF Attempt!TryLock
  <2> QED BY <2>4, <2>5, <2>6
<1>3. ASSUME NEW i \in Attempt!Attempts, Attempt!TimesOut(i) PROVE AttemptInvariant'
  BY <1>3 DEF Attempt!TimesOut, Attempt!CancelLock, Attempt!DropTimeout
<1>4. ASSUME NEW i \in Attempt!Attempts, Attempt!Cancel(i) PROVE AttemptInvariant'
  BY <1>4 DEF Attempt!Cancel, Attempt!CancelLock, Attempt!DropTimeout
<1>5. CASE Attempt!Unlock
  BY <1>5 DEF Attempt!Unlock
<1>6. CASE Attempt!Others
  BY <1>6 DEF Attempt!Others
<1>7. CASE UNCHANGED Attempt!dflVars
  BY <1>7 DEF Attempt!dflVars
<1> QED BY <1>1, <1>2, <1>3, <1>4, <1>5, <1>6, <1>7 DEF Attempt!Next

(***************************************************************************)
(* DeferredFilesystemLock: whichever of success, timeout and cancellation  *)
(* comes first, an attempt that waits will try again and will time out,    *)
(* one that is over leaves no delayed call behind, and a lock that was     *)
(* taken is announced (until an attempt begins after a timeout).           *)
(***************************************************************************)
THEOREM AttemptIsAlwaysDriven == Attempt!Spec => []AttemptIsDriven
<1>1. AttemptInvariant => AttemptIsDriven
  BY DEF AttemptInvariant
<1> QED BY <1>1, AttemptInit, AttemptStep, PTL DEF Attempt!Spec

-------------------------------------------------------------------------------
(***************************************************************************)
(* Connectors.  At most one transport is connecting or connected, and the  *)
(* state of the connector is that of the transport; a factory that         *)
(* reconnects keeps self.transport; and while there is a transport no      *)
(* retry is due (unless the application interfered).                       *)
(***************************************************************************)
Busy == {"connecting", "connected"}

ConnFlags ==
    /\ factoryStarted \in BOOLEAN /\ known \in BOOLEAN /\ callID \in BOOLEAN
    /\ continueTrying \in BOOLEAN /\ stray \in BOOLEAN

ConnTypes ==
    /\ connState \in Busy \cup {"disconnected"} /\ factory \in {"plain", "reconnecting"}
    /\ transport \subseteq Transports /\ connTimers \subseteq Transports
    /\ tstate \in [Transports -> Busy \cup {"unmade", "gone"}]
    /\ numPorts \in Nat /\ retryCalls \in Nat /\ retries \in Nat

OneTransport ==
    /\ \A t \in Transports : tstate[t] \in Busy => tstate[t] = connState
    /\ \A t, u \in Transports : (tstate[t] \in Busy /\ tstate[u] \in Busy) => t = u
    /\ connState \in Busy => \E t \in Transports : tstate[t] = connState

OwnTransport ==
    /\ \A t \in Transports : t \in connTimers <=> tstate[t] = "connecting"
    /\ \A t \in transport : tstate[t] \in Busy
    /\ (factory = "reconnecting" /\ connState \in Busy) => transport # {}

FactoryStarted ==
    /\ factoryStarted <=> connState # "disconnected"
    /\ numPorts = (IF factoryStarted THEN 1 ELSE 0)

RetryIsDue ==
    /\ factory = "plain" => ~known
    /\ callID => retryCalls > 0
    /\ ~stray =>
          /\ retryCalls = (IF callID THEN 1 ELSE 0)
          /\ ~continueTrying => retryCalls = 0
          /\ connState # "disconnected" => retryCalls = 0
          /\ (continueTrying /\ known /\ connState = "disconnected" /\ retries \in 1..MaxRetries)
                => callID

ConnInvariant ==
    ConnFlags /\ ConnTypes /\ OneTransport /\ OwnTransport /\ FactoryStarted /\ RetryIsDue

LEMMA ConnInit == Conn!Init => ConnInvariant
<1> SUFFICES ASSUME Conn!Init PROVE ConnInvariant
  OBVIOUS
<1> USE DEF Conn!Init, Busy
<1>1. ConnFlags
  BY DEF ConnFlags
<1>2. ConnTypes /\ OneTransport /\ OwnTransport
  BY DEF ConnTypes, OneTransport, OwnTransport
<1>3. FactoryStarted /\ RetryIsDue
  BY DEF FactoryStarted, RetryIsDue
<1> QED BY <1>1, <1>2, <1>3 DEF ConnInvariant

\* What connect() does to the parts of the invariant that are about transports.
LEMMA ConnectKeeps ==
    ASSUME ConnInvariant, connState = "disconnected", NEW t \in Conn!Unmade, Conn!Connect(t)
    PROVE  /\ OneTransport' /\ FactoryStarted' /\ connState' = "connecting"
           /\ factoryStarted' = TRUE /\ numPorts' \in Nat /\ transport' = {t}
           /\ transport' \subseteq Transports /\ connTimers' \subseteq Transports
           /\ tstate' \in [Transports -> Busy \cup {"unmade", "gone"}]
           /\ \A u \in Transports : u \in connTimers' <=> tstate'[u] = "connecting"
           /\ tstate'[t] = "connecting"
<1> USE DEF ConnInvariant, ConnFlags, ConnTypes, OneTransport, OwnTransport, FactoryStarted, Busy
<1>1. /\ connState' = "connecting" /\ transport' = {t} /\ connTimers' = connTimers \cup {t}
      /\ tstate' = [tstate EXCEPT ![t] = "connecting"] /\ t \in Transports
      /\ tstate[t] = "unmade"
  BY DEF Conn!Connect, Conn!Unmade
<1>2. factoryStarted' = TRUE /\ numPorts' = 1
  BY DEF Conn!Connect
<1>3. OneTransport'
  BY <1>1
<1> QED BY <1>1, <1>2, <1>3

\* The end of a transport: the factory has connected again, or it is stopped
\* and a retry is scheduled if one is due.
LEMMA EndedKeeps ==
    ASSUME ConnInvariant, NEW t \in Transports, tstate[t] \in Busy,
           NEW delete \in BOOLEAN, Conn!Ended(t, delete),
           UNCHANGED <<continueTrying, stray, factory>>
    PROVE  ConnInvariant'
<1> USE ConnAssumption DEF ConnInvariant, ConnFlags, ConnTypes, OneTransport, OwnTransport,
      FactoryStarted, RetryIsDue, Busy, Conn!CancelTimeout, Conn!ConnectorAssumption
<1>1. connState \in Busy /\ (~stray => retryCalls = 0 /\ ~callID)
  OBVIOUS
<1>2. ASSUME factory = "plain", NEW u \in Conn!Unmade, connState' = "connecting",
             transport' = (IF delete THEN {} ELSE {u}),
             tstate' = [tstate EXCEPT ![t] = "gone", ![u] = "connecting"],
             connTimers' = (connTimers \ {t}) \cup {u},
             UNCHANGED <<factoryStarted, numPorts, known, retries, retryCalls, callID>>
      PROVE  ConnInvariant'
  <2>1. u \in Transports /\ tstate[u] = "unmade" /\ u # t
    BY <1>2 DEF Conn!Unmade
  <2>2. ConnTypes' /\ ConnFlags'
    BY <1>2, <2>1
  <2>3. OneTransport'
    BY <1>2, <2>1
  <2>4. OwnTransport'
    BY <1>2, <2>1
  <2>5. FactoryStarted' /\ RetryIsDue'
    BY <1>1, <1>2
  <2> QED BY <2>2, <2>3, <2>4, <2>5
<1>3. ASSUME connState' = "disconnected", transport' = {}, connTimers' = connTimers \ {t},
             tstate' = [tstate EXCEPT ![t] = "gone"], factoryStarted' = FALSE,
             numPorts' = (IF numPorts = 0 THEN 0 ELSE numPorts - 1), Conn!Retry
      PROVE  ConnInvariant'
  <2>1. OneTransport' /\ OwnTransport'
    BY <1>1, <1>3
  <2>a. FactoryStarted'
    BY <1>1, <1>3
  <2>2. retryCalls' \in Nat /\ retries' \in Nat
    BY <1>3 DEF Conn!Retry
  <2>c. (known' = known \/ known' = TRUE) /\ (callID' = callID \/ callID' = TRUE)
    BY <1>3 DEF Conn!Retry
  <2>d. ConnFlags'
    BY <1>3, <2>c
  <2>b. ConnTypes'
    BY <1>3, <2>2
  <2>3. RetryIsDue'
    <3>1. CASE factory = "reconnecting" /\ continueTrying /\ retries < MaxRetries
      BY <1>1, <1>3, <3>1 DEF Conn!Retry
    <3>2. CASE factory = "reconnecting" /\ continueTrying /\ ~(retries < MaxRetries)
      BY <1>1, <1>3, <3>2 DEF Conn!Retry
    <3>3. CASE factory = "reconnecting" /\ ~continueTrying
      BY <1>1, <1>3, <3>3 DEF Conn!Retry
    <3>4. CASE factory = "plain"
      BY <1>1, <1>3, <3>4 DEF Conn!Retry
    <3> QED BY <3>1, <3>2, <3>3, <3>4
  <2> QED BY <2>1, <2>a, <2>d, <2>b, <2>3
<1> QED BY <1>2, <1>3 DEF Conn!Ended

LEMMA ConnStep == ConnInvariant /\ [Conn!Next]_(Conn!ctVars) => ConnInvariant'
<1> SUFFICES ASSUME ConnInvariant, [Conn!Next]_(Conn!ctVars) PROVE ConnInvariant'
  OBVIOUS
<1> USE ConnAssumption DEF Conn!ConnectorAssumption
<1>1. CASE Conn!AppConnects
  <2>1. PICK t \in Conn!Unmade : Conn!Connect(t)
    BY <1>1 DEF Conn!AppConnects
  <2>2. /\ connState = "disconnected" /\ known' = known /\ retryCalls' = retryCalls
        /\ callID' = callID /\ retries' = retries /\ continueTrying' = continueTrying
        /\ factory' = factory /\ stray' = (stray \/ retryCalls > 0)
    BY <1>1 DEF Conn!AppConnects
  <2>3. /\ OneTransport' /\ FactoryStarted' /\ connState' = "connecting"
        /\ factoryStarted' = TRUE /\ numPorts' \in Nat /\ transport' = {t}
        /\ transport' \subseteq Transports /\ connTimers' \subseteq Transports
        /\ tstate' \in [Transports -> Busy \cup {"unmade", "gone"}]
        /\ \A u \in Transports : u \in connTimers' <=> tstate'[u] = "connecting"
        /\ tstate'[t] = "connecting"
    BY <2>1, <2>2, ConnectKeeps
  <2>4. ConnFlags' /\ (~stray' => ~stray /\ ~(retryCalls > 0))
    BY <2>2, <2>3 DEF ConnInvariant, ConnFlags
  <2>5. ConnTypes'
    BY <2>2, <2>3 DEF ConnInvariant, ConnTypes, Busy
  <2>6. OwnTransport'
    BY <2>3 DEF OwnTransport, Busy
  <2>7. RetryIsDue'
    BY <2>2, <2>3, <2>4 DEF ConnInvariant, ConnTypes, RetryIsDue
  <2> QED BY <2>3, <2>4, <2>5, <2>6, <2>7 DEF ConnInvariant
<1>2. CASE Conn!Reconnector
  <2>1. /\ retryCalls > 0 /\ retryCalls' = retryCalls - 1 /\ callID' = FALSE /\ known' = known
        /\ retries' = retries /\ continueTrying' = continueTrying /\ stray' = stray
        /\ factory' = factory
    BY <1>2 DEF Conn!Reconnector
  <2>2. CASE connState = "disconnected"
    <3>1. PICK t \in Conn!Unmade : Conn!Connect(t)
      BY <1>2, <2>2 DEF Conn!Reconnector
    <3>2. /\ OneTransport' /\ FactoryStarted' /\ connState' = "connecting"
          /\ factoryStarted' = TRUE /\ numPorts' \in Nat /\ transport' = {t}
          /\ transport' \subseteq Transports /\ connTimers' \subseteq Transports
          /\ tstate' \in [Transports -> Busy \cup {"unmade", "gone"}]
          /\ \A u \in Transports : u \in connTimers' <=> tstate'[u] = "connecting"
          /\ tstate'[t] = "connecting"
      BY <3>1, <2>2, ConnectKeeps
    <3>3. ConnFlags'
      BY <2>1, <3>2 DEF ConnInvariant, ConnFlags
    <3>4. ConnTypes'
      BY <2>1, <3>2 DEF ConnInvariant, ConnTypes, Busy
    <3>5. OwnTransport'
      BY <3>2 DEF OwnTransport, Busy
    <3>6. RetryIsDue'
      BY <2>1, <3>2 DEF ConnInvariant, ConnTypes, ConnFlags, RetryIsDue
    <3> QED BY <3>2, <3>3, <3>4, <3>5, <3>6 DEF ConnInvariant
  <2>3. CASE connState # "disconnected"
    <3>1. stray
      BY <2>1, <2>3 DEF ConnInvariant, ConnTypes, RetryIsDue
    <3>2. UNCHANGED <<connState, transport, connTimers, tstate, factoryStarted, numPorts>>
      BY <1>2, <2>3 DEF Conn!Reconnector, Conn!ctConn
    <3>3. ConnFlags' /\ OneTransport' /\ OwnTransport' /\ FactoryStarted'
      BY <2>1, <3>2 DEF ConnInvariant, ConnFlags, OneTransport, OwnTransport, FactoryStarted
    <3>4. ConnTypes' /\ RetryIsDue'
      BY <2>1, <3>1, <3>2 DEF ConnInvariant, ConnTypes, RetryIsDue
    <3> QED BY <3>3, <3>4 DEF ConnInvariant
  <2> QED BY <2>2, <2>3
<1>3. CASE Conn!StopConnecting
  <2>1. PICK t \in transport : Conn!Ended(t, TRUE)
    BY <1>3 DEF Conn!StopConnecting
  <2>2. t \in Transports /\ tstate[t] \in Busy /\ UNCHANGED <<continueTrying, stray, factory>>
    BY <1>3 DEF Conn!StopConnecting, ConnInvariant, ConnTypes, OwnTransport
  <2> QED BY <2>1, <2>2, EndedKeeps
<1>4. CASE Conn!StopTrying
  <2> USE DEF ConnInvariant, ConnFlags, ConnTypes, OneTransport, OwnTransport, FactoryStarted,
        RetryIsDue, Busy
  <2>1. /\ factory = "reconnecting" /\ continueTrying' = FALSE /\ callID' = FALSE
        /\ retryCalls' = (IF callID THEN retryCalls - 1 ELSE retryCalls)
        /\ known' = known /\ retries' = retries /\ stray' = stray /\ factory' = factory
    BY <1>4 DEF Conn!StopTrying, Conn!CancelCall
  <2>2. CASE known /\ connState = "connecting"
    <3>1. /\ connState' = "disconnected" /\ transport' = {} /\ connTimers' = connTimers \ transport
          /\ tstate' = [t \in Transports |-> IF t \in transport THEN "gone" ELSE tstate[t]]
          /\ factoryStarted' = FALSE /\ numPorts' = numPorts - 1
      BY <1>4, <2>2 DEF Conn!StopTrying
    <3>2. factoryStarted /\ numPorts = 1
      BY <2>2
    <3>3. \A t \in Transports : tstate[t] \in Busy => t \in transport
      BY <2>1, <2>2
    <3>4. ConnFlags'
      BY <2>1, <3>1
    <3>b. FactoryStarted'
      BY <3>1, <3>2
    <3>5. OneTransport' /\ OwnTransport'
      BY <2>1, <3>1, <3>3
    <3>a. retryCalls' \in Nat /\ (~stray => retryCalls' = 0)
      BY <2>1
    <3>6. ConnTypes'
      BY <2>1, <3>1, <3>2, <3>a
    <3>7. RetryIsDue'
      BY <2>1, <3>1, <3>a
    <3> QED BY <3>4, <3>b, <3>5, <3>6, <3>7
  <2>3. CASE ~(known /\ connState = "connecting")
    <3>1. UNCHANGED <<connState, transport, connTimers, tstate, factoryStarted, numPorts>>
      BY <1>4, <2>3 DEF Conn!StopTrying, Conn!ctConn
    <3>2. ConnFlags' /\ FactoryStarted' /\ OneTransport' /\ OwnTransport'
      BY <2>1, <3>1
    <3>3. retryCalls' \in Nat /\ (~stray => retryCalls' = 0)
      BY <2>1
    <3>4. ConnTypes' /\ RetryIsDue'
      BY <2>1, <3>1, <3>3
    <3> QED BY <3>2, <3>4
  <2> QED BY <2>2, <2>3
<1>5. CASE Conn!ResetDelay
  <2> USE DEF ConnInvariant, ConnFlags, ConnTypes, OneTransport, OwnTransport, FactoryStarted,
        RetryIsDue, Busy
  <2>1. /\ factory = "reconnecting" /\ retries' = 0 /\ callID' = FALSE /\ continueTrying' = TRUE
        /\ known' = known /\ retryCalls' = retryCalls /\ factory' = factory
        /\ connState' = connState /\ transport' = transport /\ connTimers' = connTimers
        /\ tstate' = tstate /\ factoryStarted' = factoryStarted /\ numPorts' = numPorts
        /\ stray' = (stray \/ retryCalls > 0)
    BY <1>5 DEF Conn!ResetDelay, Conn!ctConn
  <2>2. ConnFlags' /\ (~stray' => ~stray /\ ~(retryCalls > 0))
    BY <2>1
  <2>3. OneTransport' /\ OwnTransport' /\ FactoryStarted' /\ ConnTypes'
    BY <2>1
  <2>4. RetryIsDue'
    BY <2>1, <2>2
  <2> QED BY <2>2, <2>3, <2>4
<1>6. ASSUME NEW t \in Transports, Conn!Fails(t) \/ Conn!Lost(t) PROVE ConnInvariant'
  <2>1. Conn!Ended(t, FALSE) /\ tstate[t] \in Busy /\ UNCHANGED <<continueTrying, stray, factory>>
    BY <1>6 DEF Conn!Fails, Conn!Lost, Busy
  <2> QED BY <2>1, EndedKeeps
<1>7. ASSUME NEW t \in Transports, Conn!Connected(t) PROVE ConnInvariant'
  <2> USE DEF ConnInvariant, ConnFlags, ConnTypes, OneTransport, OwnTransport, FactoryStarted,
        RetryIsDue, Busy
  <2>1. /\ tstate[t] = "connecting" /\ tstate' = [tstate EXCEPT ![t] = "connected"]
        /\ connState' = "connected" /\ connTimers' = connTimers \ {t}
        /\ transport' = transport /\ factoryStarted' = factoryStarted /\ numPorts' = numPorts
        /\ known' = known /\ retryCalls' = retryCalls /\ callID' = callID /\ retries' = retries
        /\ continueTrying' = continueTrying /\ stray' = stray /\ factory' = factory
    BY <1>7 DEF Conn!Connected, Conn!CancelTimeout, Conn!ctRetry
  <2>2. connState = "connecting"
    BY <2>1
  <2>3. ConnFlags' /\ ConnTypes'
    BY <2>1
  <2>4. OneTransport' /\ OwnTransport'
    BY <2>1, <2>2
  <2>5. FactoryStarted' /\ RetryIsDue'
    BY <2>1, <2>2
  <2> QED BY <2>3, <2>4, <2>5
<1>8. CASE UNCHANGED Conn!ctVars
  BY <1>8 DEF Conn!ctVars, Conn!ctConn, Conn!ctRetry, ConnInvariant, ConnFlags, ConnTypes,
     OneTransport, OwnTransport, FactoryStarted, RetryIsDue
<1> QED BY <1>1, <1>2, <1>3, <1>4, <1>5, <1>6, <1>7, <1>8 DEF Conn!Next

\* The cardinality that the instance speaks of is the usual one.
LEMMA ConnCardinality == ASSUME NEW S PROVE Conn!Cardinality(S) = Cardinality(S)
BY DEF Conn!Cardinality, Cardinality

(***************************************************************************)
(* BaseConnector, its transports and ReconnectingClientFactory agree: one  *)
(* transport at most, in the state the connector says, with a timeout as   *)
(* long as it connects; the factory is started exactly while there is one; *)
(* and a retry is due whenever the factory should try again and never      *)
(* after stopTrying, whatever order failures, losses and retries come in.  *)
(***************************************************************************)
THEOREM ConnectorIsAlwaysSound == Conn!Spec => []ConnectorIsSound
<1>1. ConnInvariant => ConnectorIsSound
  <2> SUFFICES ASSUME ConnInvariant PROVE ConnectorIsSound
    OBVIOUS
  <2> USE DEF ConnInvariant, ConnTypes, OneTransport, Busy, Conn!Alive
  <2>1. ASSUME NEW s \in Busy
        PROVE  Cardinality(Conn!Alive(s)) = (IF connState = s THEN 1 ELSE 0)
    <3>1. CASE connState = s
      <4>1. PICK t \in Transports : tstate[t] = s
        BY <2>1, <3>1
      <4>2. Conn!Alive(s) = {t}
        BY <2>1, <4>1
      <4> QED BY <3>1, <4>2, FS_Singleton
    <3>2. CASE connState # s
      <4>1. Conn!Alive(s) = {}
        BY <2>1, <3>2
      <4> QED BY <3>2, <4>1, FS_EmptySet
    <3> QED BY <3>1, <3>2
  <2>2. connTimers = Conn!Alive("connecting")
    BY DEF OwnTransport
  <2>3. transport \subseteq Conn!Alive("connecting") \cup Conn!Alive("connected")
    BY DEF OwnTransport
  <2>4. (factoryStarted <=> connState # "disconnected") /\ numPorts = (IF factoryStarted THEN 1 ELSE 0)
    BY DEF FactoryStarted
  <2>5. ~stray =>
          /\ retryCalls = (IF callID THEN 1 ELSE 0)
          /\ ~continueTrying => retryCalls = 0
          /\ (continueTrying /\ known /\ connState = "disconnected" /\ retries \in 1..MaxRetries)
                => callID
    BY DEF RetryIsDue
  <2>6. \A s \in {"connecting", "connected"} :
           Conn!Cardinality(Conn!Alive(s)) = (IF connState = s THEN 1 ELSE 0)
    BY ONLY <2>1, ConnCardinality DEF Busy
  <2> HIDE DEF Conn!Alive
  <2> QED
    BY ONLY <2>2, <2>3, <2>4, <2>5, <2>6, Zenon DEF ConnectorIsSound, Conn!ConnectorIsSound
<1> QED BY <1>1, ConnInit, ConnStep, PTL DEF Conn!Spec

-------------------------------------------------------------------------------
(***************************************************************************)
(* The DNS resolver.  Who has looked up a name belongs to the query of one *)
(* name, which has a leader as long as the name is listed; and a query     *)
(* over UDP has asked a prefix of the servers in this round, the rest of   *)
(* which is to come.                                                       *)
(***************************************************************************)
Addresses == Dns!ToSet(Servers)

DnsFlags == listed \in [Names -> BOOLEAN] /\ exhausted \in BOOLEAN

DnsTypes ==
    /\ lookup \in [Callers -> {"unborn", "waiting", "answered", "failed", "raised"}]
    /\ leader \in [Names -> SUBSET Callers] /\ sharing \in [Names -> SUBSET Callers]
    /\ stage \in [Names -> {"none", "udp", "pending", "tcp"}]
    /\ attempts \in Nat

DnsQueryTypes ==
    /\ left \in [Names -> Seq(Addresses)] /\ used \in [Names -> Seq(Addresses)]
    /\ asked \in [Names -> Seq(Addresses)] /\ round \in [Names -> Nat]

\* The names that are asked for have a query and somebody whose query it is.
DnsListed ==
    \A k \in Names :
        /\ listed[k] <=> stage[k] # "none"
        /\ listed[k] <=> leader[k] # {}
        /\ ~listed[k] => sharing[k] = {}

Waits(c, k) == c \in leader[k] \cup sharing[k]

DnsOwners ==
    \A c \in Callers :
        /\ \A j, k \in Names : (Waits(c, j) /\ Waits(c, k)) => j = k
        /\ lookup[c] = "waiting" => \E k \in Names : Waits(c, k)
        /\ lookup[c] = "unborn" => \A k \in Names : ~Waits(c, k)

DnsAttempts == attempts >= Cardinality(Dns!Pending)

\* How far the query for k has come.
AskedInTurn(k) ==
    /\ \A i \in 1..Len(asked[k]) : asked[k][i] = Servers[1 + ((i - 1) % Len(Servers))]
    /\ Len(asked[k]) <= Len(Servers) * Rounds

InRound(k) ==
    /\ round[k] < Rounds /\ Len(asked[k]) = round[k] * Len(Servers) + Len(used[k])
    /\ Len(used[k]) > 0 /\ Len(used[k]) + Len(left[k]) = Len(Servers)
    /\ \A i \in 1..Len(used[k]) : used[k][i] = Servers[i]
    /\ \A i \in 1..Len(left[k]) : left[k][i] = Servers[Len(used[k]) + i]

DnsTurns == \A k \in Names : AskedInTurn(k) /\ (stage[k] = "udp" => InRound(k))

DnsWaiting == DnsListed /\ DnsOwners /\ DnsAttempts

DnsInvariant ==
    DnsFlags /\ DnsTypes /\ DnsQueryTypes /\ DnsTurns /\ (~exhausted => DnsWaiting)

LEMMA DnsCardinality == ASSUME NEW S PROVE Dns!Cardinality(S) = Cardinality(S)
BY DEF Dns!Cardinality, Cardinality

LEMMA DnsParameters ==
    /\ IsFiniteSet(Names) /\ Servers \in Seq(Addresses) /\ Len(Servers) \in Nat
    /\ Len(Servers) > 0 /\ Rounds \in Nat /\ Rounds > 0
<1>1. IsFiniteSet(Names)
  BY DnsAssumption DEF Dns!DNSResolverAssumption, Dns!IsFiniteSet, IsFiniteSet
<1>2. Servers \in Seq(Addresses) /\ Servers # <<>> /\ Rounds \in Nat \ {0}
  BY DnsAssumption DEF Dns!DNSResolverAssumption, Addresses
<1> QED BY <1>1, <1>2

LEMMA DnsInit == Dns!Init => DnsInvariant
<1> SUFFICES ASSUME Dns!Init PROVE DnsInvariant
  OBVIOUS
<1> USE DnsParameters DEF Dns!Init
<1>1. DnsFlags
  BY DEF DnsFlags
<1>2. DnsTypes /\ DnsQueryTypes
  BY DEF DnsTypes, DnsQueryTypes
<1>3. Len(Servers) * Rounds >= 0
  OBVIOUS
<1>4. DnsTurns
  BY <1>3 DEF DnsTurns, AskedInTurn
<1>5. DnsListed /\ DnsOwners
  BY DEF DnsListed, DnsOwners, Waits
<1>6. DnsAttempts
  <2>1. Dns!Pending = {}
    BY DEF Dns!Pending
  <2> QED BY <2>1, FS_EmptySet DEF DnsAttempts
<1> QED BY <1>1, <1>2, <1>4, <1>5, <1>6 DEF DnsInvariant, DnsWaiting

\* The attempts still cover what is pending when less is.
LEMMA PendingShrinks ==
    ASSUME DnsAttempts, DnsTypes, attempts' = attempts, Dns!Pending' \subseteq Dns!Pending
    PROVE  DnsAttempts'
<1>1. IsFiniteSet(Dns!Pending)
  BY DnsParameters, FS_Subset DEF Dns!Pending
<1>2. Cardinality(Dns!Pending') <= Cardinality(Dns!Pending) /\ Cardinality(Dns!Pending) \in Nat
      /\ Cardinality(Dns!Pending') \in Nat
  BY <1>1, FS_Subset, FS_CardinalityType
<1> QED BY <1>2 DEF DnsAttempts, DnsTypes

\* The queries are where they were when none is sent and none becomes one over UDP.
LEMMA TurnsKept ==
    ASSUME DnsTurns, DnsQueryTypes, UNCHANGED <<left, used, round, asked>>,
           \A k \in Names : stage'[k] = "udp" => stage[k] = "udp"
    PROVE  DnsTurns' /\ DnsQueryTypes'
BY DEF DnsTurns, DnsQueryTypes, AskedInTurn, InRound

\* The end of queries: those who waited have the result, and nobody else has.
LEMMA FinishKeeps ==
    ASSUME DnsFlags, DnsTypes, NEW keys \in SUBSET Names, NEW result \in {"answered", "failed"},
           Dns!Finish(keys, result)
    PROVE  /\ listed' \in [Names -> BOOLEAN]
           /\ lookup' \in [Callers -> {"unborn", "waiting", "answered", "failed", "raised"}]
           /\ leader' \in [Names -> SUBSET Callers] /\ sharing' \in [Names -> SUBSET Callers]
           /\ stage' \in [Names -> {"none", "udp", "pending", "tcp"}]
           /\ \A k \in Names : stage'[k] = IF k \in keys THEN "none" ELSE stage[k]
           /\ DnsListed /\ DnsOwners => DnsListed' /\ DnsOwners'
<1>1. listed' = [k \in Names |-> listed[k] /\ k \notin keys]
  BY DEF Dns!Finish
<1>2. /\ lookup' = [c \in Callers |->
                      IF lookup[c] = "waiting" /\ \E k \in keys : Waits(c, k)
                      THEN result ELSE lookup[c]]
      /\ leader' = [k \in Names |-> IF k \in keys THEN {} ELSE leader[k]]
      /\ sharing' = [k \in Names |-> IF k \in keys THEN {} ELSE sharing[k]]
      /\ stage' = [k \in Names |-> IF k \in keys THEN "none" ELSE stage[k]]
  BY DEF Dns!Finish, Waits
<1>3. /\ lookup' \in [Callers -> {"unborn", "waiting", "answered", "failed", "raised"}]
      /\ leader' \in [Names -> SUBSET Callers] /\ sharing' \in [Names -> SUBSET Callers]
      /\ stage' \in [Names -> {"none", "udp", "pending", "tcp"}]
      /\ \A k \in Names : stage'[k] = IF k \in keys THEN "none" ELSE stage[k]
  BY <1>2 DEF DnsTypes
<1>4. listed' \in [Names -> BOOLEAN] /\ \A k \in Names : listed'[k] <=> (listed[k] /\ k \notin keys)
  BY <1>1, Zenon
<1>5. ASSUME DnsListed, DnsOwners PROVE DnsListed' /\ DnsOwners'
  <2>1. DnsListed'
    BY <1>2, <1>4, <1>5 DEF DnsListed
  <2>2. \A c \in Callers, k \in Names : Waits(c, k)' <=> Waits(c, k) /\ k \notin keys
    BY <1>2 DEF Waits
  <2>3. \A c \in Callers : lookup'[c] = "waiting" => lookup[c] = "waiting" /\ \A k \in keys : ~Waits(c, k)
    BY <1>2
  <2>4. \A c \in Callers : lookup'[c] = "unborn" => lookup[c] = "unborn"
    BY <1>2
  <2>5. DnsOwners'
    BY <1>5, <2>2, <2>3, <2>4 DEF DnsOwners
  <2> QED BY <2>1, <2>5
<1> QED BY <1>3, <1>4, <1>5

LEMMA Modulo ==
    ASSUME NEW m \in Nat, m > 0, NEW r \in Nat, NEW u \in Nat, u < m
    PROVE  (r * m + u) % m = u
BY Z3

\* A step that ends queries and does nothing else but use up attempts.
LEMMA FinishStep ==
    ASSUME DnsInvariant, NEW keys \in SUBSET Names, NEW result \in {"answered", "failed"},
           Dns!Finish(keys, result), UNCHANGED <<left, used, round, asked, exhausted, attempts>>
    PROVE  DnsInvariant'
<1> USE DEF DnsInvariant
<1>1. /\ listed' \in [Names -> BOOLEAN]
      /\ lookup' \in [Callers -> {"unborn", "waiting", "answered", "failed", "raised"}]
      /\ leader' \in [Names -> SUBSET Callers] /\ sharing' \in [Names -> SUBSET Callers]
      /\ stage' \in [Names -> {"none", "udp", "pending", "tcp"}]
      /\ \A k \in Names : stage'[k] = IF k \in keys THEN "none" ELSE stage[k]
      /\ DnsListed /\ DnsOwners => DnsListed' /\ DnsOwners'
  BY FinishKeeps
<1>2. DnsFlags'
  BY <1>1 DEF DnsFlags
<1>3. DnsTypes'
  BY <1>1 DEF DnsTypes
<1>4. DnsTurns' /\ DnsQueryTypes'
  BY <1>1, TurnsKept
<1>5. Dns!Pending' \subseteq Dns!Pending
  BY <1>1 DEF Dns!Pending
<1>6. ~exhausted' => DnsWaiting'
  BY <1>1, <1>5, PendingShrinks DEF DnsWaiting
<1> QED BY <1>2, <1>3, <1>4, <1>6

\* queryTCP: the query waits for a connection that is being tried, or is sent.
LEMMA QueryTCPStep ==
    ASSUME DnsInvariant, NEW k \in Names, stage[k] # "none", Dns!QueryTCP(k),
           UNCHANGED <<left, used, round, asked, exhausted>>
    PROVE  DnsInvariant'
<1> USE DEF DnsInvariant
<1>1. UNCHANGED <<lookup, leader, sharing, listed>>
  BY DEF Dns!QueryTCP
<1>2. \/ stage' = [stage EXCEPT ![k] = "pending"] /\ attempts' = attempts + 1
      \/ stage' = [stage EXCEPT ![k] = "tcp"] /\ attempts' = attempts
  BY DEF Dns!QueryTCP
<1>3. DnsFlags'
  BY <1>1 DEF DnsFlags
<1>4. DnsTypes'
  BY <1>1, <1>2 DEF DnsTypes
<1>5. stage \in [Names -> {"none", "udp", "pending", "tcp"}]
  BY DEF DnsTypes
<1>6. DnsTurns' /\ DnsQueryTypes'
  BY <1>2, <1>5, TurnsKept
<1>7. ASSUME DnsWaiting PROVE DnsWaiting'
  <2>1. DnsOwners'
    BY <1>1, <1>7 DEF DnsWaiting, DnsOwners, Waits
  <2>2. DnsListed'
    BY <1>1, <1>2, <1>5, <1>7 DEF DnsWaiting, DnsListed
  <2>3. CASE stage' = [stage EXCEPT ![k] = "tcp"] /\ attempts' = attempts
    <3>1. Dns!Pending' \subseteq Dns!Pending
      BY <1>5, <2>3 DEF Dns!Pending
    <3> QED BY <1>7, <2>1, <2>2, <2>3, <3>1, PendingShrinks DEF DnsWaiting
  <2>4. CASE stage' = [stage EXCEPT ![k] = "pending"] /\ attempts' = attempts + 1
    <3>1. Dns!Pending' = Dns!Pending \cup {k}
      BY <1>5, <2>4 DEF Dns!Pending
    <3>2. IsFiniteSet(Dns!Pending)
      BY DnsParameters, FS_Subset DEF Dns!Pending
    <3>3. /\ Cardinality(Dns!Pending) \in Nat
          /\ \/ Cardinality(Dns!Pending') = Cardinality(Dns!Pending)
             \/ Cardinality(Dns!Pending') = Cardinality(Dns!Pending) + 1
      BY <3>1, <3>2, FS_AddElement, FS_CardinalityType
    <3>4. DnsAttempts'
      BY <1>7, <2>4, <3>3 DEF DnsWaiting, DnsAttempts, DnsTypes
    <3> QED BY <2>1, <2>2, <3>4 DEF DnsWaiting
  <2> QED BY <1>2, <2>3, <2>4
<1> QED BY <1>3, <1>4, <1>6, <1>7

LEMMA AppendFacts ==
    ASSUME NEW A, NEW s \in Seq(A), NEW a \in A
    PROVE  /\ Append(s, a) \in Seq(A) /\ Len(Append(s, a)) = Len(s) + 1
           /\ \A i \in 1..Len(s) : Append(s, a)[i] = s[i]
           /\ Append(s, a)[Len(s) + 1] = a
OBVIOUS

\* Before a query is sent to the next address: bs were used in this round and ad is
\* left of the servers S; qs were asked so far, as T says, n of them in earlier rounds.
RoundGoesOn(S, T, n, m, bs, ad, qs) ==
    /\ n + Len(S) <= m /\ Len(bs) + Len(ad) = Len(S) /\ Len(ad) > 0 /\ Len(qs) = n + Len(bs)
    /\ \A i \in 1..Len(bs) : bs[i] = S[i]
    /\ \A i \in 1..Len(ad) : ad[i] = S[Len(bs) + i]
    /\ \A i \in 1..Len(qs) : qs[i] = T[i]
    /\ T[Len(qs) + 1] = S[Len(bs) + 1]

QueryIsSent(S, T, n, m, us, ls, xs) ==
    /\ Len(us) > 0 /\ Len(us) + Len(ls) = Len(S) /\ Len(xs) = n + Len(us) /\ Len(xs) <= m
    /\ \A i \in 1..Len(us) : us[i] = S[i]
    /\ \A i \in 1..Len(ls) : ls[i] = S[Len(us) + i]
    /\ \A i \in 1..Len(xs) : xs[i] = T[i]

LEMMA NextServer ==
    ASSUME NEW A, NEW S \in Seq(A), NEW T, NEW n \in Nat, NEW m \in Nat,
           NEW bs \in Seq(A), NEW ad \in Seq(A), NEW qs \in Seq(A),
           RoundGoesOn(S, T, n, m, bs, ad, qs)
    PROVE  /\ Tail(ad) \in Seq(A) /\ Append(bs, Head(ad)) \in Seq(A)
           /\ Append(qs, Head(ad)) \in Seq(A)
           /\ QueryIsSent(S, T, n, m, Append(bs, Head(ad)), Tail(ad), Append(qs, Head(ad)))
<1> USE DEF RoundGoesOn
<1>1. PICK a \in A : a = Head(ad) /\ a = ad[1]
  OBVIOUS
<1>2. Len(S) \in Nat /\ Len(bs) \in Nat /\ Len(ad) \in Nat /\ Len(qs) \in Nat
  OBVIOUS
<1>3. a = S[Len(bs) + 1]
  BY <1>1, <1>2
<1>4. /\ Tail(ad) \in Seq(A) /\ Len(Tail(ad)) = Len(ad) - 1
      /\ \A i \in 1..Len(Tail(ad)) : Tail(ad)[i] = ad[i + 1]
  OBVIOUS
<1>5. /\ Append(bs, a) \in Seq(A) /\ Len(Append(bs, a)) = Len(bs) + 1
      /\ \A i \in 1..Len(bs) : Append(bs, a)[i] = bs[i]
      /\ Append(bs, a)[Len(bs) + 1] = a
  BY AppendFacts
<1>6. /\ Append(qs, a) \in Seq(A) /\ Len(Append(qs, a)) = Len(qs) + 1
      /\ \A i \in 1..Len(qs) : Append(qs, a)[i] = qs[i]
      /\ Append(qs, a)[Len(qs) + 1] = a
  BY AppendFacts
<1>7. \A i \in 1..Len(Append(bs, a)) : Append(bs, a)[i] = S[i]
  BY <1>2, <1>3, <1>5
<1>8. \A i \in 1..Len(Tail(ad)) : Tail(ad)[i] = S[Len(Append(bs, a)) + i]
  BY <1>2, <1>4, <1>5
<1>9. ASSUME NEW i \in 1..Len(Append(qs, a)) PROVE Append(qs, a)[i] = T[i]
  <2>1. i \in 1..Len(qs) \/ i = Len(qs) + 1
    BY ONLY i \in 1..Len(Append(qs, a)), <1>2, <1>6
  <2>2. CASE i \in 1..Len(qs)
    BY <1>6, <2>2
  <2>3. CASE i = Len(qs) + 1
    BY <1>3, <1>6, <2>3
  <2> QED BY <2>1, <2>2, <2>3
<1>10. /\ Len(Append(bs, a)) > 0 /\ Len(Append(bs, a)) + Len(Tail(ad)) = Len(S)
       /\ Len(Append(qs, a)) = n + Len(Append(bs, a)) /\ Len(Append(qs, a)) <= m
  BY <1>2, <1>4, <1>5, <1>6
<1>11. QueryIsSent(S, T, n, m, Append(bs, a), Tail(ad), Append(qs, a))
  BY ONLY <1>7, <1>8, <1>9, <1>10 DEF QueryIsSent
<1> QED BY ONLY <1>1, <1>4, <1>5, <1>6, <1>11

\* The servers in the order of asking, over and over.
InTurn == [i \in Nat |-> Servers[1 + ((i - 1) % Len(Servers))]]

\* The arithmetic of rounds: r of them are over, and u servers were asked in this one.
LEMMA RoundsFit ==
    ASSUME NEW r \in Nat, NEW u \in Nat, u < Len(Servers), r < Rounds
    PROVE  /\ r * Len(Servers) \in Nat /\ Len(Servers) * Rounds \in Nat
           /\ r * Len(Servers) + Len(Servers) <= Len(Servers) * Rounds
           /\ InTurn[r * Len(Servers) + u + 1] = Servers[u + 1]
           /\ (r + 1) * Len(Servers) = r * Len(Servers) + Len(Servers)
<1>1. PICK m \in Nat : m = Len(Servers) /\ m > 0
  BY DnsParameters
<1>2. PICK q \in Nat : q = Rounds
  BY DnsParameters
<1>3. r < q /\ u < m
  BY <1>1, <1>2
<1>4. r * m \in Nat /\ m * q \in Nat
  BY ONLY m \in Nat, q \in Nat, r \in Nat
<1>5. r * m + m <= m * q
  <2>1. (r + 1) * m <= q * m
    BY ONLY m \in Nat, q \in Nat, r \in Nat, <1>3, Z3
  <2> QED BY ONLY <2>1, m \in Nat, q \in Nat, r \in Nat, Z3
<1>6. (r * m + u) % m = u
  BY ONLY <1>1, <1>3, m \in Nat, r \in Nat, u \in Nat, Modulo
<1>7. InTurn[r * m + u + 1] = Servers[1 + (((r * m + u + 1) - 1) % m)]
  BY <1>1, <1>4 DEF InTurn
<1>8. (r * m + u + 1) - 1 = r * m + u
  BY <1>4
<1>9. InTurn[r * m + u + 1] = Servers[u + 1]
  BY <1>6, <1>7, <1>8
<1>10. (r + 1) * m = r * m + m
  BY ONLY m \in Nat, r \in Nat
<1> QED BY <1>1, <1>2, <1>4, <1>5, <1>9, <1>10

\* The next server, or the first one again.
LEMMA ReissueStep ==
    ASSUME DnsInvariant, NEW k \in Names, stage[k] = "udp", Dns!UDPTimeout(k),
           round'[k] # Rounds
    PROVE  DnsTurns' /\ DnsQueryTypes' /\ UNCHANGED <<lookup, leader, sharing, listed, stage>>
<1> USE DnsParameters
<1>1. /\ used[k] \in Seq(Addresses) /\ left[k] \in Seq(Addresses) /\ asked[k] \in Seq(Addresses)
      /\ round[k] \in Nat /\ Len(used[k]) > 0 /\ Len(used[k]) + Len(left[k]) = Len(Servers)
      /\ round[k] < Rounds /\ Len(asked[k]) = round[k] * Len(Servers) + Len(used[k])
      /\ \A i \in 1..Len(used[k]) : used[k][i] = Servers[i]
      /\ \A i \in 1..Len(left[k]) : left[k][i] = Servers[Len(used[k]) + i]
      /\ \A i \in 1..Len(asked[k]) : asked[k][i] = InTurn[i]
  BY DEF DnsInvariant, DnsQueryTypes, DnsTurns, InRound, AskedInTurn, InTurn
<1>2. PICK r \in Nat, n \in Nat, bs \in Seq(Addresses), ad \in Seq(Addresses) :
        /\ round' = [round EXCEPT ![k] = r] /\ r < Rounds /\ n = r * Len(Servers)
        /\ left' = [left EXCEPT ![k] = Tail(ad)]
        /\ used' = [used EXCEPT ![k] = Append(bs, Head(ad))]
        /\ asked' = [asked EXCEPT ![k] = Append(asked[k], Head(ad))]
        /\ UNCHANGED <<lookup, leader, sharing, listed, stage>>
        /\ Len(bs) + Len(ad) = Len(Servers) /\ Len(ad) > 0
        /\ Len(asked[k]) = n + Len(bs)
        /\ \A i \in 1..Len(bs) : bs[i] = Servers[i]
        /\ \A i \in 1..Len(ad) : ad[i] = Servers[Len(bs) + i]
  <2>1. CASE left[k] = <<>>
    <3>1. /\ round' = [round EXCEPT ![k] = round[k] + 1]
          /\ left' = [left EXCEPT ![k] = Tail(used[k])]
          /\ used' = [used EXCEPT ![k] = Append(<<>>, Head(used[k]))]
          /\ asked' = [asked EXCEPT ![k] = Append(asked[k], Head(used[k]))]
          /\ UNCHANGED <<lookup, leader, sharing, listed, stage>>
      BY <2>1 DEF Dns!UDPTimeout, Dns!TurnAround
    <3>2. round'[k] = round[k] + 1
      BY <3>1 DEF DnsInvariant, DnsQueryTypes
    <3>3. round[k] + 1 \in Nat /\ round[k] + 1 < Rounds
      BY <1>1, <3>2
    <3>4. <<>> \in Seq(Addresses) /\ Len(<<>>) = 0 /\ Len(used[k]) = Len(Servers)
      BY <1>1, <2>1
    <3>5. PICK n \in Nat : n = (round[k] + 1) * Len(Servers) /\ Len(asked[k]) = n
      <4>1. round[k] * Len(Servers) \in Nat
            /\ (round[k] + 1) * Len(Servers) = round[k] * Len(Servers) + Len(Servers)
        BY <1>1, RoundsFit
      <4> QED BY <1>1, <3>4, <4>1
    <3>6. PICK bs \in Seq(Addresses), ad \in Seq(Addresses) : bs = <<>> /\ ad = used[k]
      BY <1>1, <3>4
    <3>7. PICK r \in Nat : r = round[k] + 1
      BY <3>3
    <3>8. /\ round' = [round EXCEPT ![k] = r] /\ r < Rounds /\ n = r * Len(Servers)
          /\ left' = [left EXCEPT ![k] = Tail(ad)]
          /\ used' = [used EXCEPT ![k] = Append(bs, Head(ad))]
          /\ asked' = [asked EXCEPT ![k] = Append(asked[k], Head(ad))]
      BY ONLY <3>1, <3>3, <3>5, <3>6, <3>7, Zenon
    <3>9. /\ Len(bs) + Len(ad) = Len(Servers) /\ Len(ad) > 0 /\ Len(asked[k]) = n + Len(bs)
          /\ \A i \in 1..Len(bs) : bs[i] = Servers[i]
          /\ \A i \in 1..Len(ad) : ad[i] = Servers[Len(bs) + i]
      BY <1>1, <3>4, <3>5, <3>6
    <3> WITNESS r \in Nat, n \in Nat, bs \in Seq(Addresses), ad \in Seq(Addresses)
    <3> QED BY ONLY <3>1, <3>8, <3>9, Zenon
  <2>2. CASE left[k] # <<>>
    <3>1. /\ round' = [round EXCEPT ![k] = round[k]]
          /\ left' = [left EXCEPT ![k] = Tail(left[k])]
          /\ used' = [used EXCEPT ![k] = Append(used[k], Head(left[k]))]
          /\ asked' = [asked EXCEPT ![k] = Append(asked[k], Head(left[k]))]
          /\ UNCHANGED <<lookup, leader, sharing, listed, stage>>
      BY <2>2 DEF Dns!UDPTimeout
    <3>2. Len(left[k]) > 0
      BY <1>1, <2>2
    <3>3. PICK n \in Nat : n = round[k] * Len(Servers)
      BY <1>1, RoundsFit
    <3>4. PICK r \in Nat, bs \in Seq(Addresses), ad \in Seq(Addresses) :
             r = round[k] /\ bs = used[k] /\ ad = left[k]
      BY <1>1
    <3>5. /\ round' = [round EXCEPT ![k] = r] /\ r < Rounds /\ n = r * Len(Servers)
          /\ left' = [left EXCEPT ![k] = Tail(ad)]
          /\ used' = [used EXCEPT ![k] = Append(bs, Head(ad))]
          /\ asked' = [asked EXCEPT ![k] = Append(asked[k], Head(ad))]
      BY ONLY <1>1, <3>1, <3>3, <3>4, Zenon
    <3>6. /\ Len(bs) + Len(ad) = Len(Servers) /\ Len(ad) > 0 /\ Len(asked[k]) = n + Len(bs)
          /\ \A i \in 1..Len(bs) : bs[i] = Servers[i]
          /\ \A i \in 1..Len(ad) : ad[i] = Servers[Len(bs) + i]
      BY ONLY <1>1, <3>2, <3>3, <3>4
    <3> WITNESS r \in Nat, n \in Nat, bs \in Seq(Addresses), ad \in Seq(Addresses)
    <3> QED BY ONLY <3>1, <3>5, <3>6, Zenon
  <2> QED BY <2>1, <2>2
<1>a. PICK m \in Nat : m = Len(Servers) * Rounds /\ n + Len(Servers) <= m
  BY <1>2, RoundsFit
<1>b. InTurn[Len(asked[k]) + 1] = Servers[Len(bs) + 1]
  <2>1. Len(bs) \in Nat /\ Len(bs) < Len(Servers)
    BY ONLY <1>2
  <2>2. InTurn[r * Len(Servers) + Len(bs) + 1] = Servers[Len(bs) + 1]
    BY ONLY <1>2, <2>1, RoundsFit
  <2> QED BY ONLY <1>2, <2>2, Zenon
<1>3. PICK qs \in Seq(Addresses) : qs = asked[k]
  BY <1>1
<1>4. RoundGoesOn(Servers, InTurn, n, m, bs, ad, qs)
  BY ONLY <1>1, <1>2, <1>3, <1>a, <1>b, Zenon DEF RoundGoesOn
<1>5. PICK ls \in Seq(Addresses), us \in Seq(Addresses), xs \in Seq(Addresses) :
        /\ ls = Tail(ad) /\ us = Append(bs, Head(ad)) /\ xs = Append(qs, Head(ad))
        /\ QueryIsSent(Servers, InTurn, n, m, us, ls, xs)
  <2>1. /\ Tail(ad) \in Seq(Addresses) /\ Append(bs, Head(ad)) \in Seq(Addresses)
        /\ Append(qs, Head(ad)) \in Seq(Addresses)
        /\ QueryIsSent(Servers, InTurn, n, m, Append(bs, Head(ad)), Tail(ad), Append(qs, Head(ad)))
    BY <1>4, NextServer
  <2> QED BY ONLY <2>1, Zenon
<1>6. /\ Len(us) > 0 /\ Len(us) + Len(ls) = Len(Servers) /\ Len(xs) = n + Len(us)
      /\ Len(xs) <= m
      /\ \A i \in 1..Len(us) : us[i] = Servers[i]
      /\ \A i \in 1..Len(ls) : ls[i] = Servers[Len(us) + i]
      /\ \A i \in 1..Len(xs) : xs[i] = InTurn[i]
  BY ONLY <1>5 DEF QueryIsSent
<1>7. /\ left' = [left EXCEPT ![k] = ls] /\ used' = [used EXCEPT ![k] = us]
      /\ asked' = [asked EXCEPT ![k] = xs] /\ round' = [round EXCEPT ![k] = r]
  BY ONLY <1>2, <1>3, <1>5, Zenon
<1>8. DnsQueryTypes'
  BY <1>7 DEF DnsInvariant, DnsQueryTypes
<1>9. /\ left'[k] = ls /\ used'[k] = us /\ asked'[k] = xs /\ round'[k] = r
      /\ \A j \in Names \ {k} : /\ left'[j] = left[j] /\ used'[j] = used[j]
                               /\ asked'[j] = asked[j] /\ round'[j] = round[j]
  BY <1>7 DEF DnsInvariant, DnsQueryTypes
<1>10. ASSUME NEW j \in Names \ {k} PROVE AskedInTurn(j)' /\ (stage'[j] = "udp" => InRound(j)')
  <2>1. AskedInTurn(j) /\ (stage[j] = "udp" => InRound(j))
    BY <1>10 DEF DnsInvariant, DnsTurns
  <2> QED BY <1>2, <1>9, <2>1 DEF AskedInTurn, InRound
<1>11. AskedInTurn(k)'
  <2>1. \A i \in 1..Len(xs) : xs[i] = Servers[1 + ((i - 1) % Len(Servers))]
    <3> SUFFICES ASSUME NEW i \in 1..Len(xs) PROVE xs[i] = Servers[1 + ((i - 1) % Len(Servers))]
      OBVIOUS
    <3>1. i \in Nat
      OBVIOUS
    <3> QED BY ONLY <1>6, <3>1, i \in 1..Len(xs) DEF InTurn
  <2> QED BY ONLY <1>6, <1>9, <1>a, <2>1 DEF AskedInTurn
<1>12. InRound(k)'
  <2>1. round'[k] < Rounds /\ Len(asked'[k]) = round'[k] * Len(Servers) + Len(used'[k])
    BY ONLY <1>2, <1>6, <1>9, Zenon
  <2>2. /\ Len(used'[k]) > 0 /\ Len(used'[k]) + Len(left'[k]) = Len(Servers)
        /\ \A i \in 1..Len(used'[k]) : used'[k][i] = Servers[i]
        /\ \A i \in 1..Len(left'[k]) : left'[k][i] = Servers[Len(used'[k]) + i]
    BY ONLY <1>6, <1>9, Zenon
  <2> QED BY ONLY <2>1, <2>2, Zenon DEF InRound
<1> QED BY <1>2, <1>8, <1>10, <1>11, <1>12 DEF DnsTurns

LEMMA DnsStep == DnsInvariant /\ [Dns!Next]_(Dns!dnsVars) => DnsInvariant'
<1> SUFFICES ASSUME DnsInvariant, [Dns!Next]_(Dns!dnsVars) PROVE DnsInvariant'
  OBVIOUS
<1> USE DEF DnsInvariant, Dns!dnsQuery, Dns!dnsTCP
<1>1. ASSUME NEW c \in Callers, NEW k \in Names, Dns!Lookup(c, k) PROVE DnsInvariant'
  <2>1. /\ lookup[c] = "unborn" /\ ~listed[k]
        /\ lookup' = [lookup EXCEPT ![c] = "waiting"] /\ leader' = [leader EXCEPT ![k] = {c}]
        /\ stage' = [stage EXCEPT ![k] = "udp"] /\ sharing' = sharing
        /\ left' = [left EXCEPT ![k] = Tail(Servers)]
        /\ used' = [used EXCEPT ![k] = <<Head(Servers)>>]
        /\ asked' = [asked EXCEPT ![k] = <<Head(Servers)>>]
        /\ round' = [round EXCEPT ![k] = 0] /\ attempts' = attempts
    BY <1>1 DEF Dns!Lookup
  <2>2. listed' = [listed EXCEPT ![k] = TRUE] /\ exhausted' = exhausted
    BY <1>1 DEF Dns!Lookup
  <2>3. DnsFlags'
    BY <2>2 DEF DnsFlags
  <2>4. DnsTypes'
    BY <2>1 DEF DnsTypes
  <2>5. /\ Head(Servers) = Servers[1] /\ Head(Servers) \in Addresses
        /\ Tail(Servers) \in Seq(Addresses) /\ Len(Tail(Servers)) = Len(Servers) - 1
        /\ \A i \in 1..Len(Tail(Servers)) : Tail(Servers)[i] = Servers[1 + i]
    BY DnsParameters
  <2>a. /\ <<Head(Servers)>> \in Seq(Addresses) /\ Len(<<Head(Servers)>>) = 1
        /\ <<Head(Servers)>>[1] = Servers[1]
    BY <2>5
  <2>6. PICK s \in Seq(Addresses), t \in Seq(Addresses) :
           /\ s = <<Head(Servers)>> /\ Len(s) = 1 /\ s[1] = Servers[1]
           /\ t = Tail(Servers) /\ Len(t) = Len(Servers) - 1
           /\ \A i \in 1..Len(t) : t[i] = Servers[1 + i]
    BY ONLY <2>5, <2>a, Zenon
  <2>7. DnsQueryTypes'
    BY <2>1, <2>6 DEF DnsQueryTypes
  <2>8. /\ left'[k] = t /\ used'[k] = s /\ asked'[k] = s /\ round'[k] = 0
        /\ \A j \in Names \ {k} : /\ left'[j] = left[j] /\ used'[j] = used[j]
                                 /\ asked'[j] = asked[j] /\ round'[j] = round[j]
                                 /\ stage'[j] = stage[j]
    BY <2>1, <2>6 DEF DnsQueryTypes, DnsTypes
  <2>9. DnsTurns'
    <3>1. ASSUME NEW j \in Names \ {k} PROVE AskedInTurn(j)' /\ (stage'[j] = "udp" => InRound(j)')
      <4>1. AskedInTurn(j) /\ (stage[j] = "udp" => InRound(j))
        BY <3>1 DEF DnsTurns
      <4>2. AskedInTurn(j)'
        BY ONLY <2>8, <3>1, <4>1, Zenon DEF AskedInTurn
      <4>3. stage'[j] = "udp" => InRound(j)'
        BY ONLY <2>8, <3>1, <4>1, Zenon DEF InRound
      <4> QED BY <4>2, <4>3
    <3>2. /\ 0 * Len(Servers) + Len(Servers) <= Len(Servers) * Rounds
          /\ 0 * Len(Servers) = 0 /\ InTurn[1] = Servers[1] /\ Len(Servers) * Rounds \in Nat
      <4>1. PICK z \in Nat : z = 0 /\ z < Len(Servers) /\ z < Rounds
        BY DnsParameters
      <4>2. /\ InTurn[z * Len(Servers) + z + 1] = Servers[z + 1] /\ Len(Servers) * Rounds \in Nat
            /\ z * Len(Servers) + Len(Servers) <= Len(Servers) * Rounds
        BY ONLY z \in Nat, <4>1, RoundsFit
      <4>3. 0 * Len(Servers) = 0 /\ 0 * Len(Servers) + 0 + 1 = 1
        BY DnsParameters
      <4> QED BY ONLY <4>1, <4>2, <4>3
    <3>3. PICK m \in Nat : m = Len(Servers) * Rounds /\ 1 <= m
      BY <3>2, DnsParameters
    <3>4. Servers[1 + ((1 - 1) % Len(Servers))] = Servers[1]
      BY <3>2 DEF InTurn
    <3>5. AskedInTurn(k)'
      BY ONLY <2>6, <2>8, <3>3, <3>4 DEF AskedInTurn
    <3>6. InRound(k)'
      BY ONLY <2>6, <2>8, <3>2, DnsParameters DEF InRound
    <3> QED BY <3>1, <3>5, <3>6 DEF DnsTurns
  <2>10. ASSUME ~exhausted PROVE DnsWaiting'
    <3>1. DnsListed /\ DnsOwners /\ DnsAttempts
      BY <2>10 DEF DnsWaiting
    <3>2. listed'[k] /\ \A j \in Names \ {k} : listed'[j] <=> listed[j]
      BY <2>2, Zenon DEF DnsFlags
    <3>3. DnsListed'
      BY <2>1, <3>1, <3>2 DEF DnsListed, DnsTypes
    <3>4. stage[k] = "none" /\ leader[k] = {} /\ sharing[k] = {}
      BY <2>1, <3>1 DEF DnsListed
    <3>5. \A d \in Callers, j \in Names : Waits(d, j)' <=> (Waits(d, j) \/ (d = c /\ j = k))
      BY <2>1, <3>4 DEF Waits, DnsTypes
    <3>6. DnsOwners'
      BY <2>1, <3>1, <3>5 DEF DnsOwners, DnsTypes
    <3>7. Dns!Pending' \subseteq Dns!Pending
      BY <2>1 DEF Dns!Pending, DnsTypes
    <3> QED BY <2>1, <3>1, <3>3, <3>6, <3>7, PendingShrinks DEF DnsWaiting
  <2> QED BY <2>2, <2>3, <2>4, <2>7, <2>9, <2>10
<1>2. ASSUME NEW c \in Callers, NEW k \in Names, Dns!LookupRaises(c, k) PROVE DnsInvariant'
  <2>1. /\ lookup' = [lookup EXCEPT ![c] = "raised"] /\ leader' = leader /\ sharing' = sharing
        /\ stage' = stage /\ attempts' = attempts /\ left' = left /\ used' = used
        /\ round' = round /\ asked' = asked
    BY <1>2 DEF Dns!LookupRaises
  <2>2. listed' = [listed EXCEPT ![k] = TRUE] /\ exhausted' = TRUE
    BY <1>2 DEF Dns!LookupRaises
  <2>3. DnsFlags'
    BY <2>2 DEF DnsFlags
  <2>4. DnsTypes'
    BY <2>1 DEF DnsTypes
  <2>5. DnsTurns' /\ DnsQueryTypes'
    BY <2>1, TurnsKept
  <2> QED BY <2>2, <2>3, <2>4, <2>5
<1>3. ASSUME NEW c \in Callers, NEW k \in Names, Dns!LookupShares(c, k) PROVE DnsInvariant'
  <2>1. /\ lookup[c] = "unborn" /\ listed[k] /\ lookup' = [lookup EXCEPT ![c] = "waiting"]
        /\ sharing' = [sharing EXCEPT ![k] = sharing[k] \cup {c}] /\ leader' = leader
        /\ stage' = stage /\ attempts' = attempts /\ left' = left /\ used' = used
        /\ round' = round /\ asked' = asked /\ listed' = listed /\ exhausted' = exhausted
    BY <1>3 DEF Dns!LookupShares
  <2>2. DnsFlags'
    BY <2>1 DEF DnsFlags
  <2>3. DnsTypes'
    BY <2>1 DEF DnsTypes
  <2>4. DnsTurns' /\ DnsQueryTypes'
    BY <2>1, TurnsKept
  <2>5. ASSUME ~exhausted PROVE DnsWaiting'
    <3>1. DnsListed /\ DnsOwners /\ DnsAttempts
      BY <2>5 DEF DnsWaiting
    <3>2. DnsListed'
      BY <2>1, <3>1 DEF DnsListed, DnsTypes
    <3>3. \A d \in Callers, j \in Names : Waits(d, j)' <=> (Waits(d, j) \/ (d = c /\ j = k))
      BY <2>1 DEF Waits, DnsTypes
    <3>4. DnsOwners'
      BY <2>1, <3>1, <3>3 DEF DnsOwners, DnsTypes
    <3>5. Dns!Pending' \subseteq Dns!Pending
      BY <2>1 DEF Dns!Pending
    <3> QED BY <2>1, <3>1, <3>2, <3>4, <3>5, PendingShrinks DEF DnsWaiting
  <2> QED BY <2>1, <2>2, <2>3, <2>4, <2>5
<1>4. ASSUME NEW c \in Callers, Dns!CancelSharer(c) PROVE DnsInvariant'
  <2>1. /\ lookup[c] = "waiting" /\ lookup' = [lookup EXCEPT ![c] = "failed"]
        /\ sharing' = sharing /\ leader' = leader
        /\ stage' = stage /\ attempts' = attempts /\ left' = left /\ used' = used
        /\ round' = round /\ asked' = asked /\ listed' = listed /\ exhausted' = exhausted
    BY <1>4 DEF Dns!CancelSharer
  <2>2. DnsFlags'
    BY <2>1 DEF DnsFlags
  <2>3. DnsTypes'
    BY <2>1 DEF DnsTypes
  <2>4. DnsTurns' /\ DnsQueryTypes'
    BY <2>1, TurnsKept
  <2>5. ASSUME ~exhausted PROVE DnsWaiting'
    <3>1. DnsListed /\ DnsOwners /\ DnsAttempts
      BY <2>5 DEF DnsWaiting
    <3>2. DnsListed' /\ DnsOwners'
      BY <2>1, <3>1 DEF DnsListed, DnsOwners, Waits, DnsTypes
    <3>3. Dns!Pending' \subseteq Dns!Pending
      BY <2>1 DEF Dns!Pending
    <3> QED BY <2>1, <3>1, <3>2, <3>3, PendingShrinks DEF DnsWaiting
  <2> QED BY <2>1, <2>2, <2>3, <2>4, <2>5
<1>5. ASSUME NEW k \in Names, Dns!CancelLeader(k) \/ Dns!ReissueRaises(k) \/ Dns!TCPTimeout(k)
      PROVE  DnsInvariant'
  <2>1. /\ Dns!Finish({k}, "failed") /\ UNCHANGED <<left, used, round, asked, exhausted, attempts>>
    BY <1>5 DEF Dns!CancelLeader, Dns!ReissueRaises, Dns!TCPTimeout
  <2> QED BY <2>1, FinishStep
<1>6. ASSUME NEW k \in Names, Dns!UDPTimeout(k) PROVE DnsInvariant'
  <2>1. stage[k] = "udp" /\ attempts' = attempts /\ exhausted' = exhausted
    BY <1>6 DEF Dns!UDPTimeout
  <2>2. CASE round'[k] = Rounds
    <3>1. Dns!Finish({k}, "failed") /\ UNCHANGED <<left, used, asked>>
      BY <1>6, <2>2 DEF Dns!UDPTimeout
    <3>2. /\ stage'[k] = "none" /\ \A j \in Names : stage'[j] = "udp" => j # k /\ stage[j] = "udp"
      BY <3>1 DEF Dns!Finish
    <3>3. /\ round' = [round EXCEPT ![k] = IF left[k] = <<>> THEN round[k] + 1 ELSE round[k]]
      BY <1>6 DEF Dns!UDPTimeout
    <3>4. DnsQueryTypes'
      BY <3>1, <3>3 DEF DnsQueryTypes
    <3>5. \A j \in Names \ {k} : round'[j] = round[j]
      BY <3>3 DEF DnsQueryTypes
    <3>6. DnsTurns'
      BY <3>1, <3>2, <3>5 DEF DnsTurns, AskedInTurn, InRound
    <3>7. /\ listed' \in [Names -> BOOLEAN]
          /\ lookup' \in [Callers -> {"unborn", "waiting", "answered", "failed", "raised"}]
          /\ leader' \in [Names -> SUBSET Callers] /\ sharing' \in [Names -> SUBSET Callers]
          /\ stage' \in [Names -> {"none", "udp", "pending", "tcp"}]
          /\ \A j \in Names : stage'[j] = IF j \in {k} THEN "none" ELSE stage[j]
          /\ DnsListed /\ DnsOwners => DnsListed' /\ DnsOwners'
      BY <3>1, FinishKeeps
    <3>8. DnsFlags'
      BY <2>1, <3>7 DEF DnsFlags
    <3>9. DnsTypes'
      BY <2>1, <3>7 DEF DnsTypes
    <3>10. Dns!Pending' \subseteq Dns!Pending
      BY <3>7 DEF Dns!Pending
    <3>11. ~exhausted => DnsWaiting'
      BY <2>1, <3>7, <3>10, PendingShrinks DEF DnsWaiting
    <3> QED BY <2>1, <3>4, <3>6, <3>8, <3>9, <3>11
  <2>3. CASE round'[k] # Rounds
    <3>1. DnsTurns' /\ DnsQueryTypes' /\ UNCHANGED <<lookup, leader, sharing, listed, stage>>
      BY <1>6, <2>1, <2>3, ReissueStep
    <3>2. DnsFlags'
      BY <2>1, <3>1 DEF DnsFlags
    <3>3. DnsTypes'
      BY <2>1, <3>1 DEF DnsTypes
    <3>4. (~exhausted => DnsWaiting)'
      BY <2>1, <3>1 DEF DnsWaiting, DnsListed, DnsOwners, Waits, DnsAttempts, Dns!Pending
    <3> QED BY <3>1, <3>2, <3>3, <3>4
  <2> QED BY <2>2, <2>3
<1>7. ASSUME NEW k \in Names, NEW what \in Dns!AnswerKinds,
             Dns!UDPAnswer(k, what) \/ Dns!TCPAnswer(k, what)
      PROVE  DnsInvariant'
  <2>1. /\ stage[k] # "none" /\ Dns!Answered(k, what)
        /\ UNCHANGED <<left, used, round, asked, exhausted>>
    BY <1>7 DEF Dns!UDPAnswer, Dns!TCPAnswer
  <2>2. CASE what = "truncated"
    BY <2>1, <2>2, QueryTCPStep DEF Dns!Answered
  <2>3. CASE what # "truncated"
    <3>1. Dns!Finish({k}, what) /\ attempts' = attempts /\ what \in {"answered", "failed"}
      BY <2>1, <2>3 DEF Dns!Answered, Dns!AnswerKinds
    <3> QED BY <2>1, <3>1, FinishStep
  <2> QED BY <2>2, <2>3
<1>8. CASE Dns!Connected
  <2>1. /\ attempts > 0 /\ attempts' = attempts - 1
        /\ stage' = [k \in Names |-> IF k \in Dns!Pending THEN "tcp" ELSE stage[k]]
        /\ lookup' = lookup /\ leader' = leader /\ sharing' = sharing /\ listed' = listed
        /\ left' = left /\ used' = used /\ round' = round /\ asked' = asked
        /\ exhausted' = exhausted
    BY <1>8 DEF Dns!Connected
  <2>2. DnsFlags'
    BY <2>1 DEF DnsFlags
  <2>3. DnsTypes'
    BY <2>1 DEF DnsTypes
  <2>4. DnsTurns' /\ DnsQueryTypes'
    BY <2>1, TurnsKept
  <2>5. ASSUME ~exhausted PROVE DnsWaiting'
    <3>1. DnsListed /\ DnsOwners
      BY <2>5 DEF DnsWaiting
    <3>2. DnsListed' /\ DnsOwners'
      BY <2>1, <3>1 DEF DnsListed, DnsOwners, Waits, DnsTypes, Dns!Pending
    <3>3. Dns!Pending' = {}
      BY <2>1 DEF Dns!Pending, DnsTypes
    <3>4. DnsAttempts'
      BY <2>1, <3>3, FS_EmptySet DEF DnsAttempts, DnsTypes
    <3> QED BY <3>2, <3>4 DEF DnsWaiting
  <2> QED BY <2>1, <2>2, <2>3, <2>4, <2>5
<1>9. CASE Dns!ConnectionFails
  <2>1. /\ attempts > 0 /\ attempts' = attempts - 1 /\ Dns!Finish(Dns!Pending, "failed")
        /\ UNCHANGED <<left, used, round, asked, exhausted>>
    BY <1>9 DEF Dns!ConnectionFails, Dns!FailPending
  <2>2. Dns!Pending \subseteq Names
    BY DEF Dns!Pending
  <2>3. /\ listed' \in [Names -> BOOLEAN]
        /\ lookup' \in [Callers -> {"unborn", "waiting", "answered", "failed", "raised"}]
        /\ leader' \in [Names -> SUBSET Callers] /\ sharing' \in [Names -> SUBSET Callers]
        /\ stage' \in [Names -> {"none", "udp", "pending", "tcp"}]
        /\ \A k \in Names : stage'[k] = IF k \in Dns!Pending THEN "none" ELSE stage[k]
        /\ DnsListed /\ DnsOwners => DnsListed' /\ DnsOwners'
    <3>1. PICK keys \in SUBSET Names : keys = Dns!Pending
      BY <2>2
    <3>2. Dns!Finish(keys, "failed")
      BY <2>1, <3>1 DEF Dns!Finish
    <3> HIDE DEF DnsInvariant
    <3>3. DnsFlags /\ DnsTypes
      BY DEF DnsInvariant
    <3> QED BY <3>1, <3>2, <3>3, FinishKeeps
  <2>4. DnsFlags'
    BY <2>1, <2>3 DEF DnsFlags
  <2>5. DnsTypes'
    BY <2>1, <2>3 DEF DnsTypes
  <2>6. DnsTurns' /\ DnsQueryTypes'
    BY <2>1, <2>3, TurnsKept
  <2>7. Dns!Pending' = {}
    BY <2>3 DEF Dns!Pending
  <2>8. DnsAttempts'
    BY <2>1, <2>7, FS_EmptySet DEF DnsAttempts, DnsTypes
  <2> QED BY <2>1, <2>3, <2>4, <2>5, <2>6, <2>8 DEF DnsWaiting
<1>10. ASSUME NEW n \in 1..MaxConns, Dns!ConnectionLost(n) PROVE DnsInvariant'
  <2>1. UNCHANGED <<lookup, leader, sharing, listed, stage, left, used, round, attempts, asked,
                    exhausted>>
    BY <1>10 DEF Dns!ConnectionLost
  <2>2. DnsFlags' /\ DnsTypes' /\ DnsQueryTypes'
    BY <2>1 DEF DnsFlags, DnsTypes, DnsQueryTypes
  <2>3. DnsTurns'
    BY <2>1 DEF DnsTurns, AskedInTurn, InRound
  <2>4. (~exhausted => DnsWaiting)'
    BY <2>1 DEF DnsWaiting, DnsListed, DnsOwners, Waits, DnsAttempts, Dns!Pending
  <2> QED BY <2>2, <2>3, <2>4
<1>11. CASE UNCHANGED Dns!dnsVars
  <2>1. UNCHANGED <<lookup, leader, sharing, listed, stage, left, used, round, attempts, asked,
                    exhausted>>
    BY <1>11 DEF Dns!dnsVars
  <2>2. DnsFlags' /\ DnsTypes' /\ DnsQueryTypes'
    BY <2>1 DEF DnsFlags, DnsTypes, DnsQueryTypes
  <2>3. DnsTurns'
    BY <2>1 DEF DnsTurns, AskedInTurn, InRound
  <2>4. (~exhausted => DnsWaiting)'
    BY <2>1 DEF DnsWaiting, DnsListed, DnsOwners, Waits, DnsAttempts, Dns!Pending
  <2> QED BY <2>2, <2>3, <2>4
<1> QED
  BY <1>1, <1>2, <1>3, <1>4, <1>5, <1>6, <1>7, <1>8, <1>9, <1>10, <1>11 DEF Dns!Next

(***************************************************************************)
(* The resolver: whoever waits for a name waits for its one query, which   *)
(* is under way; enough connections are being tried for the queries that   *)
(* wait for one, whichever of them fails; and the servers are asked in the *)
(* given order, once per timeout each (as long as no _lookup raised).      *)
(***************************************************************************)
THEOREM LookupsAreAlwaysDriven == Dns!Spec => []LookupsAreDriven
<1>1. DnsInvariant => LookupsAreDriven
  <2> SUFFICES ASSUME DnsInvariant, ~exhausted PROVE Dns!LookupsAreDriven
    BY DEF LookupsAreDriven, Dns!LookupsAreDriven
  <2>1. DnsListed /\ DnsOwners /\ DnsAttempts /\ DnsFlags /\ DnsTypes /\ DnsTurns /\ DnsQueryTypes
    BY DEF DnsInvariant, DnsWaiting
  <2>2. \A k \in Names : listed[k] = (stage[k] # "none") /\ listed[k] = (leader[k] # {})
    BY <2>1, Zenon DEF DnsListed, DnsFlags
  <2>3. ASSUME NEW c \in Callers, lookup[c] = "waiting"
        PROVE  Dns!Cardinality({k \in Names : c \in leader[k] \cup sharing[k]}) = 1
    <3>1. PICK k \in Names : Waits(c, k)
      BY <2>1, <2>3 DEF DnsOwners
    <3>2. {j \in Names : c \in leader[j] \cup sharing[j]} = {k}
      BY <2>1, <3>1 DEF DnsOwners, Waits
    <3> QED BY <3>2, FS_Singleton, DnsCardinality
  <2>4. attempts >= Dns!Cardinality(Dns!Pending)
    BY <2>1, DnsCardinality DEF DnsAttempts
  <2>5. /\ \A k \in Names : \A i \in DOMAIN asked[k] :
              asked[k][i] = Servers[1 + ((i - 1) % Len(Servers))]
        /\ \A k \in Names : Len(asked[k]) <= Len(Servers) * Rounds
        /\ \A k \in Names : stage[k] = "udp" =>
              Len(asked[k]) = round[k] * Len(Servers) + Len(used[k])
    <3>1. \A k \in Names : DOMAIN asked[k] = 1..Len(asked[k])
      BY <2>1 DEF DnsQueryTypes
    <3> QED BY <2>1, <3>1 DEF DnsTurns, AskedInTurn, InRound
  <2> QED BY <2>2, <2>3, <2>4, <2>5 DEF Dns!LookupsAreDriven
<1> QED BY <1>1, DnsInit, DnsStep, PTL DEF Dns!Spec

-------------------------------------------------------------------------------
(***************************************************************************)
(* Cooperator.  The list of tasks: what remove() and append() make of it.  *)
(***************************************************************************)

LEMMA RemoveIndex ==
    ASSUME NEW A, NEW s \in Seq(A), IsInjective(s), NEW k \in 1..Len(s)
    PROVE  RemoveFirst(s, s[k]) = RemoveAt(s, k)
<1>1. {i \in 1..Len(s) : s[i] = s[k]} = {k}
  BY DEF IsInjective
<1>2. k <= k
  OBVIOUS
<1>3. Min({k}) = k
  BY <1>2, Zenon DEF Min
<1>4. \E i \in 1..Len(s) : s[i] = s[k]
  OBVIOUS
<1>5. {k} # {}
  OBVIOUS
<1>6. SelectInSeq(s, LAMBDA v : v = s[k]) = k
  BY ONLY <1>1, <1>3, <1>5 DEF SelectInSeq
<1> QED BY ONLY <1>4, <1>6 DEF RemoveFirst

LEMMA ConcatFacts ==
    ASSUME NEW A, NEW a \in Seq(A), NEW b \in Seq(A)
    PROVE  a \o b \in Seq(A) /\ Len(a \o b) = Len(a) + Len(b)
OBVIOUS

LEMMA RemoveAtFacts ==
    ASSUME NEW A, NEW s \in Seq(A), NEW k \in 1..Len(s)
    PROVE  /\ RemoveAt(s, k) \in Seq(A) /\ Len(RemoveAt(s, k)) = Len(s) - 1
           /\ \A i \in 1..(Len(s) - 1) : RemoveAt(s, k)[i] = IF i < k THEN s[i] ELSE s[i + 1]
<1> DEFINE a == SubSeq(s, 1, k - 1)
           b == SubSeq(s, k + 1, Len(s))
<1>0. k \in Nat /\ Len(s) \in Nat /\ 1 <= k /\ k <= Len(s)
  OBVIOUS
<1>1. a \in Seq(A) /\ Len(a) = k - 1 /\ \A i \in 1..(k - 1) : a[i] = s[i]
  BY <1>0
<1>2. b \in Seq(A) /\ Len(b) = Len(s) - k
  BY <1>0
<1>a. \A i \in 1..(Len(s) - k) : b[i] = s[k + i]
  BY <1>0
<1> HIDE DEF a, b
<1>3. a \o b \in Seq(A) /\ Len(a \o b) = Len(a) + Len(b)
  BY ONLY <1>1, <1>2, ConcatFacts
<1>4. \A i \in 1..(Len(a) + Len(b)) : (a \o b)[i] = IF i <= Len(a) THEN a[i] ELSE b[i - Len(a)]
  BY <1>1, <1>2
<1>5. RemoveAt(s, k) = a \o b
  BY DEF RemoveAt, a, b
<1>6. ASSUME NEW i \in 1..(Len(s) - 1) PROVE (a \o b)[i] = IF i < k THEN s[i] ELSE s[i + 1]
  <2>1. i \in 1..(Len(a) + Len(b))
    BY <1>0, <1>1, <1>2
  <2>2. CASE i < k
    BY <1>0, <1>1, <1>4, <2>1, <2>2
  <2>3. CASE ~(i < k)
    <3>1. i - Len(a) \in 1..(Len(s) - k) /\ k + (i - Len(a)) = i + 1 /\ ~(i <= Len(a))
      BY <1>0, <1>1, <2>3
    <3> QED BY <1>a, <1>4, <2>1, <2>3, <3>1
  <2> QED BY <2>2, <2>3
<1>7. Len(a) + Len(b) = Len(s) - 1
  BY <1>0, <1>1, <1>2
<1> QED BY ONLY <1>3, <1>5, <1>6, <1>7

LEMMA RemoveFacts ==
    ASSUME NEW A, NEW s \in Seq(A), IsInjective(s), NEW e
    PROVE  /\ RemoveFirst(s, e) \in Seq(A) /\ IsInjective(RemoveFirst(s, e))
           /\ ToSet(RemoveFirst(s, e)) = ToSet(s) \ {e}
<1>1. CASE \A i \in 1..Len(s) : s[i] # e
  <2>1. RemoveFirst(s, e) = s
    BY <1>1 DEF RemoveFirst
  <2> QED BY <1>1, <2>1 DEF ToSet
<1>2. CASE \E k \in 1..Len(s) : s[k] = e
  <2>1. PICK k \in 1..Len(s) : s[k] = e
    BY <1>2
  <2>a. RemoveFirst(s, e) = RemoveAt(s, k)
    BY <2>1, RemoveIndex
  <2>b. /\ RemoveAt(s, k) \in Seq(A) /\ Len(RemoveAt(s, k)) = Len(s) - 1
        /\ \A i \in 1..(Len(s) - 1) : RemoveAt(s, k)[i] = IF i < k THEN s[i] ELSE s[i + 1]
    BY RemoveAtFacts
  <2>2. PICK r \in Seq(A) :
           /\ r = RemoveFirst(s, e) /\ Len(r) = Len(s) - 1
           /\ \A i \in 1..(Len(s) - 1) : r[i] = IF i < k THEN s[i] ELSE s[i + 1]
    BY ONLY <2>a, <2>b, Zenon
  <2>0. k \in Nat /\ Len(s) \in Nat /\ 1 <= k /\ k <= Len(s) /\ DOMAIN s = 1..Len(s)
        /\ DOMAIN r = 1..(Len(s) - 1)
    BY <2>2
  <2>3. \A i, j \in 1..Len(s) : s[i] = s[j] => i = j
    BY <2>0 DEF IsInjective
  <2>4. ASSUME NEW i \in 1..(Len(s) - 1), NEW j \in 1..(Len(s) - 1), r[i] = r[j] PROVE i = j
    BY <2>0, <2>2, <2>3, <2>4
  <2>5. IsInjective(r)
    BY <2>0, <2>4 DEF IsInjective
  <2>6. ToSet(r) \subseteq ToSet(s) \ {e}
    <3> SUFFICES ASSUME NEW i \in 1..(Len(s) - 1) PROVE r[i] \in ToSet(s) \ {e}
      BY <2>0 DEF ToSet
    <3>1. CASE i < k
      BY <2>0, <2>1, <2>2, <2>3, <3>1 DEF ToSet
    <3>2. CASE ~(i < k)
      <4>1. i + 1 \in 1..Len(s) /\ i + 1 # k
        BY <2>0, <3>2
      <4>2. s[i + 1] # e
        BY <2>1, <2>3, <4>1
      <4> QED BY <2>0, <2>2, <3>2, <4>1, <4>2 DEF ToSet
    <3> QED BY <3>1, <3>2
  <2>7. ToSet(s) \ {e} \subseteq ToSet(r)
    <3> SUFFICES ASSUME NEW j \in 1..Len(s), s[j] # e PROVE \E i \in 1..(Len(s) - 1) : r[i] = s[j]
      BY <2>0 DEF ToSet
    <3>1. CASE j < k
      BY <2>0, <2>2, <3>1
    <3>2. CASE j > k
      <4>1. j - 1 \in 1..(Len(s) - 1) /\ ~(j - 1 < k) /\ (j - 1) + 1 = j
        BY <2>0, <3>2
      <4> QED BY <2>2, <4>1
    <3> QED BY <2>0, <2>1, <3>1, <3>2
  <2> QED BY <2>2, <2>5, <2>6, <2>7
<1> QED BY <1>1, <1>2

LEMMA AppendSet ==
    ASSUME NEW A, NEW s \in Seq(A), IsInjective(s), NEW e \in A, e \notin ToSet(s)
    PROVE  /\ Append(s, e) \in Seq(A) /\ IsInjective(Append(s, e))
           /\ ToSet(Append(s, e)) = ToSet(s) \cup {e} /\ Append(s, e) # <<>>
<1> DEFINE r == Append(s, e)
<1>1. /\ r \in Seq(A) /\ Len(r) = Len(s) + 1 /\ r[Len(s) + 1] = e
      /\ \A i \in 1..Len(s) : r[i] = s[i]
  BY AppendFacts
<1> HIDE DEF r
<1>2. DOMAIN s = 1..Len(s) /\ DOMAIN r = 1..(Len(s) + 1) /\ Len(s) \in Nat
  BY <1>1
<1>n. \A i \in 1..Len(s) : r[i] # e
  BY <1>1, <1>2 DEF ToSet
<1>3. IsInjective(r)
  <2> SUFFICES ASSUME NEW i \in 1..(Len(s) + 1), NEW j \in 1..(Len(s) + 1), r[i] = r[j] PROVE i = j
    BY <1>2 DEF IsInjective
  <2>1. CASE i \in 1..Len(s) /\ j \in 1..Len(s)
    BY <1>1, <1>2, <2>1 DEF IsInjective
  <2>2. CASE i = Len(s) + 1 /\ j \in 1..Len(s)
    BY <1>1, <1>n, <2>2
  <2>3. CASE j = Len(s) + 1 /\ i \in 1..Len(s)
    BY <1>1, <1>n, <2>3
  <2> QED BY <1>2, <2>1, <2>2, <2>3
<1>4. ToSet(r) = ToSet(s) \cup {e}
  <2>1. ToSet(r) \subseteq ToSet(s) \cup {e}
    BY <1>1, <1>2 DEF ToSet
  <2>2. e \in ToSet(r)
    BY <1>1, <1>2 DEF ToSet
  <2>3. ASSUME NEW i \in 1..Len(s) PROVE s[i] \in ToSet(r)
    BY <1>1, <1>2 DEF ToSet
  <2> QED BY <1>2, <2>1, <2>2, <2>3 DEF ToSet
<1>5. r # <<>>
  BY <1>1, <1>2
<1> QED BY <1>1, <1>3, <1>4, <1>5 DEF r

LEMMA EmptyList == ASSUME NEW A, NEW s \in Seq(A) PROVE s = <<>> <=> ToSet(s) = {}
<1>1. DOMAIN s = 1..Len(s) /\ Len(s) \in Nat /\ (s = <<>> <=> Len(s) = 0)
  OBVIOUS
<1>2. CASE Len(s) = 0
  BY <1>1, <1>2 DEF ToSet
<1>3. CASE Len(s) > 0
  <2>1. s[1] \in ToSet(s)
    BY <1>1, <1>3 DEF ToSet
  <2> QED BY <1>1, <1>3, <2>1
<1> QED BY <1>1, <1>2, <1>3

-------------------------------------------------------------------------------
(***************************************************************************)
(* The inductive invariant.  What CooperatorNeverStalls says of the list   *)
(* and of the scheduled call, and in addition: a Cooperator that has not   *)
(* been started remembers to schedule its first tick, and a task that      *)
(* waits for a Deferred is paused.                                         *)
(***************************************************************************)
CoopTypes ==
    /\ ready \in Seq(Tasks) /\ leftover = <<>> /\ index \in Nat
    /\ completion \in [Tasks -> {"unborn", "running", "SchedulerStopped", "TaskStopped",
                                "TaskDone", "TaskFailed"}]
    /\ pauseCount \in [Tasks -> Nat]
    /\ waits \in [Tasks -> BOOLEAN] /\ answered \in [Tasks -> BOOLEAN]

CoopList ==
    /\ IsInjective(ready)
    /\ \A t \in Tasks : t \in ToSet(ready) <=> completion[t] = "running" /\ pauseCount[t] = 0

CoopScheduled ==
    /\ delayed => ready # <<>>
    /\ (turn = Idle /\ started /\ ready # <<>>) => delayed
    /\ (~started /\ ready # <<>>) => mustSchedule
    /\ stopped => ready = <<>>

CoopTasks ==
    /\ \A t \in Tasks : answered[t] <=> Finished(t)
    /\ \A t \in Tasks : waits[t] => pauseCount[t] > 0
    /\ \A t \in Tasks : completion[t] = "unborn" => pauseCount[t] = 0

CoopGood == CoopTypes /\ CoopList /\ CoopScheduled /\ CoopTasks

CoopInvariant == Orderly => CoopGood

LEMMA CoopInit == Init => CoopInvariant
<1> SUFFICES ASSUME Init PROVE CoopGood
  BY DEF CoopInvariant
<1>1. CoopTypes
  BY DEF Init, CoopTypes
<1>2. ToSet(ready) = {} /\ IsInjective(ready)
  BY DEF Init, ToSet, IsInjective
<1>3. CoopList
  BY <1>2 DEF Init, CoopList
<1>4. CoopScheduled
  BY DEF Init, CoopScheduled
<1>5. CoopTasks
  BY DEF Init, CoopTasks, Finished
<1> QED BY <1>1, <1>3, <1>4, <1>5 DEF CoopGood

\* Once an iterator went on after its end, or stop() passed over a task, that is so for good.
LEMMA OrderlyBefore == ASSUME [Next]_coopVars, Orderly' PROVE Orderly
<1>1. CASE UNCHANGED coopVars
  BY <1>1 DEF coopVars, Orderly
<1>2. CASE Api
  <2>1. CASE \E t \in Tasks : Cooperate(t) \/ Pause(t) \/ Resume(t) \/ StopTask(t)
    BY <2>1 DEF Cooperate, Pause, Resume, ResumeTask, StopTask, history, Orderly
  <2>2. CASE Start \/ Stop
    BY <2>2 DEF Start, Stop, history, Orderly
  <2> QED BY <1>2, <2>1, <2>2 DEF Api
<1>3. CASE Tick
  BY <1>3 DEF Tick, history, Orderly
<1>4. ASSUME NEW t \in Tasks, UnitEnds(t) PROVE Orderly
  <2>1. CASE Yields(t)
    BY <2>1 DEF Yields, history, Orderly
  <2>2. CASE YieldsDeferred(t)
    BY <2>2 DEF YieldsDeferred, Escapes, history, Orderly
  <2>3. ASSUME NEW how, Ends(t, how) PROVE Orderly
    BY <2>3 DEF Ends, Escapes, Orderly
  <2> QED BY <1>4, <2>1, <2>2, <2>3 DEF UnitEnds
<1>5. ASSUME NEW t \in Tasks, DeferredFires(t) \/ DeferredFails(t) PROVE Orderly
  BY <1>5 DEF DeferredFires, DeferredFails, ResumeTask, history, Orderly
<1>6. CASE GoesOn \/ TickEnds
  BY <1>6 DEF GoesOn, TickEnds, history, Orderly
<1> QED BY <1>1, <1>2, <1>3, <1>4, <1>5, <1>6 DEF Next

LEMMA CoopRemove ==
    ASSUME CoopGood, NEW t \in Tasks, RemoveTask(t)
    PROVE  /\ ready' \in Seq(Tasks) /\ IsInjective(ready') /\ ToSet(ready') = ToSet(ready) \ {t}
           /\ delayed' <=> (delayed /\ ready' # <<>>)
           /\ ready' # <<>> => ready # <<>>
<1>1. ready \in Seq(Tasks) /\ IsInjective(ready)
  BY DEF CoopGood, CoopTypes, CoopList
<1>2. /\ RemoveFirst(ready, t) \in Seq(Tasks) /\ IsInjective(RemoveFirst(ready, t))
      /\ ToSet(RemoveFirst(ready, t)) = ToSet(ready) \ {t}
  BY <1>1, RemoveFacts
<1>3. ready' = RemoveFirst(ready, t)
  BY DEF RemoveTask
<1>4. delayed' = (delayed /\ ready' # <<>>)
  BY DEF RemoveTask, KeepCall
<1>5. delayed' <=> (delayed /\ ready' # <<>>)
  BY <1>4, Zenon
<1>6. ready' # <<>> => ready # <<>>
  <2>1. ready' \in Seq(Tasks) /\ ToSet(ready') = ToSet(ready) \ {t}
    BY <1>2, <1>3
  <2>2. (ready' = <<>> <=> ToSet(ready') = {}) /\ (ready = <<>> <=> ToSet(ready) = {})
    BY <1>1, <2>1, EmptyList
  <2> QED BY <2>1, <2>2
<1> QED BY <1>2, <1>3, <1>5, <1>6

\* The task leaves the list, by pause() or at its end, if it was on it.
LEMMA CoopLeaves ==
    ASSUME CoopGood, NEW t \in Tasks,
           IF pauseCount[t] = 0 THEN RemoveTask(t) ELSE UNCHANGED <<ready, delayed>>
    PROVE  /\ ready' \in Seq(Tasks) /\ IsInjective(ready')
           /\ \A u \in Tasks : u \in ToSet(ready') <=> u \in ToSet(ready) /\ u # t
           /\ delayed' <=> (delayed /\ ready' # <<>>)
           /\ ready' # <<>> => ready # <<>>
<1>1. CASE pauseCount[t] = 0
  BY <1>1, CoopRemove
<1>2. CASE pauseCount[t] # 0
  <2>1. ready' = ready /\ delayed' = delayed
    BY <1>2
  <2>2. t \notin ToSet(ready) /\ (delayed => ready # <<>>) /\ ready \in Seq(Tasks)
        /\ IsInjective(ready)
    BY <1>2 DEF CoopGood, CoopList, CoopScheduled, CoopTypes
  <2>3. delayed' <=> (delayed /\ ready' # <<>>)
    BY <2>1, <2>2, Zenon
  <2> QED BY <2>1, <2>2, <2>3
<1> QED BY <1>1, <1>2

LEMMA CoopPause ==
    ASSUME CoopGood, NEW t \in Tasks, Pause(t)
    PROVE  CoopGood'
<1>1. /\ ready' \in Seq(Tasks) /\ IsInjective(ready')
      /\ \A u \in Tasks : u \in ToSet(ready') <=> u \in ToSet(ready) /\ u # t
      /\ delayed' <=> (delayed /\ ready' # <<>>)
      /\ ready' # <<>> => ready # <<>>
  BY CoopLeaves DEF Pause
<1>2. /\ completion[t] = "running" /\ pauseCount' = [pauseCount EXCEPT ![t] = @ + 1]
      /\ completion' = completion /\ waits' = waits /\ answered' = answered
      /\ leftover' = leftover /\ index' = index
  BY DEF Pause, iteration
<1>3. CoopTypes'
  BY <1>1, <1>2 DEF CoopGood, CoopTypes
<1>4. CoopList'
  BY <1>1, <1>2 DEF CoopGood, CoopTypes, CoopList
<1>5. CoopScheduled'
  <2>1. stopped' = stopped /\ started' = started /\ mustSchedule' = mustSchedule /\ turn' = turn
    BY DEF Pause
  <2> QED BY <1>1, <2>1 DEF CoopGood, CoopScheduled
<1>6. CoopTasks'
  BY <1>2 DEF CoopGood, CoopTypes, CoopTasks, Finished
<1> QED BY <1>3, <1>4, <1>5, <1>6 DEF CoopGood

\* A task that is running and listed, or paused, is completed and its Deferreds are fired.
LEMMA CoopCompletes ==
    ASSUME CoopGood, NEW t \in Tasks, NEW how \in {"TaskStopped", "TaskDone", "TaskFailed"},
           ~Missing(t), completion[t] # "unborn", CompleteWith(t, how),
           UNCHANGED <<iteration, stopped, started, mustSchedule, pauseCount>>,
           turn' = turn \/ turn' # Idle,
           waits' \in [Tasks -> BOOLEAN], \A u \in Tasks : waits'[u] => waits[u]
    PROVE  CoopGood'
<1>1. /\ ready' \in Seq(Tasks) /\ IsInjective(ready')
      /\ \A u \in Tasks : u \in ToSet(ready') <=> u \in ToSet(ready) /\ u # t
      /\ delayed' <=> (delayed /\ ready' # <<>>)
      /\ ready' # <<>> => ready # <<>>
  BY CoopLeaves DEF CompleteWith
<1>2. /\ completion' = [completion EXCEPT ![t] = how] /\ pauseCount' = pauseCount
      /\ leftover' = leftover /\ index' = index
  BY DEF CompleteWith, iteration
<1>a. answered' = [answered EXCEPT ![t] = TRUE]
  BY DEF CompleteWith, CoopGood, CoopTypes
<1>3. CoopTypes'
  BY <1>1, <1>2, <1>a DEF CoopGood, CoopTypes
<1>4. CoopList'
  BY <1>1, <1>2 DEF CoopGood, CoopTypes, CoopList
<1>5. CoopScheduled'
  BY <1>1 DEF CoopGood, CoopScheduled
<1>6. CoopTasks'
  <2>1. \A u \in Tasks : answered'[u] <=> Finished(u)'
    <3>1. ASSUME NEW u \in Tasks, u # t PROVE answered'[u] <=> Finished(u)'
      <4>1. answered'[u] = answered[u] /\ completion'[u] = completion[u]
        BY <1>2, <1>a, <3>1 DEF CoopGood, CoopTypes
      <4> QED BY <4>1, Zenon DEF CoopGood, CoopTasks, Finished
    <3>2. answered'[t] = TRUE /\ completion'[t] = how
      BY <1>2, <1>a DEF CoopGood, CoopTypes
    <3> QED BY <3>1, <3>2 DEF Finished
  <2>2. \A u \in Tasks : waits'[u] => pauseCount'[u] > 0
    BY <1>2 DEF CoopGood, CoopTasks
  <2>3. \A u \in Tasks : completion'[u] = "unborn" => pauseCount'[u] = 0
    BY <1>2 DEF CoopGood, CoopTypes, CoopTasks
  <2> QED BY <2>1, <2>2, <2>3 DEF CoopTasks
<1> QED BY <1>3, <1>4, <1>5, <1>6 DEF CoopGood

\* What _addTask does to a task that is running, or new, and not on the list.
CoopAdded(t) ==
    /\ stopped =>
        /\ completion' = [completion EXCEPT ![t] = "SchedulerStopped"]
        /\ answered' = [answered EXCEPT ![t] = TRUE]
        /\ ready' = ready /\ mustSchedule' = mustSchedule
        /\ delayed' <=> (delayed /\ ready # <<>>)
    /\ ~stopped =>
        /\ completion' = [completion EXCEPT ![t] = "running"] /\ answered' = answered
        /\ ready' = Append(ready, t)
        /\ started => (delayed' <=> delayed \/ ready' # <<>>)
        /\ ~started => mustSchedule' /\ delayed' = delayed

LEMMA CoopAddTask == ASSUME NEW t \in Tasks, NEW p, AddTask(t, p) PROVE CoopAdded(t)
<1>1. CASE stopped
  <2>1. /\ completion' = [completion EXCEPT ![t] = "SchedulerStopped"]
        /\ answered' = [answered EXCEPT ![t] = TRUE]
        /\ ready' = ready /\ mustSchedule' = mustSchedule
        /\ delayed' = (delayed /\ ready # <<>>)
    BY <1>1 DEF AddTask
  <2> QED BY <1>1, <2>1, Zenon DEF CoopAdded
<1>2. CASE ~stopped
  <2>1. /\ completion' = [completion EXCEPT ![t] = "running"] /\ answered' = answered
        /\ ready' = Append(ready, t) /\ Reschedule(ready')
    BY <1>2 DEF AddTask
  <2>2. started => delayed' = (delayed \/ ready' # <<>>)
    BY <2>1, Zenon DEF Reschedule
  <2>3. ~started => mustSchedule' = TRUE /\ delayed' = delayed
    BY <2>1, Zenon DEF Reschedule
  <2> QED BY <1>2, <2>1, <2>2, <2>3, Zenon DEF CoopAdded
<1> QED BY <1>1, <1>2

LEMMA CoopJoins ==
    ASSUME CoopGood, NEW t \in Tasks, CoopAdded(t), t \notin ToSet(ready),
           completion[t] \in {"unborn", "running"},
           pauseCount' = [pauseCount EXCEPT ![t] = 0],
           UNCHANGED <<iteration, stopped, started, turn>>,
           waits' \in [Tasks -> BOOLEAN], ~waits'[t],
           \A u \in Tasks : waits'[u] => waits[u]
    PROVE  CoopGood'
<1>1. leftover' = leftover /\ index' = index
  BY DEF iteration
<1>2. CASE stopped
  <2>1. /\ completion' = [completion EXCEPT ![t] = "SchedulerStopped"]
        /\ answered' = [answered EXCEPT ![t] = TRUE]
        /\ ready' = ready /\ mustSchedule' = mustSchedule
        /\ delayed' <=> (delayed /\ ready # <<>>)
    BY <1>2 DEF CoopAdded
  <2>2. CoopTypes'
    BY <1>1, <2>1 DEF CoopGood, CoopTypes
  <2>3. CoopList'
    BY <1>2, <2>1 DEF CoopGood, CoopTypes, CoopList
  <2>4. CoopScheduled'
    BY <1>2, <2>1 DEF CoopGood, CoopScheduled
  <2>5. \A u \in Tasks : answered'[u] <=> Finished(u)'
    <3>1. ASSUME NEW u \in Tasks, u # t PROVE answered'[u] <=> Finished(u)'
      <4>1. answered'[u] = answered[u] /\ completion'[u] = completion[u]
        BY <2>1, <3>1 DEF CoopGood, CoopTypes
      <4> QED BY <4>1, Zenon DEF CoopGood, CoopTasks, Finished
    <3>2. answered'[t] = TRUE /\ completion'[t] = "SchedulerStopped"
      BY <2>1 DEF CoopGood, CoopTypes
    <3> QED BY <3>1, <3>2 DEF Finished
  <2>6. CoopTasks'
    BY <2>1, <2>5 DEF CoopGood, CoopTypes, CoopTasks
  <2> QED BY <2>2, <2>3, <2>4, <2>6 DEF CoopGood
<1>3. CASE ~stopped
  <2>1. /\ completion' = [completion EXCEPT ![t] = "running"] /\ answered' = answered
        /\ ready' = Append(ready, t)
        /\ started => (delayed' <=> delayed \/ ready' # <<>>)
        /\ ~started => mustSchedule' /\ delayed' = delayed
    BY <1>3 DEF CoopAdded
  <2>2. /\ Append(ready, t) \in Seq(Tasks) /\ IsInjective(Append(ready, t))
        /\ ToSet(Append(ready, t)) = ToSet(ready) \cup {t} /\ Append(ready, t) # <<>>
    BY AppendSet DEF CoopGood, CoopTypes, CoopList
  <2>3. /\ ready' \in Seq(Tasks) /\ IsInjective(ready')
        /\ ToSet(ready') = ToSet(ready) \cup {t} /\ ready' # <<>>
    BY <2>1, <2>2
  <2>4. CoopTypes'
    BY <1>1, <2>1, <2>3 DEF CoopGood, CoopTypes
  <2>5. CoopList'
    BY <2>1, <2>3 DEF CoopGood, CoopTypes, CoopList
  <2>6. CoopScheduled'
    BY <1>3, <2>1, <2>3 DEF CoopGood, CoopScheduled
  <2>7. \A u \in Tasks : answered'[u] <=> Finished(u)'
    BY <2>1 DEF CoopGood, CoopTypes, CoopTasks, Finished
  <2>8. CoopTasks'
    BY <2>1, <2>7 DEF CoopGood, CoopTypes, CoopTasks
  <2> QED BY <2>4, <2>5, <2>6, <2>8 DEF CoopGood
<1> QED BY <1>2, <1>3

LEMMA CoopCooperate ==
    ASSUME CoopGood, NEW t \in Tasks, Cooperate(t)
    PROVE  CoopGood'
<1>1. PICK p : p = pauseCount
  OBVIOUS
<1>2. AddTask(t, p) /\ pauseCount' = pauseCount /\ completion[t] = "unborn"
  BY <1>1 DEF Cooperate, AddTask
<1>3. CoopAdded(t)
  BY <1>2, CoopAddTask
<1>4. pauseCount[t] = 0 /\ pauseCount \in [Tasks -> Nat] /\ t \notin ToSet(ready)
  BY <1>2 DEF CoopGood, CoopTypes, CoopList, CoopTasks
<1>5. pauseCount' = [pauseCount EXCEPT ![t] = 0]
  BY <1>2, <1>4
<1>6. /\ UNCHANGED <<iteration, stopped, started, turn>> /\ waits' = waits
      /\ waits \in [Tasks -> BOOLEAN] /\ ~waits[t]
  BY <1>4 DEF Cooperate, CoopGood, CoopTypes, CoopTasks
<1> QED BY <1>2, <1>3, <1>4, <1>5, <1>6, CoopJoins

LEMMA CoopResumes ==
    ASSUME CoopGood, NEW t \in Tasks, ResumeTask(t), waits' \in [Tasks -> BOOLEAN],
           waits'[t] => pauseCount[t] > 1, \A u \in Tasks : waits'[u] => waits[u]
    PROVE  CoopGood'
<1>0. UNCHANGED <<iteration, stopped, started, turn>> /\ pauseCount[t] > 0
      /\ pauseCount \in [Tasks -> Nat]
  BY DEF ResumeTask, CoopGood, CoopTypes
<1>1. CASE pauseCount[t] = 1 /\ completion[t] = "running"
  <2>1. PICK p : p = [pauseCount EXCEPT ![t] = 0]
    OBVIOUS
  <2>2. AddTask(t, p) /\ pauseCount' = [pauseCount EXCEPT ![t] = 0]
    BY <1>1, <2>1 DEF ResumeTask, AddTask
  <2>3. CoopAdded(t)
    BY <2>2, CoopAddTask
  <2>4. t \notin ToSet(ready) /\ ~waits'[t]
    BY <1>1 DEF CoopGood, CoopList
  <2> QED BY <1>0, <1>1, <2>2, <2>3, <2>4, CoopJoins
<1>2. CASE ~(pauseCount[t] = 1 /\ completion[t] = "running")
  <2>1. /\ pauseCount' = [pauseCount EXCEPT ![t] = @ - 1]
        /\ UNCHANGED <<ready, delayed, mustSchedule, completion, answered>>
    BY <1>2 DEF ResumeTask
  <2>2. CoopTypes'
    BY <1>0, <2>1 DEF CoopGood, CoopTypes, iteration
  <2>3. CoopList'
    BY <1>0, <1>2, <2>1 DEF CoopGood, CoopTypes, CoopList
  <2>4. CoopScheduled'
    BY <1>0, <2>1 DEF CoopGood, CoopScheduled
  <2>5. CoopTasks'
    BY <1>0, <2>1 DEF CoopGood, CoopTypes, CoopTasks, Finished
  <2> QED BY <2>2, <2>3, <2>4, <2>5 DEF CoopGood
<1> QED BY <1>1, <1>2

LEMMA CoopResume ==
    ASSUME CoopGood, NEW t \in Tasks, Resume(t)
    PROVE  CoopGood'
<1>1. /\ ResumeTask(t) /\ waits' = waits /\ waits \in [Tasks -> BOOLEAN]
      /\ waits[t] => pauseCount[t] > 1
  BY DEF Resume, CoopGood, CoopTypes
<1> QED BY <1>1, CoopResumes

LEMMA CoopFires ==
    ASSUME CoopGood, NEW t \in Tasks, DeferredFires(t)
    PROVE  CoopGood'
<1>1. ResumeTask(t) /\ waits' = [waits EXCEPT ![t] = FALSE] /\ waits \in [Tasks -> BOOLEAN]
  BY DEF DeferredFires, CoopGood, CoopTypes
<1>2. waits' \in [Tasks -> BOOLEAN] /\ ~waits'[t] /\ \A u \in Tasks : waits'[u] => waits[u]
  BY <1>1
<1> QED BY <1>1, <1>2, CoopResumes

LEMMA CoopFails ==
    ASSUME CoopGood, NEW t \in Tasks, DeferredFails(t)
    PROVE  CoopGood'
<1>1. CompleteWith(t, "TaskFailed") /\ waits' = [waits EXCEPT ![t] = FALSE]
      /\ waits \in [Tasks -> BOOLEAN] /\ waits[t]
      /\ UNCHANGED <<iteration, stopped, started, mustSchedule, pauseCount, turn>>
  BY DEF DeferredFails, CoopGood, CoopTypes
<1>2. waits' \in [Tasks -> BOOLEAN] /\ \A u \in Tasks : waits'[u] => waits[u]
  BY <1>1
<1>3. ~Missing(t) /\ completion[t] # "unborn"
  BY <1>1 DEF CoopGood, CoopTasks, CoopTypes, Missing
<1> QED BY <1>1, <1>2, <1>3, CoopCompletes

LEMMA CoopListed == ASSUME CoopGood, NEW t \in Tasks PROVE Contains(ready, t) <=> t \in ToSet(ready)
<1>1. ready \in Seq(Tasks)
  BY DEF CoopGood, CoopTypes
<1> QED BY <1>1 DEF Contains, ToSet

LEMMA CoopStopTask ==
    ASSUME CoopGood, NEW t \in Tasks, StopTask(t)
    PROVE  CoopGood'
<1>1. CompleteWith(t, "TaskStopped") /\ waits' = waits /\ waits \in [Tasks -> BOOLEAN]
      /\ UNCHANGED <<iteration, stopped, started, mustSchedule, pauseCount, turn>>
      /\ completion[t] = "running"
  BY DEF StopTask, CoopGood, CoopTypes
<1>2. ~Missing(t)
  BY <1>1, CoopListed DEF CoopGood, CoopList, Missing
<1> QED BY <1>1, <1>2, CoopCompletes

LEMMA CoopEnds ==
    ASSUME CoopGood, NEW t \in Tasks, NEW how, Ends(t, how), Orderly'
    PROVE  CoopGood'
<1>1. ~Missing(t) /\ ~Finished(t)
  <2>1. ~Missing(t)
    BY DEF Ends, Escapes, Orderly
  <2>2. impolite' = (impolite \/ Finished(t))
    BY <2>1 DEF Ends
  <2> QED BY <2>1, <2>2, Zenon DEF Orderly
<1>2. /\ CompleteWith(t, how) /\ waits' = waits /\ waits \in [Tasks -> BOOLEAN]
      /\ UNCHANGED <<iteration, stopped, started, mustSchedule, pauseCount>>
      /\ turn' = Between /\ how \in {"TaskDone", "TaskFailed"}
  BY <1>1 DEF Ends, CoopGood, CoopTypes
<1>3. completion[t] # "unborn"
  BY <1>1, CoopListed DEF Missing, CoopGood, CoopList, CoopTasks
<1>4. turn' # Idle
  BY <1>2 DEF Between, Idle
<1> QED BY <1>1, <1>2, <1>3, <1>4, CoopCompletes

LEMMA CoopYieldsDeferred ==
    ASSUME CoopGood, NEW t \in Tasks, YieldsDeferred(t), Orderly'
    PROVE  CoopGood'
<1>1. ~Finished(t) /\ ~Missing(t)
  BY DEF YieldsDeferred, Escapes, Orderly
<1>2. /\ turn' = Between /\ waits' = [waits EXCEPT ![t] = TRUE]
      /\ pauseCount' = [pauseCount EXCEPT ![t] = @ + 1]
      /\ IF pauseCount[t] = 0 THEN RemoveTask(t) ELSE UNCHANGED <<ready, delayed>>
      /\ UNCHANGED <<iteration, stopped, started, mustSchedule, completion, answered>>
  BY <1>1 DEF YieldsDeferred
<1>3. completion[t] = "running"
  BY <1>1, CoopListed DEF Missing, Finished, CoopGood, CoopList, CoopTasks
<1>4. /\ ready' \in Seq(Tasks) /\ IsInjective(ready')
      /\ \A u \in Tasks : u \in ToSet(ready') <=> u \in ToSet(ready) /\ u # t
      /\ delayed' <=> (delayed /\ ready' # <<>>)
      /\ ready' # <<>> => ready # <<>>
  BY <1>2, CoopLeaves
<1>5. CoopTypes'
  BY <1>2, <1>4 DEF CoopGood, CoopTypes, iteration
<1>6. CoopList'
  BY <1>2, <1>3, <1>4 DEF CoopGood, CoopTypes, CoopList
<1>7. CoopScheduled'
  BY <1>2, <1>4 DEF CoopGood, CoopScheduled, Between, Idle
<1>8. CoopTasks'
  BY <1>2, <1>3 DEF CoopGood, CoopTypes, CoopTasks, Finished
<1> QED BY <1>5, <1>6, <1>7, <1>8 DEF CoopGood

\* A step that leaves the list and the tasks alone.
LEMMA CoopKept ==
    ASSUME CoopGood, leftover' = <<>>, index' \in Nat, CoopScheduled',
           UNCHANGED <<ready, completion, pauseCount, waits, answered>>
    PROVE  CoopGood'
<1>1. CoopTypes'
  BY DEF CoopGood, CoopTypes
<1>2. CoopList'
  BY DEF CoopGood, CoopList
<1>3. CoopTasks'
  BY DEF CoopGood, CoopTasks, Finished
<1> QED BY <1>1, <1>2, <1>3 DEF CoopGood

LEMMA CoopYields ==
    ASSUME CoopGood, NEW t \in Tasks, Yields(t)
    PROVE  CoopGood'
<1>1. /\ leftover' = leftover /\ index' = index
      /\ UNCHANGED <<ready, completion, pauseCount, waits, answered>>
      /\ turn' = Between /\ UNCHANGED <<delayed, stopped, started, mustSchedule>>
  BY DEF Yields, iteration
<1>2. CoopScheduled'
  BY <1>1 DEF CoopGood, CoopScheduled, Between, Idle
<1>3. leftover = <<>> /\ index \in Nat
  BY DEF CoopGood, CoopTypes
<1> QED BY <1>1, <1>2, <1>3, CoopKept

LEMMA CoopStart ==
    ASSUME CoopGood, Start
    PROVE  CoopGood'
<1>1. /\ leftover' = leftover /\ index' = index /\ turn' = turn
      /\ UNCHANGED <<ready, completion, pauseCount, waits, answered>>
      /\ started' = TRUE /\ stopped' = FALSE
      /\ delayed' = (delayed \/ (mustSchedule /\ ready # <<>>))
  BY DEF Start, iteration
<1>2. delayed' <=> (delayed \/ (mustSchedule /\ ready # <<>>))
  BY <1>1, Zenon
<1>3. CoopScheduled'
  BY <1>1, <1>2 DEF CoopGood, CoopScheduled
<1>4. leftover = <<>> /\ index \in Nat
  BY DEF CoopGood, CoopTypes
<1> QED BY <1>1, <1>3, <1>4, CoopKept

\* stop() that passes over no task: there was at most one.
LEMMA CoopStop ==
    ASSUME CoopGood, Stop, Orderly'
    PROVE  CoopGood'
<1>1. /\ stopped' = TRUE /\ ready' = <<>> /\ delayed' = FALSE /\ index' = index
      /\ leftover' = IF detached THEN leftover ELSE Passed
      /\ completion' = [t \in Tasks |-> IF t \in Reached THEN "SchedulerStopped" ELSE completion[t]]
      /\ answered' = [t \in Tasks |-> answered[t] \/ t \in Reached]
      /\ UNCHANGED <<started, mustSchedule, turn, pauseCount, waits>>
  BY DEF Stop
<1>2. ToSet(Passed) = {}
  BY DEF Stop, Orderly
<1>3. Passed = <<>>
  <2>1. DOMAIN Passed = 1..Len(ready) \div 2 /\ Len(ready) \div 2 \in Nat
    BY DEF Passed, CoopGood, CoopTypes
  <2>2. DOMAIN Passed = {}
    BY <1>2 DEF ToSet
  <2>3. Passed = [i \in {} |-> ready[2 * i]]
    BY <2>1, <2>2 DEF Passed
  <2> QED BY <2>3
<1>4. Reached = ToSet(ready)
  BY <1>2 DEF Reached
<1>5. CoopTypes'
  BY <1>1, <1>3 DEF CoopGood, CoopTypes
<1>6. IsInjective(ready') /\ ToSet(ready') = {}
  BY <1>1 DEF IsInjective, ToSet
<1>7. CoopList'
  <2> SUFFICES ASSUME NEW t \in Tasks PROVE ~(completion'[t] = "running" /\ pauseCount'[t] = 0)
    BY <1>6 DEF CoopList
  <2> QED BY <1>1, <1>4 DEF CoopGood, CoopList
<1>8. CoopScheduled'
  BY <1>1 DEF CoopScheduled
<1>9. CoopTasks'
  <2>1. ASSUME NEW t \in Tasks PROVE answered'[t] <=> Finished(t)'
    <3>1. CASE t \in Reached
      <4>1. completion'[t] = "SchedulerStopped" /\ answered'[t]
        BY <1>1, <3>1
      <4> QED BY <4>1 DEF Finished
    <3>2. CASE t \notin Reached
      <4>1. completion'[t] = completion[t] /\ (answered'[t] <=> answered[t])
        BY <1>1, <3>2
      <4> QED BY <4>1, Zenon DEF Finished, CoopGood, CoopTasks
    <3> QED BY <3>1, <3>2
  <2>2. \A t \in Tasks : waits'[t] => pauseCount'[t] > 0
    BY <1>1 DEF CoopGood, CoopTasks
  <2>3. \A t \in Tasks : completion'[t] = "unborn" => pauseCount'[t] = 0
    BY <1>1 DEF CoopGood, CoopTasks
  <2> QED BY <2>1, <2>2, <2>3 DEF CoopTasks
<1> QED BY <1>5, <1>7, <1>8, <1>9 DEF CoopGood

\* The iterator whose turn comes is a task's, never the end of the tick.
LEMMA CoopElement ==
    ASSUME CoopGood, NEW i \in 1..Len(ready)
    PROVE  ready[i] \in Tasks /\ ready[i] # Idle
<1>1. ready[i] \in Tasks
  BY DEF CoopGood, CoopTypes
<1> QED BY <1>1, CooperatorAssumption

LEMMA CoopRound ==
    ASSUME CoopGood, index < Len(Round)
    PROVE  Round[index + 1] # Idle
<1>1. leftover = <<>> /\ index \in Nat /\ ready \in Seq(Tasks)
  BY DEF CoopGood, CoopTypes
<1>2. ~detached
  BY <1>1 DEF Round
<1>3. Round = ready /\ index + 1 \in 1..Len(ready)
  BY <1>1, <1>2 DEF Round
<1> QED BY <1>3, CoopElement

LEMMA CoopFirst == ASSUME CoopGood, ready # <<>> PROVE ready[1] # Idle
<1>1. ready \in Seq(Tasks)
  BY DEF CoopGood, CoopTypes
<1>2. 1 \in 1..Len(ready)
  BY <1>1
<1> QED BY <1>2, CoopElement

LEMMA CoopTick ==
    ASSUME CoopGood, Tick
    PROVE  CoopGood'
<1>1. leftover = <<>> /\ index \in Nat /\ ready # <<>>
  BY DEF Tick, CoopGood, CoopTypes, CoopScheduled
<1>2. leftover' = <<>> /\ index' \in Nat
  BY <1>1 DEF Tick
<1>3. turn' # Idle
  <2>1. CASE index >= Len(Round)
    <3>1. turn' = ready[1]
      BY <2>1 DEF Tick
    <3> QED BY <1>1, <3>1, CoopFirst
  <2>2. CASE ~(index >= Len(Round))
    <3>1. turn' = Round[index + 1]
      BY <2>2 DEF Tick
    <3>2. Len(Round) \in Nat
      BY <1>1 DEF CoopGood, CoopTypes, Round
    <3> QED BY <1>1, <2>2, <3>1, <3>2, CoopRound
  <2> QED BY <2>1, <2>2
<1>4. CoopScheduled'
  <2>1. delayed' = FALSE /\ UNCHANGED <<ready, stopped, started, mustSchedule>>
    BY DEF Tick
  <2> QED BY <1>3, <2>1 DEF CoopGood, CoopScheduled
<1> QED BY <1>2, <1>4, CoopKept DEF Tick

LEMMA CoopReschedule ==
    ASSUME CoopGood, Reschedule(ready), UNCHANGED <<ready, stopped, started>>
    PROVE  CoopScheduled'
<1>1. CASE started
  <2>1. delayed' = (delayed \/ ready # <<>>)
    BY <1>1, Zenon DEF Reschedule
  <2>2. delayed' <=> (delayed \/ ready # <<>>)
    BY <2>1, Zenon
  <2> QED BY <1>1, <2>2 DEF CoopGood, CoopScheduled
<1>2. CASE ~started
  <2>1. mustSchedule' = TRUE /\ delayed' = delayed
    BY <1>2, Zenon DEF Reschedule
  <2> QED BY <1>2, <2>1 DEF CoopGood, CoopScheduled
<1> QED BY <1>1, <1>2

LEMMA CoopGoesOn ==
    ASSUME CoopGood, GoesOn
    PROVE  CoopGood'
<1>1. TakeTurn /\ UNCHANGED <<ready, stopped, started, completion, pauseCount, waits, answered>>
  BY DEF GoesOn
<1>2. leftover = <<>> /\ index \in Nat
  BY DEF CoopGood, CoopTypes
<1>3. CASE index < Len(Round)
  <2>1. /\ turn' = Round[index + 1] /\ index' = index + 1
        /\ UNCHANGED <<leftover, delayed, mustSchedule>>
    BY <1>1, <1>3 DEF TakeTurn
  <2>2. turn' # Idle
    BY <1>3, <2>1, CoopRound
  <2>3. CoopScheduled'
    BY <1>1, <2>1, <2>2 DEF CoopGood, CoopScheduled
  <2> QED BY <1>1, <1>2, <2>1, <2>3, CoopKept
<1>4. CASE ~(index < Len(Round)) /\ ready # <<>>
  <2>1. turn' = ready[1] /\ index' = 1 /\ leftover' = <<>> /\ UNCHANGED <<delayed, mustSchedule>>
    BY <1>1, <1>4 DEF TakeTurn
  <2>2. turn' # Idle
    BY <1>4, <2>1, CoopFirst
  <2>3. CoopScheduled'
    BY <1>1, <2>1, <2>2 DEF CoopGood, CoopScheduled
  <2> QED BY <1>1, <2>1, <2>3, CoopKept
<1>5. CASE ~(index < Len(Round)) /\ ready = <<>>
  <2>1. index' = 0 /\ leftover' = <<>> /\ Reschedule(ready)
    BY <1>1, <1>5 DEF TakeTurn
  <2>2. CoopScheduled'
    BY <1>1, <2>1, CoopReschedule
  <2> QED BY <1>1, <2>1, <2>2, CoopKept
<1> QED BY <1>3, <1>4, <1>5

LEMMA CoopTickEnds ==
    ASSUME CoopGood, TickEnds
    PROVE  CoopGood'
<1>1. Reschedule(ready) /\ leftover' = leftover /\ index' = index
      /\ UNCHANGED <<ready, stopped, started, completion, pauseCount, waits, answered>>
  BY DEF TickEnds, iteration
<1>2. CoopScheduled'
  BY <1>1, CoopReschedule
<1>3. leftover = <<>> /\ index \in Nat
  BY DEF CoopGood, CoopTypes
<1> QED BY <1>1, <1>2, <1>3, CoopKept

LEMMA CoopStep == CoopInvariant /\ [Next]_coopVars => CoopInvariant'
<1> SUFFICES ASSUME CoopInvariant, [Next]_coopVars, Orderly' PROVE CoopGood'
  BY DEF CoopInvariant
<1>0. CoopGood
  BY OrderlyBefore DEF CoopInvariant
<1>1. CASE UNCHANGED coopVars
  BY <1>0, <1>1 DEF coopVars, CoopGood, CoopTypes, CoopList, CoopScheduled, CoopTasks, Finished
<1>2. CASE Api
  BY <1>0, <1>2, CoopCooperate, CoopPause, CoopResume, CoopStopTask, CoopStart, CoopStop DEF Api
<1>3. ASSUME NEW t \in Tasks, UnitEnds(t) PROVE CoopGood'
  BY <1>0, <1>3, CoopYields, CoopYieldsDeferred, CoopEnds DEF UnitEnds
<1>4. ASSUME NEW t \in Tasks, DeferredFires(t) \/ DeferredFails(t) PROVE CoopGood'
  BY <1>0, <1>4, CoopFires, CoopFails
<1>5. CASE Tick \/ GoesOn \/ TickEnds
  BY <1>0, <1>5, CoopTick, CoopGoesOn, CoopTickEnds
<1> QED BY <1>1, <1>2, <1>3, <1>4, <1>5 DEF Next

(***************************************************************************)
(* A Cooperator never stalls: the list holds exactly the tasks that can    *)
(* run, a tick is scheduled whenever there is one and only then, whenDone  *)
(* has been answered exactly for the tasks that have ended, and a stopped  *)
(* Cooperator holds none; for any number of tasks and of pauses (as long   *)
(* as iterators merely yield after their end and stop() passed over none). *)
(***************************************************************************)
THEOREM CooperatorAlwaysGoesOn == Spec => []CooperatorNeverStalls
<1>1. CoopInvariant => CooperatorNeverStalls
  <2> SUFFICES ASSUME CoopGood
               PROVE  ToSet(ready) = {t \in Tasks : completion[t] = "running" /\ pauseCount[t] = 0}
    BY DEF CoopInvariant, CooperatorNeverStalls, CoopGood, CoopList, CoopScheduled, CoopTasks
  <2>1. ToSet(ready) \subseteq Tasks
    BY DEF ToSet, CoopGood, CoopTypes
  <2> QED BY <2>1 DEF CoopGood, CoopList
<1> QED BY <1>1, CoopInit, CoopStep, PTL DEF Spec

-------------------------------------------------------------------------------
(***************************************************************************)
(* HTTPClient.  The invariant says what the state of a connection means    *)
(* for its parser, its transport and the request it serves; a request that *)
(* waits without a parser can only be on a connection that is closing and  *)
(* is never used again.                                                    *)
(***************************************************************************)
\* A set of numbers has a least element: no smaller one is in it.
LEMMA Least == ASSUME NEW T \in SUBSET Nat, T # {} PROVE \E x \in T : \A y \in T : x <= y
<1>1. IsWellFoundedOn(OpToRel(<, Nat), Nat)
  BY NatLessThanWellFounded
<1>2. PICK R : R = OpToRel(<, Nat)
  OBVIOUS
<1>3. \E x \in T : \A y \in T : ~(<<y, x>> \in R)
  BY <1>1, <1>2, WFMin
<1>4. \A x, y \in Nat : <<y, x>> \in R <=> y < x
  BY <1>2 DEF OpToRel
<1>5. PICK x \in T : \A y \in T : ~(<<y, x>> \in R)
  BY <1>3
<1>6. \A y \in T : x <= y
  <2> TAKE y \in T
  <2>1. x \in Nat /\ y \in Nat
    OBVIOUS
  <2>2. ~(y < x)
    BY <1>4, <1>5, <2>1
  <2> QED BY <2>1, <2>2
<1> QED BY <1>6

HttpFates == {"new", "connecting", "waiting", "response", "failed"}

HttpStates == {"unmade", "QUIESCENT", "TRANSMITTING", "WAITING", "GENERATION_FAILED",
               "AFTER_RESPONSE", "ABORTING", "CONNECTION_LOST"}

HttpTypes ==
    /\ method \in [Requests -> {"GET", "POST"}]
    /\ fate \in [Requests -> HttpFates]
    /\ on \in [Requests -> Conns \cup {None}]
    /\ wrapped \in [Requests -> BOOLEAN]
    /\ sends \in [Requests -> Nat]
    /\ got \in [Requests -> {"nothing", "part", "body", "tail", "done"}]
    /\ body \in [Requests -> {"none", "INITIAL", "CONNECTED", "DEFERRED_CLOSE", "FINISHED"}]
    /\ hstate \in [Conns -> HttpStates]
    /\ parser \in [Conns -> Requests \cup {None}]
    /\ writing \in [Conns -> Requests \cup {None}]
    /\ chained \in [Conns -> BOOLEAN]
    /\ paused \in [Conns -> BOOLEAN]
    /\ closing \in [Conns -> BOOLEAN]

\* A request that has no connection (yet, or again) has no parser and no
\* answer; a second connection is a new one and not wrapped.
NotSentAgain ==
    \A r \in Requests :
        /\ fate[r] \in {"new", "connecting"} =>
              got[r] = "nothing" /\ \A c \in Conns : parser[c] # r
        /\ wrapped[r] => sends[r] <= 1
        /\ fate[r] = "new" => sends[r] = 0
        /\ fate[r] = "connecting" => sends[r] <= 1
        /\ sends[r] <= 2

\* What the state of a connection says about its parser and its transport.
StatesAgree ==
    \A c \in Conns :
        /\ hstate[c] \in {"unmade", "QUIESCENT", "AFTER_RESPONSE"} => parser[c] = None
        /\ hstate[c] \in {"GENERATION_FAILED", "ABORTING"} => closing[c]
        /\ hstate[c] \in {"TRANSMITTING", "GENERATION_FAILED"} => ~chained[c]
        /\ (hstate[c] = "WAITING" /\ parser[c] # None) => chained[c]

\* A parser that is chained answers the request unless it has done so.
ParsersAgree ==
    \A c \in Conns : \A r \in Requests : parser[c] = r =>
        /\ on[r] = c /\ got[r] # "done"
        /\ (chained[c] /\ got[r] \in {"nothing", "part"}) => fate[r] = "waiting"
        /\ (chained[c] /\ got[r] \in {"body", "tail"}) => fate[r] # "waiting"
        /\ hstate[c] = "TRANSMITTING" => fate[r] = "waiting"
        /\ hstate[c] \in {"GENERATION_FAILED", "CONNECTION_LOST"} => fate[r] = "failed"

\* A request that waits without a parser: its connection is never used again.
Orphaned ==
    \A r \in Requests : fate[r] = "waiting" =>
        /\ on[r] \in Conns
        /\ parser[on[r]] # r =>
              /\ parser[on[r]] = None /\ ~chained[on[r]] /\ closing[on[r]]
              /\ hstate[on[r]] \notin {"unmade", "QUIESCENT"}

BodiesEnd ==
    \A r \in Requests : (fate[r] = "response" /\ body[r] \in {"INITIAL", "CONNECTED"}) =>
        /\ on[r] \in Conns
        /\ \/ parser[on[r]] = r /\ Http!Exists(on[r])
           \/ got[r] = "tail" /\ closing[on[r]]

IdleIsKept ==
    /\ timers \subseteq Conns
    /\ \A c \in Conns : (hstate[c] = "QUIESCENT" /\ ~closing[c]) => c \in timers
    /\ \A c \in timers : parser[c] = None /\ ~paused[c] /\ hstate[c] # "unmade"

PoolIsList ==
    /\ cached \in Seq(Conns) /\ IsInjective(cached) /\ ToSet(cached) = timers
    /\ Len(cached) <= MaxPersistent

HttpRest ==
    /\ NotSentAgain /\ StatesAgree /\ ParsersAgree /\ Orphaned /\ BodiesEnd /\ IdleIsKept

HttpInvariant == HttpTypes /\ HttpRest /\ PoolIsList

LEMMA HttpInit == Http!Init => HttpInvariant
<1> SUFFICES ASSUME Http!Init PROVE HttpInvariant
  OBVIOUS
<1> USE HttpAssumption DEF Http!HTTPClientAssumption, Http!Init
<1>1. HttpTypes
  BY DEF HttpTypes, HttpFates, HttpStates
<1>2. HttpRest
  BY DEF HttpRest, NotSentAgain, StatesAgree, ParsersAgree, Orphaned, BodiesEnd, IdleIsKept
<1>3. PoolIsList
  BY DEF PoolIsList, IsInjective, ToSet
<1> QED BY <1>1, <1>2, <1>3 DEF HttpInvariant

\* The first usable connection of the list.
LEMMA LeastOf ==
    ASSUME NEW T \in SUBSET Nat, T # {}
    PROVE  Http!Min(T) \in T /\ \A i \in T : Http!Min(T) <= i
BY Least DEF Http!Min

LEMMA UsableFacts ==
    ASSUME HttpTypes, PoolIsList
    PROVE  /\ Http!Usable \in 0..Len(cached)
           /\ Http!Usable = 0 => \A c \in timers : hstate[c] # "QUIESCENT"
           /\ Http!Usable # 0 =>
                 /\ hstate[cached[Http!Usable]] = "QUIESCENT"
                 /\ \A i \in 1..(Http!Usable - 1) : hstate[cached[i]] # "QUIESCENT"
<1> DEFINE I == {i \in 1..Len(cached) : hstate[cached[i]] = "QUIESCENT"}
<1>1. Http!Usable = IF I # {} THEN Http!Min(I) ELSE 0
  BY DEF Http!Usable, Http!SelectInSeq
<1>2. Len(cached) \in Nat /\ DOMAIN cached = 1..Len(cached)
  BY DEF PoolIsList
<1>3. CASE I = {}
  <2>1. Http!Usable = 0
    BY <1>1, <1>3
  <2> QED BY <1>2, <1>3, <2>1 DEF PoolIsList, ToSet
<1>4. CASE I # {}
  <2>1. I \in SUBSET Nat
    BY <1>2
  <2> HIDE DEF I
  <2>2. PICK u : u = Http!Usable /\ u \in I /\ \A i \in I : u <= i
    BY ONLY <1>1, <1>4, <2>1, LeastOf
  <2> USE DEF I
  <2>3. \A i \in 1..(u - 1) : i \notin I /\ i \in 1..Len(cached)
    BY <1>2, <2>2
  <2> QED BY <1>2, <2>2, <2>3
<1> QED BY <1>3, <1>4

\* HTTP11ClientProtocol.request on a connection that is free.
LEMMA HttpRequest ==
    ASSUME HttpTypes, HttpRest, NEW c \in Conns, NEW r \in Requests, NEW again \in BOOLEAN,
           Http!Request(c, r, again), hstate[c] \in {"unmade", "QUIESCENT"},
           fate[r] \in {"new", "connecting"}, again => fate[r] = "new",
           timers' \subseteq timers, c \notin timers',
           \A d \in timers : hstate[d] = "QUIESCENT" /\ d # c => d \in timers'
    PROVE  HttpTypes' /\ HttpRest'
<1> USE HttpAssumption DEF Http!HTTPClientAssumption, Http!Request
<1>0. parser[c] = None /\ r # None /\ c # None
  BY DEF HttpRest, StatesAgree
<1>1. HttpTypes'
  <2>1. on' \in [Requests -> Conns \cup {None}] /\ wrapped' \in [Requests -> BOOLEAN]
    BY DEF HttpTypes
  <2>2. sends' \in [Requests -> Nat]
    BY DEF HttpTypes
  <2>3. parser' \in [Conns -> Requests \cup {None}] /\ writing' \in [Conns -> Requests \cup {None}]
    BY DEF HttpTypes
  <2>4. fate' \in [Requests -> HttpFates] /\ hstate' \in [Conns -> HttpStates]
    BY DEF HttpTypes, HttpFates, HttpStates
  <2>5. chained' \in [Conns -> BOOLEAN] /\ closing' \in [Conns -> BOOLEAN]
    BY DEF HttpTypes
  <2> QED BY <2>1, <2>2, <2>3, <2>4, <2>5 DEF HttpTypes
<1>2. NotSentAgain'
  BY DEF HttpTypes, HttpRest, NotSentAgain
<1>3. StatesAgree'
  BY <1>0 DEF HttpTypes, HttpRest, StatesAgree
<1>4. ParsersAgree'
  BY <1>0 DEF HttpTypes, HttpRest, ParsersAgree, NotSentAgain
<1>5. Orphaned'
  BY <1>0 DEF HttpTypes, HttpRest, Orphaned, ParsersAgree
<1>6. BodiesEnd'
  BY <1>0 DEF HttpTypes, HttpRest, BodiesEnd, Http!Exists
<1>7. IdleIsKept'
  BY <1>0 DEF HttpTypes, HttpRest, IdleIsKept
<1> QED BY <1>1, <1>2, <1>3, <1>4, <1>5, <1>6, <1>7 DEF HttpRest

LEMMA SubSeqFacts ==
    ASSUME NEW A, NEW s \in Seq(A), NEW u \in 1..Len(s)
    PROVE  /\ SubSeq(s, u + 1, Len(s)) \in Seq(A) /\ Len(SubSeq(s, u + 1, Len(s))) = Len(s) - u
           /\ DOMAIN SubSeq(s, u + 1, Len(s)) = 1..(Len(s) - u)
           /\ \A i \in 1..(Len(s) - u) : SubSeq(s, u + 1, Len(s))[i] = s[u + i]
<1>1. Len(s) \in Nat /\ u \in Nat /\ u <= Len(s)
  OBVIOUS
<1>2. SubSeq(s, u + 1, Len(s)) \in Seq(A) /\ Len(SubSeq(s, u + 1, Len(s))) = Len(s) - u
  BY <1>1
<1>3. \A i \in 1..(Len(s) - u) : SubSeq(s, u + 1, Len(s))[i] = s[u + i]
  BY <1>1
<1> QED BY <1>1, <1>2, <1>3

\* What is left of a list of different elements after the first u of them.
LEMMA DropFacts ==
    ASSUME NEW A, NEW s \in Seq(A), IsInjective(s), NEW u \in 1..Len(s)
    PROVE  /\ SubSeq(s, u + 1, Len(s)) \in Seq(A) /\ IsInjective(SubSeq(s, u + 1, Len(s)))
           /\ ToSet(SubSeq(s, u + 1, Len(s))) = ToSet(s) \ {s[i] : i \in 1..u}
           /\ Len(SubSeq(s, u + 1, Len(s))) = Len(s) - u
<1>1. Len(s) \in Nat /\ u \in Nat /\ u <= Len(s) /\ DOMAIN s = 1..Len(s)
  OBVIOUS
<1>2. PICK t : t = SubSeq(s, u + 1, Len(s))
  OBVIOUS
<1>3. /\ t \in Seq(A) /\ Len(t) = Len(s) - u /\ DOMAIN t = 1..(Len(s) - u)
      /\ \A i \in 1..(Len(s) - u) : t[i] = s[u + i]
  BY <1>2, SubSeqFacts
<1>4. \A i, j \in 1..Len(s) : s[i] = s[j] => i = j
  BY <1>1 DEF IsInjective
<1>5. \A i \in 1..(Len(s) - u) : u + i \in 1..Len(s) /\ u + i \notin 1..u
  BY <1>1
<1>6. IsInjective(t)
  BY <1>1, <1>3, <1>4, <1>5 DEF IsInjective
<1>7. ToSet(t) \subseteq ToSet(s) \ {s[i] : i \in 1..u}
  <2> SUFFICES ASSUME NEW i \in 1..(Len(s) - u) PROVE s[u + i] \in ToSet(s) /\ \A j \in 1..u : s[u + i] # s[j]
    BY <1>3 DEF ToSet
  <2>1. s[u + i] \in ToSet(s)
    BY <1>1, <1>5 DEF ToSet
  <2>2. \A j \in 1..u : j \in 1..Len(s)
    BY <1>1
  <2> QED BY <1>4, <1>5, <2>1, <2>2
<1>8. ToSet(s) \ {s[i] : i \in 1..u} \subseteq ToSet(t)
  <2> SUFFICES ASSUME NEW k \in 1..Len(s), k \notin 1..u PROVE \E i \in 1..(Len(s) - u) : t[i] = s[k]
    BY <1>1, <1>3 DEF ToSet
  <2>1. k - u \in 1..(Len(s) - u) /\ u + (k - u) = k
    BY <1>1
  <2> QED BY <1>3, <2>1
<1> QED BY <1>2, <1>3, <1>6, <1>7, <1>8

LEMMA HttpGetConnection ==
    ASSUME HttpInvariant, NEW r \in Requests, Http!GetConnection(r) PROVE HttpInvariant'
<1> USE HttpAssumption DEF Http!HTTPClientAssumption, HttpInvariant
<1>1. CASE Http!Usable = 0
  <2>1. /\ cached' = <<>> /\ timers' = {} /\ fate' = [fate EXCEPT ![r] = "connecting"]
        /\ UNCHANGED <<method, on, wrapped, sends, got, body, hstate, parser, writing, chained,
                       paused, closing>>
    BY <1>1 DEF Http!GetConnection, Http!httpConns
  <2>2. fate[r] = "new" /\ \A c \in timers : hstate[c] # "QUIESCENT"
    BY <1>1, UsableFacts DEF Http!GetConnection
  <2>3. HttpTypes'
    BY <2>1 DEF HttpTypes, HttpFates
  <2>4. NotSentAgain' /\ StatesAgree' /\ ParsersAgree'
    BY <2>1, <2>2 DEF HttpTypes, HttpRest, NotSentAgain, StatesAgree, ParsersAgree
  <2>5. Orphaned' /\ BodiesEnd' /\ IdleIsKept'
    BY <2>1, <2>2 DEF HttpTypes, HttpRest, Orphaned, BodiesEnd, Http!Exists, IdleIsKept
  <2>6. PoolIsList'
    BY <2>1 DEF PoolIsList, ToSet, IsInjective
  <2> QED BY <2>3, <2>4, <2>5, <2>6 DEF HttpRest
<1>2. CASE Http!Usable # 0
  <2>1. PICK u : u = Http!Usable
    OBVIOUS
  <2>2. PICK c : c = cached[u]
    OBVIOUS
  <2>3. /\ fate[r] = "new" /\ cached' = SubSeq(cached, u + 1, Len(cached))
        /\ timers' = timers \ {cached[i] : i \in 1..u}
        /\ Http!Request(c, r, TRUE)
    BY <1>2, <2>1, <2>2 DEF Http!GetConnection
  <2>4. /\ u \in 1..Len(cached) /\ hstate[c] = "QUIESCENT"
        /\ \A i \in 1..(u - 1) : hstate[cached[i]] # "QUIESCENT"
    BY <1>2, <2>1, <2>2, UsableFacts
  <2>5. c \in Conns
    BY <2>2, <2>4 DEF PoolIsList
  <2>6. \A d \in timers : hstate[d] = "QUIESCENT" /\ d # c => d \in timers'
    <3> SUFFICES ASSUME NEW i \in 1..u, hstate[cached[i]] = "QUIESCENT" PROVE cached[i] = c
      BY <2>3
    <3>1. i \notin 1..(u - 1)
      BY <2>4
    <3> QED BY <2>2, <3>1, <2>4
  <2>7. timers' \subseteq timers /\ c \notin timers'
    BY <2>2, <2>3, <2>4
  <2>8. HttpTypes' /\ HttpRest'
    BY <2>3, <2>4, <2>5, <2>6, <2>7, HttpRequest
  <2>9. PoolIsList'
    <3>1. cached' \in Seq(Conns) /\ IsInjective(cached') /\ Len(cached') = Len(cached) - u
          /\ ToSet(cached') = ToSet(cached) \ {cached[i] : i \in 1..u}
      <4>1. cached \in Seq(Conns) /\ IsInjective(cached)
        BY DEF PoolIsList
      <4>2. cached' = SubSeq(cached, u + 1, Len(cached)) /\ u \in 1..Len(cached)
        BY <2>3, <2>4
      <4> QED BY ONLY <4>1, <4>2, DropFacts
    <3>2. Len(cached) - u <= MaxPersistent
      BY <2>4 DEF PoolIsList
    <3> QED BY <2>3, <3>1, <3>2 DEF PoolIsList
  <2> QED BY <2>8, <2>9
<1> QED BY <1>1, <1>2

LEMMA HttpConnects ==
    ASSUME HttpInvariant, NEW r \in Requests, NEW c \in Conns, Http!Connects(r, c)
    PROVE  HttpInvariant'
<1>1. HttpTypes' /\ HttpRest'
  BY HttpRequest DEF HttpInvariant, Http!Connects, HttpRest, IdleIsKept
<1>2. PoolIsList'
  BY DEF HttpInvariant, Http!Connects, PoolIsList
<1> QED BY <1>1, <1>2 DEF HttpInvariant

\* Steps that leave the pool alone.
LEMMA HttpConnectFails ==
    ASSUME HttpTypes, HttpRest, NEW r \in Requests, Http!ConnectFails(r)
    PROVE  HttpTypes' /\ HttpRest'
<1> USE HttpAssumption DEF Http!HTTPClientAssumption, Http!ConnectFails, Http!httpConns
<1>1. HttpTypes'
  BY DEF HttpTypes, HttpFates
<1>2. NotSentAgain' /\ StatesAgree' /\ ParsersAgree'
  BY DEF HttpTypes, HttpRest, NotSentAgain, StatesAgree, ParsersAgree
<1>3. Orphaned' /\ BodiesEnd' /\ IdleIsKept'
  BY DEF HttpTypes, HttpRest, Orphaned, BodiesEnd, Http!Exists, IdleIsKept
<1> QED BY <1>1, <1>2, <1>3 DEF HttpRest

LEMMA HttpWritten ==
    ASSUME HttpTypes, HttpRest, NEW c \in Conns, Http!Written(c)
    PROVE  HttpTypes' /\ HttpRest'
<1> USE HttpAssumption DEF Http!HTTPClientAssumption
<1>0. /\ writing' = [writing EXCEPT ![c] = None]
      /\ UNCHANGED <<method, on, wrapped, sends, got, body, parser, paused, closing, timers>>
  BY DEF Http!Written
<1>1. PICK there \in BOOLEAN : there = (parser[c] # None) /\ (there <=> parser[c] # None)
  OBVIOUS
<1>2. IF hstate[c] = "TRANSMITTING"
      THEN /\ hstate' = [hstate EXCEPT ![c] = "WAITING"]
           /\ chained' = [chained EXCEPT ![c] = there]
           /\ fate' = IF there /\ got[parser[c]] \in {"body", "tail"}
                      THEN [fate EXCEPT ![parser[c]] = "response"] ELSE fate
      ELSE UNCHANGED <<hstate, chained, fate>>
  BY ONLY <1>1, Http!Written(c), Zenon DEF Http!Written
<1>3. HttpTypes'
  <2>1. hstate' \in [Conns -> HttpStates] /\ chained' \in [Conns -> BOOLEAN]
    BY <1>1, <1>2 DEF HttpTypes, HttpStates
  <2>2. fate' \in [Requests -> HttpFates]
    BY <1>1, <1>2 DEF HttpTypes, HttpFates
  <2>3. writing' \in [Conns -> Requests \cup {None}]
    BY <1>0 DEF HttpTypes
  <2> QED BY <1>0, <2>1, <2>2, <2>3 DEF HttpTypes
<1>4. NotSentAgain'
  BY <1>0, <1>1, <1>2 DEF HttpTypes, HttpRest, NotSentAgain
<1>5. StatesAgree'
  BY <1>0, <1>1, <1>2 DEF HttpTypes, HttpRest, StatesAgree
<1>6. ParsersAgree'
  BY <1>0, <1>1, <1>2 DEF HttpTypes, HttpRest, NotSentAgain, StatesAgree, ParsersAgree
<1>7. Orphaned'
  BY <1>0, <1>1, <1>2 DEF HttpTypes, HttpRest, ParsersAgree, Orphaned
<1>8. BodiesEnd'
  BY <1>0, <1>1, <1>2 DEF HttpTypes, HttpRest, ParsersAgree, BodiesEnd, Http!Exists
<1>9. IdleIsKept'
  BY <1>0, <1>1, <1>2 DEF HttpTypes, HttpRest, IdleIsKept
<1> QED BY <1>3, <1>4, <1>5, <1>6, <1>7, <1>8, <1>9 DEF HttpRest

LEMMA HttpWriteFails ==
    ASSUME HttpTypes, HttpRest, NEW c \in Conns, Http!WriteFails(c)
    PROVE  HttpTypes' /\ HttpRest'
<1> USE HttpAssumption DEF Http!HTTPClientAssumption, Http!WriteFails
<1>1. HttpTypes'
  <2>1. hstate' \in [Conns -> HttpStates] /\ closing' \in [Conns -> BOOLEAN]
    BY DEF HttpTypes, HttpStates
  <2>2. fate' \in [Requests -> HttpFates]
    BY DEF HttpTypes, HttpFates
  <2>3. writing' \in [Conns -> Requests \cup {None}]
    BY DEF HttpTypes
  <2> QED BY <2>1, <2>2, <2>3 DEF HttpTypes
<1>2. NotSentAgain' /\ StatesAgree'
  BY DEF HttpTypes, HttpRest, NotSentAgain, StatesAgree
<1>3. ParsersAgree'
  BY DEF HttpTypes, HttpRest, NotSentAgain, StatesAgree, ParsersAgree
<1>4. Orphaned'
  BY DEF HttpTypes, HttpRest, ParsersAgree, Orphaned
<1>5. BodiesEnd'
  BY DEF HttpTypes, HttpRest, ParsersAgree, BodiesEnd, Http!Exists
<1>6. IdleIsKept'
  BY DEF HttpTypes, HttpRest, IdleIsKept
<1> QED BY <1>1, <1>2, <1>3, <1>4, <1>5, <1>6 DEF HttpRest

LEMMA HttpGarbage ==
    ASSUME HttpTypes, HttpRest, NEW c \in Conns, Http!Garbage(c)
    PROVE  HttpTypes' /\ HttpRest'
<1> USE HttpAssumption
    DEF Http!HTTPClientAssumption, Http!Garbage, Http!DisconnectParser, Http!AfterResponse,
        Http!Reads, Http!Exists
<1>0. \A s \in {"none", "INITIAL", "CONNECTED", "DEFERRED_CLOSE", "FINISHED"} :
         Http!BodyFinished(s) \in {"none", "DEFERRED_CLOSE", "FINISHED"}
  BY DEF Http!BodyFinished
<1>1. HttpTypes'
  BY <1>0 DEF HttpTypes, HttpFates, HttpStates
<1>2. NotSentAgain'
  BY DEF HttpTypes, HttpRest, NotSentAgain
<1>a. StatesAgree'
  BY DEF HttpTypes, HttpRest, StatesAgree
<1>3. ParsersAgree'
  BY DEF HttpTypes, HttpRest, NotSentAgain, StatesAgree, ParsersAgree
<1>4. Orphaned'
  BY DEF HttpTypes, HttpRest, ParsersAgree, StatesAgree, Orphaned
<1>5. BodiesEnd'
  BY <1>0 DEF HttpTypes, HttpRest, ParsersAgree, BodiesEnd, Http!CanEndBody
<1>6. IdleIsKept'
  BY DEF HttpTypes, HttpRest, IdleIsKept
<1> QED BY <1>1, <1>2, <1>a, <1>3, <1>4, <1>5, <1>6 DEF HttpRest

LEMMA HttpSomeData ==
    ASSUME HttpTypes, HttpRest, NEW c \in Conns, Http!SomeData(c)
    PROVE  HttpTypes' /\ HttpRest'
<1> USE HttpAssumption
    DEF Http!HTTPClientAssumption, Http!SomeData, Http!Reads, Http!Exists, Http!httpConns
<1>1. HttpTypes'
  BY DEF HttpTypes
<1>2. NotSentAgain' /\ StatesAgree'
  BY DEF HttpTypes, HttpRest, NotSentAgain, StatesAgree
<1>3. ParsersAgree'
  BY DEF HttpTypes, HttpRest, ParsersAgree
<1>4. Orphaned' /\ IdleIsKept'
  BY DEF HttpTypes, HttpRest, Orphaned, IdleIsKept
<1>5. BodiesEnd'
  BY DEF HttpTypes, HttpRest, ParsersAgree, BodiesEnd
<1> QED BY <1>1, <1>2, <1>3, <1>4, <1>5 DEF HttpRest

LEMMA HttpHeaders ==
    ASSUME HttpTypes, HttpRest, NEW c \in Conns, NEW length \in {"body", "tail"},
           Http!Headers(c, length)
    PROVE  HttpTypes' /\ HttpRest'
<1> USE HttpAssumption DEF Http!HTTPClientAssumption, Http!Headers, Http!Reads, Http!Exists
<1>1. HttpTypes'
  BY DEF HttpTypes, HttpFates
<1>2. NotSentAgain' /\ StatesAgree'
  BY DEF HttpTypes, HttpRest, NotSentAgain, StatesAgree
<1>3. ParsersAgree'
  BY DEF HttpTypes, HttpRest, ParsersAgree, StatesAgree
<1>4. Orphaned'
  BY DEF HttpTypes, HttpRest, Orphaned
<1>5. BodiesEnd'
  BY DEF HttpTypes, HttpRest, ParsersAgree, BodiesEnd
<1>6. IdleIsKept'
  BY DEF HttpTypes, HttpRest, IdleIsKept
<1> QED BY <1>1, <1>2, <1>3, <1>4, <1>5, <1>6 DEF HttpRest

\* _putConnection, for a connection that is not in the list.
LEMMA HttpPut ==
    ASSUME HttpTypes, PoolIsList, NEW c \in Conns, c \notin timers, Http!PutConnection(c)
    PROVE  /\ PoolIsList' /\ timers' \subseteq timers \cup {c} /\ c \in timers'
           /\ closing' \in [Conns -> BOOLEAN]
           /\ \A d \in Conns : closing[d] => closing'[d]
           /\ \A d \in timers \ timers' : closing'[d]
<1> USE HttpAssumption DEF Http!HTTPClientAssumption
<1>1. Len(cached) \in Nat /\ DOMAIN cached = 1..Len(cached) /\ \A i \in 1..Len(cached) : cached[i] \in Conns
  BY DEF PoolIsList
<1>2. CASE Len(cached) = MaxPersistent
  <2>1. PICK rest : rest = SubSeq(cached, 1 + 1, Len(cached))
    OBVIOUS
  <2>2. 1 \in 1..Len(cached) /\ cached # <<>>
    BY <1>1, <1>2
  <2>3. /\ rest \in Seq(Conns) /\ IsInjective(rest) /\ Len(rest) = Len(cached) - 1
        /\ ToSet(rest) = ToSet(cached) \ {cached[i] : i \in 1..1}
    BY <2>1, <2>2, DropFacts DEF PoolIsList
  <2>4. rest = Tail(cached) /\ Head(cached) = cached[1]
    BY <2>1, <2>2 DEF PoolIsList
  <2>5. /\ cached' = Append(rest, c)
        /\ timers' = (timers \ {cached[1]}) \cup {c}
        /\ closing' = [d \in Conns |-> closing[d] \/ d \in {cached[1]}]
    BY <1>2, <2>4 DEF Http!PutConnection
  <2>6. ToSet(rest) = timers \ {cached[1]}
    <3>1. {cached[i] : i \in 1..1} = {cached[1]}
      OBVIOUS
    <3> QED BY <2>3, <3>1 DEF PoolIsList
  <2>7. PoolIsList'
    <3>1. /\ Append(rest, c) \in Seq(Conns) /\ IsInjective(Append(rest, c))
          /\ ToSet(Append(rest, c)) = ToSet(rest) \cup {c}
      BY <2>3, <2>6, AppendSet
    <3>2. Len(Append(rest, c)) = Len(rest) + 1
      BY <2>3
    <3>3. Len(rest) + 1 <= MaxPersistent
      BY <1>1, <1>2, <2>3
    <3> QED BY <2>5, <2>6, <3>1, <3>2, <3>3 DEF PoolIsList
  <2>8. cached[1] \in Conns
    BY <1>1, <2>2
  <2> QED BY <2>5, <2>7, <2>8 DEF HttpTypes
<1>3. CASE Len(cached) # MaxPersistent
  <2>1. /\ cached' = Append(cached, c)
        /\ timers' = timers \cup {c}
        /\ closing' = [d \in Conns |-> closing[d] \/ d \in {}]
    BY <1>3 DEF Http!PutConnection
  <2>2. PoolIsList'
    <3>1. /\ Append(cached, c) \in Seq(Conns) /\ IsInjective(Append(cached, c))
          /\ ToSet(Append(cached, c)) = ToSet(cached) \cup {c}
      BY AppendSet DEF PoolIsList
    <3>2. Len(Append(cached, c)) = Len(cached) + 1
      BY DEF PoolIsList
    <3>3. Len(cached) + 1 <= MaxPersistent
      <4>1. PICK n \in Nat : n = Len(cached) /\ n <= MaxPersistent /\ n # MaxPersistent
        BY <1>1, <1>3 DEF PoolIsList
      <4>2. n + 1 <= MaxPersistent
        BY ONLY <4>1, MaxPersistent \in Nat
      <4> QED BY <4>1, <4>2
    <3> QED BY <2>1, <3>1, <3>2, <3>3 DEF PoolIsList
  <2> QED BY <2>1, <2>2 DEF HttpTypes
<1> QED BY <1>2, <1>3

LEMMA HttpFinish ==
    ASSUME HttpInvariant, NEW c \in Conns, NEW keep \in BOOLEAN, Http!Finish(c, keep)
    PROVE  HttpInvariant'
<1> USE HttpAssumption DEF Http!HTTPClientAssumption, Http!Exists
<1>1. PICK r : r = parser[c]
  OBVIOUS
<1>2. /\ r \in Requests /\ Http!Exists(c) /\ ~closing[c] /\ got[r] # "tail"
      /\ got' = [got EXCEPT ![r] = "done"] /\ fate' = [fate EXCEPT ![r] = "response"]
      /\ parser' = [parser EXCEPT ![c] = None]
      /\ UNCHANGED <<method, on, wrapped, sends, writing, chained>>
  BY <1>1 DEF Http!Finish, HttpInvariant, HttpTypes
<1>3. PICK end : /\ body' = [body EXCEPT ![r] = end]
                 /\ end \in {"DEFERRED_CLOSE", "FINISHED"}
  <2>1. \A s \in {"INITIAL", "CONNECTED", "DEFERRED_CLOSE", "FINISHED"} :
           Http!BodyFinished(s) \in {"DEFERRED_CLOSE", "FINISHED"}
    BY DEF Http!BodyFinished
  <2> QED BY <1>1, <1>2, <2>1 DEF Http!Finish, HttpInvariant, HttpTypes
<1>4. /\ timers' \subseteq timers \cup {c}
      /\ closing' \in [Conns -> BOOLEAN]
      /\ \A d \in Conns : closing[d] => closing'[d]
      /\ \A d \in timers \ timers' : closing'[d]
      /\ PoolIsList'
      /\ \/ /\ hstate' = [hstate EXCEPT ![c] = "QUIESCENT"]
            /\ paused' = [paused EXCEPT ![c] = FALSE] /\ c \in timers'
         \/ /\ hstate' = [hstate EXCEPT ![c] = Http!AfterResponse(@)] /\ closing'[c]
            /\ UNCHANGED <<paused, timers>>
  <2>0. c \notin timers
    BY <1>1, <1>2 DEF HttpInvariant, HttpRest, IdleIsKept
  <2>1. CASE hstate[c] = "WAITING" /\ keep
    BY <2>0, <2>1, HttpPut DEF Http!Finish, HttpInvariant
  <2>2. CASE ~(hstate[c] = "WAITING" /\ keep)
    <3>1. /\ hstate' = [hstate EXCEPT ![c] = Http!AfterResponse(@)]
          /\ closing' = [closing EXCEPT ![c] = TRUE]
          /\ UNCHANGED <<paused, cached, timers>>
      BY <2>2 DEF Http!Finish
    <3>2. closing \in [Conns -> BOOLEAN] /\ PoolIsList
      BY DEF HttpInvariant, HttpTypes
    <3>3. PoolIsList'
      BY <3>1, <3>2 DEF PoolIsList
    <3> QED BY ONLY <3>1, <3>2, <3>3, c \in Conns
  <2> QED BY <2>1, <2>2
<1> USE DEF Http!AfterResponse
<1>5. HttpTypes'
  <2>1. /\ got' \in [Requests -> {"nothing", "part", "body", "tail", "done"}]
        /\ fate' \in [Requests -> HttpFates]
    BY <1>2 DEF HttpInvariant, HttpTypes, HttpFates
  <2>2. body' \in [Requests -> {"none", "INITIAL", "CONNECTED", "DEFERRED_CLOSE", "FINISHED"}]
    BY <1>2, <1>3 DEF HttpInvariant, HttpTypes
  <2>a. \A s \in HttpStates : Http!AfterResponse(s) \in HttpStates /\ "QUIESCENT" \in HttpStates
    BY DEF HttpStates
  <2>b. hstate \in [Conns -> HttpStates] /\ paused \in [Conns -> BOOLEAN]
    BY DEF HttpInvariant, HttpTypes
  <2> HIDE DEF Http!AfterResponse
  <2>3. hstate' \in [Conns -> HttpStates] /\ paused' \in [Conns -> BOOLEAN]
    BY ONLY <1>4, <2>a, <2>b
  <2>4. parser' \in [Conns -> Requests \cup {None}]
    BY <1>2 DEF HttpInvariant, HttpTypes
  <2> QED BY <1>2, <1>4, <2>1, <2>2, <2>3, <2>4 DEF HttpInvariant, HttpTypes
<1> USE DEF HttpInvariant, HttpTypes, HttpRest
<1>6. NotSentAgain'
  BY <1>1, <1>2 DEF NotSentAgain
<1>7. StatesAgree'
  BY <1>2, <1>4 DEF StatesAgree
<1>8. ParsersAgree'
  BY <1>1, <1>2, <1>4 DEF ParsersAgree
<1>9. Orphaned'
  BY <1>1, <1>2, <1>4 DEF Orphaned, ParsersAgree
<1>10. BodiesEnd'
  BY <1>1, <1>2, <1>3, <1>4 DEF BodiesEnd, ParsersAgree
<1>11. IdleIsKept'
  BY <1>1, <1>2, <1>4 DEF IdleIsKept
<1> QED BY <1>4, <1>5, <1>6, <1>7, <1>8, <1>9, <1>10, <1>11

LEMMA HttpDeliverBody ==
    ASSUME HttpTypes, HttpRest, NEW r \in Requests, Http!DeliverBody(r)
    PROVE  HttpTypes' /\ HttpRest'
<1> USE HttpAssumption DEF Http!HTTPClientAssumption, Http!DeliverBody, Http!SetPaused, Http!Proxied
<1>1. HttpTypes'
  BY DEF HttpTypes
<1>2. NotSentAgain' /\ StatesAgree' /\ ParsersAgree'
  BY DEF HttpTypes, HttpRest, NotSentAgain, StatesAgree, ParsersAgree
<1>3. Orphaned' /\ BodiesEnd'
  BY DEF HttpTypes, HttpRest, Orphaned, BodiesEnd, Http!Exists
<1>4. IdleIsKept'
  BY DEF HttpTypes, HttpRest, IdleIsKept
<1> QED BY <1>1, <1>2, <1>3, <1>4 DEF HttpRest

LEMMA HttpPauseBody ==
    ASSUME HttpTypes, HttpRest, NEW r \in Requests, NEW yes \in BOOLEAN, Http!PauseBody(r, yes)
    PROVE  HttpTypes' /\ HttpRest'
<1> USE HttpAssumption
    DEF Http!HTTPClientAssumption, Http!PauseBody, Http!SetPaused, Http!Proxied, Http!httpRequests
<1>1. HttpTypes'
  BY DEF HttpTypes
<1>2. NotSentAgain' /\ StatesAgree' /\ ParsersAgree'
  BY DEF HttpRest, NotSentAgain, StatesAgree, ParsersAgree
<1>3. Orphaned' /\ BodiesEnd'
  BY DEF HttpRest, Orphaned, BodiesEnd, Http!Exists
<1>4. IdleIsKept'
  BY DEF HttpTypes, HttpRest, IdleIsKept
<1> QED BY <1>1, <1>2, <1>3, <1>4 DEF HttpRest

LEMMA HttpCancelRequest ==
    ASSUME HttpTypes, HttpRest, NEW r \in Requests, Http!CancelRequest(r)
    PROVE  HttpTypes' /\ HttpRest'
<1> USE HttpAssumption DEF Http!HTTPClientAssumption
<1>1. PICK c \in Conns : c = on[r]
  BY DEF HttpRest, Orphaned, Http!CancelRequest
<1>2. parser[c] \in {r, None}
  BY <1>1 DEF HttpRest, Orphaned, Http!CancelRequest
<1>3. /\ fate[r] = "waiting" /\ fate' = [fate EXCEPT ![r] = "failed"]
      /\ closing' = [closing EXCEPT ![c] = TRUE]
      /\ \/ /\ hstate[c] = "TRANSMITTING"
            /\ hstate' = [hstate EXCEPT ![c] = "GENERATION_FAILED"]
            /\ writing' = [writing EXCEPT ![c] = None]
            /\ UNCHANGED parser
         \/ /\ hstate[c] # "TRANSMITTING"
            /\ parser' = [parser EXCEPT ![c] = None]
            /\ UNCHANGED <<hstate, writing>>
      /\ UNCHANGED <<method, on, wrapped, sends, got, body, chained, paused, cached, timers>>
  BY <1>1 DEF Http!CancelRequest
<1>4. HttpTypes'
  BY <1>3 DEF HttpTypes, HttpFates, HttpStates
<1>5. NotSentAgain' /\ StatesAgree'
  BY <1>3 DEF HttpTypes, HttpRest, NotSentAgain, StatesAgree
<1>6. ParsersAgree'
  BY <1>1, <1>2, <1>3 DEF HttpTypes, HttpRest, StatesAgree, ParsersAgree
<1>7. Orphaned'
  BY <1>1, <1>2, <1>3 DEF HttpTypes, HttpRest, Orphaned
<1>8. BodiesEnd'
  BY <1>1, <1>2, <1>3 DEF HttpTypes, HttpRest, BodiesEnd, ParsersAgree, Http!Exists
<1>9. IdleIsKept'
  BY <1>1, <1>3 DEF HttpTypes, HttpRest, IdleIsKept
<1> QED BY <1>4, <1>5, <1>6, <1>7, <1>8, <1>9 DEF HttpRest

\* Connections that are aborted, or only closed.
LEMMA HttpClosing ==
    ASSUME HttpTypes, HttpRest, NEW S, S \subseteq Conns, NEW T, T \subseteq S,
           \A c \in T : hstate[c] \notin {"unmade", "CONNECTION_LOST"},
           hstate' = [c \in Conns |-> IF c \in T THEN "ABORTING" ELSE hstate[c]],
           closing' = [c \in Conns |-> closing[c] \/ c \in S],
           timers' \subseteq timers,
           \A c \in timers \ timers' : c \in S \/ hstate[c] # "QUIESCENT",
           UNCHANGED <<method, fate, on, wrapped, sends, got, body, parser, writing, chained, paused>>
    PROVE  HttpTypes' /\ HttpRest'
<1> USE HttpAssumption DEF Http!HTTPClientAssumption
<1>1. HttpTypes'
  BY DEF HttpTypes, HttpStates
<1>2. NotSentAgain' /\ StatesAgree'
  BY DEF HttpTypes, HttpRest, NotSentAgain, StatesAgree
<1>3. ParsersAgree'
  BY DEF HttpTypes, HttpRest, ParsersAgree
<1>4. Orphaned'
  BY DEF HttpTypes, HttpRest, Orphaned
<1>5. BodiesEnd'
  BY DEF HttpTypes, HttpRest, BodiesEnd, Http!Exists
<1>6. IdleIsKept'
  BY DEF HttpTypes, HttpRest, IdleIsKept
<1> QED BY <1>1, <1>2, <1>3, <1>4, <1>5, <1>6 DEF HttpRest

LEMMA HttpAbort ==
    ASSUME HttpTypes, HttpRest, NEW c \in Conns, Http!Abort(c)
    PROVE  HttpTypes' /\ HttpRest'
<1>1. /\ hstate' = [d \in Conns |-> IF d \in {c} THEN "ABORTING" ELSE hstate[d]]
      /\ closing' = [d \in Conns |-> closing[d] \/ d \in {c}]
  BY DEF Http!Abort, HttpTypes
<1>2. hstate[c] \notin {"unmade", "CONNECTION_LOST"}
  BY DEF Http!Abort, Http!Exists
<1>3. UNCHANGED <<method, fate, on, wrapped, sends, got, body, parser, writing, chained, paused, timers>>
  BY DEF Http!Abort, Http!httpRequests
<1> QED BY <1>1, <1>2, <1>3, HttpClosing

LEMMA HttpRange == ASSUME NEW s PROVE Http!Range(s) = ToSet(s)
BY DEF Http!Range, ToSet

LEMMA HttpCloseCached ==
    ASSUME HttpInvariant, Http!CloseCachedConnections PROVE HttpInvariant'
<1>1. PICK T : T = {c \in timers : hstate[c] # "CONNECTION_LOST"}
  OBVIOUS
<1>2. Http!Range(cached) = timers
  BY HttpRange DEF HttpInvariant, PoolIsList
<1>3. /\ hstate' = [d \in Conns |-> IF d \in T THEN "ABORTING" ELSE hstate[d]]
      /\ closing' = [d \in Conns |-> closing[d] \/ d \in T]
  BY <1>1, <1>2 DEF Http!CloseCachedConnections
<1>4. /\ cached' = <<>> /\ timers' = {}
      /\ UNCHANGED <<method, fate, on, wrapped, sends, got, body, parser, writing, chained, paused>>
  BY DEF Http!CloseCachedConnections, Http!httpRequests
<1>5. T \subseteq Conns /\ \A c \in T : hstate[c] \notin {"unmade", "CONNECTION_LOST"}
  BY <1>1 DEF HttpInvariant, HttpRest, IdleIsKept
<1>6. \A c \in timers \ timers' : c \in T \/ hstate[c] # "QUIESCENT"
  BY <1>1
<1>7. HttpTypes' /\ HttpRest'
  BY <1>3, <1>4, <1>5, <1>6, HttpClosing DEF HttpInvariant
<1>8. PoolIsList'
  BY <1>4, HttpAssumption DEF PoolIsList, ToSet, IsInjective, Http!HTTPClientAssumption
<1> QED BY <1>7, <1>8 DEF HttpInvariant

LEMMA HttpRemove ==
    ASSUME NEW A, NEW s \in Seq(A), NEW e
    PROVE  Http!RemoveFirst(s, e) = RemoveFirst(s, e)
<1>1. Http!RemoveAt(s, Http!SelectInSeq(s, LAMBDA v : v = e)) = RemoveAt(s, SelectInSeq(s, LAMBDA v : v = e))
  BY DEF Http!RemoveAt, RemoveAt, Http!SelectInSeq, SelectInSeq, Http!Min, Min
<1> QED BY <1>1 DEF Http!RemoveFirst, RemoveFirst

LEMMA HttpRemoveConnection ==
    ASSUME HttpInvariant, NEW c \in Conns, Http!RemoveConnection(c) PROVE HttpInvariant'
<1>1. /\ hstate' = [d \in Conns |-> IF d \in {} THEN "ABORTING" ELSE hstate[d]]
      /\ closing' = [d \in Conns |-> closing[d] \/ d \in {c}]
  BY DEF Http!RemoveConnection, HttpInvariant, HttpTypes
<1>2. /\ c \in timers /\ timers' = timers \ {c} /\ cached' = Http!RemoveFirst(cached, c)
      /\ UNCHANGED <<method, fate, on, wrapped, sends, got, body, parser, writing, chained, paused>>
  BY DEF Http!RemoveConnection, Http!httpRequests
<1>3. HttpTypes' /\ HttpRest'
  <2>1. PICK S, T : S = {c} /\ T = {}
    OBVIOUS
  <2>2. S \subseteq Conns /\ T \subseteq S /\ \A d \in T : hstate[d] \notin {"unmade", "CONNECTION_LOST"}
    BY <2>1
  <2>3. timers' \subseteq timers /\ \A d \in timers \ timers' : d \in S \/ hstate[d] # "QUIESCENT"
    BY <1>2, <2>1
  <2>4. /\ hstate' = [d \in Conns |-> IF d \in T THEN "ABORTING" ELSE hstate[d]]
        /\ closing' = [d \in Conns |-> closing[d] \/ d \in S]
    BY <1>1, <2>1
  <2> QED BY <1>2, <2>2, <2>3, <2>4, HttpClosing DEF HttpInvariant
<1>4. cached' = RemoveFirst(cached, c)
  BY <1>2, HttpRemove DEF HttpInvariant, PoolIsList
<1>5. cached' \in Seq(Conns) /\ IsInjective(cached') /\ ToSet(cached') = timers'
  BY <1>2, <1>4, RemoveFacts DEF HttpInvariant, PoolIsList
<1>6. Len(cached') <= MaxPersistent
  <2>1. PICK k \in 1..Len(cached) : cached[k] = c
    BY <1>2 DEF HttpInvariant, PoolIsList, ToSet
  <2>2. cached' = RemoveAt(cached, k)
    BY <1>4, <2>1, RemoveIndex DEF HttpInvariant, PoolIsList
  <2>3. Len(cached') = Len(cached) - 1
    BY <2>2, RemoveAtFacts DEF HttpInvariant, PoolIsList
  <2> QED BY <2>1, <2>3, HttpAssumption DEF HttpInvariant, PoolIsList, Http!HTTPClientAssumption
<1> QED BY <1>3, <1>5, <1>6 DEF HttpInvariant, PoolIsList

LEMMA HttpConnectionLost ==
    ASSUME HttpTypes, HttpRest, NEW c \in Conns, Http!ConnectionLost(c)
    PROVE  HttpTypes' /\ HttpRest'
<1> USE HttpAssumption DEF Http!HTTPClientAssumption
<1>0. /\ hstate[c] \notin {"unmade", "CONNECTION_LOST"}
      /\ hstate' = [hstate EXCEPT ![c] = "CONNECTION_LOST"]
      /\ writing' = [writing EXCEPT ![c] = None]
      /\ UNCHANGED <<method, on, wrapped, sends, got, chained, paused, closing, cached, timers>>
  BY DEF Http!ConnectionLost, Http!Exists
<1> USE DEF HttpTypes, HttpRest
<1>1. CASE hstate[c] \in {"WAITING", "ABORTING"} /\ parser[c] # None
  <2>1. PICK r \in Requests : r = parser[c]
    BY <1>1
  <2>2. PICK end, last :
           /\ parser' = [parser EXCEPT ![c] = None]
           /\ body' = [body EXCEPT ![r] = end]
           /\ end \in {"none", "INITIAL", "CONNECTED", "DEFERRED_CLOSE", "FINISHED"}
           /\ end \in {"INITIAL", "CONNECTED"} => got[r] = "tail" /\ hstate[c] = "ABORTING"
           /\ \/ /\ got[r] \in {"nothing", "part"} /\ chained[c]
                 /\ fate' = [fate EXCEPT ![r] = last]
                 /\ last \in {"connecting", "failed"}
                 /\ last = "connecting" => wrapped[r] /\ got[r] = "nothing"
              \/ /\ ~(got[r] \in {"nothing", "part"} /\ chained[c])
                 /\ UNCHANGED fate
    <3>1. \A s \in {"none", "INITIAL", "CONNECTED", "DEFERRED_CLOSE", "FINISHED"} :
             Http!BodyFinished(s) \in {"none", "DEFERRED_CLOSE", "FINISHED"}
      BY DEF Http!BodyFinished
    <3>2. Http!DisconnectParser(c, TRUE)
      BY <1>1 DEF Http!ConnectionLost
    <3>3. /\ body' = [body EXCEPT ![r] = IF Http!CanEndBody(c) THEN Http!BodyFinished(@) ELSE @]
          /\ parser' = [parser EXCEPT ![c] = None]
      BY <1>1, <2>1, <3>2 DEF Http!DisconnectParser
    <3>4. ~Http!CanEndBody(c) => got[r] = "tail" /\ hstate[c] = "ABORTING"
      BY ONLY <1>1, <2>1 DEF Http!CanEndBody
    <3>5. /\ (got[r] \in {"nothing", "part"} /\ chained[c]) =>
                fate' = [fate EXCEPT ![r] = IF wrapped[r] /\ method[r] = "GET" /\ got[r] = "nothing"
                                            THEN "connecting" ELSE "failed"]
          /\ ~(got[r] \in {"nothing", "part"} /\ chained[c]) => UNCHANGED fate
      BY <1>1, <2>1, <3>2 DEF Http!DisconnectParser, Http!ShouldRetry
    <3>6. PICK end : /\ end = IF Http!CanEndBody(c) THEN Http!BodyFinished(body[r]) ELSE body[r]
                     /\ body' = [body EXCEPT ![r] = end]
      BY <3>3
    <3>7. /\ end \in {"none", "INITIAL", "CONNECTED", "DEFERRED_CLOSE", "FINISHED"}
          /\ end \in {"INITIAL", "CONNECTED"} => got[r] = "tail" /\ hstate[c] = "ABORTING"
      BY <3>1, <3>4, <3>6
    <3>8. PICK last :
             /\ last = IF wrapped[r] /\ method[r] = "GET" /\ got[r] = "nothing"
                       THEN "connecting" ELSE "failed"
             /\ (got[r] \in {"nothing", "part"} /\ chained[c]) => fate' = [fate EXCEPT ![r] = last]
      BY <3>5
    <3>9. last \in {"connecting", "failed"} /\ (last = "connecting" => wrapped[r] /\ got[r] = "nothing")
      BY ONLY <3>8
    <3> QED BY ONLY <3>3, <3>5, <3>6, <3>7, <3>8, <3>9
  <2>3. HttpTypes'
    BY <1>0, <2>1, <2>2 DEF HttpStates, HttpFates
  <2>4. NotSentAgain' /\ StatesAgree'
    BY <1>0, <2>1, <2>2 DEF NotSentAgain, StatesAgree, ParsersAgree
  <2>5. ParsersAgree'
    BY <1>0, <2>1, <2>2 DEF ParsersAgree
  <2>6. Orphaned'
    BY <1>0, <1>1, <2>1, <2>2 DEF Orphaned, ParsersAgree, StatesAgree
  <2>7. BodiesEnd'
    BY <1>0, <1>1, <2>1, <2>2 DEF BodiesEnd, ParsersAgree, StatesAgree, Http!Exists
  <2>8. IdleIsKept'
    BY <1>0, <2>1, <2>2 DEF IdleIsKept
  <2> QED BY <2>3, <2>4, <2>5, <2>6, <2>7, <2>8
<1>2. CASE hstate[c] = "TRANSMITTING" /\ parser[c] # None
  <2>1. PICK r \in Requests : r = parser[c]
    BY <1>2
  <2>2. fate' = [fate EXCEPT ![r] = "failed"] /\ UNCHANGED <<parser, body>>
    BY <1>2, <2>1 DEF Http!ConnectionLost
  <2>3. HttpTypes'
    BY <1>0, <2>1, <2>2 DEF HttpStates, HttpFates
  <2>4. NotSentAgain' /\ StatesAgree'
    BY <1>0, <2>1, <2>2 DEF NotSentAgain, StatesAgree
  <2>5. ParsersAgree'
    BY <1>0, <1>2, <2>1, <2>2 DEF ParsersAgree, StatesAgree
  <2>6. Orphaned'
    BY <1>0, <1>2, <2>1, <2>2 DEF Orphaned
  <2>7. BodiesEnd'
    BY <1>0, <1>2, <2>1, <2>2 DEF BodiesEnd, Http!Exists
  <2>8. IdleIsKept'
    BY <1>0, <2>1, <2>2 DEF IdleIsKept
  <2> QED BY <2>3, <2>4, <2>5, <2>6, <2>7, <2>8
<1>3. CASE parser[c] = None \/ hstate[c] \notin {"WAITING", "ABORTING", "TRANSMITTING"}
  <2>1. UNCHANGED <<fate, body>>
    BY <1>3 DEF Http!ConnectionLost, Http!DisconnectParser
  <2>2. parser' = parser
    BY <1>3 DEF Http!ConnectionLost, Http!DisconnectParser
  <2>a. parser[c] = None \/ hstate[c] = "GENERATION_FAILED"
    BY <1>0, <1>3 DEF StatesAgree, HttpStates
  <2>3. HttpTypes'
    BY <1>0, <2>1, <2>2 DEF HttpStates, HttpFates
  <2>4. NotSentAgain' /\ StatesAgree'
    BY <1>0, <2>1, <2>2 DEF NotSentAgain, StatesAgree
  <2>5. ParsersAgree'
    BY <1>0, <2>a, <2>1, <2>2 DEF ParsersAgree
  <2>6. Orphaned'
    BY <1>0, <2>1, <2>2 DEF Orphaned
  <2>7. BodiesEnd'
    BY <1>0, <2>a, <2>1, <2>2 DEF BodiesEnd, ParsersAgree, Http!Exists
  <2>8. IdleIsKept'
    BY <1>0, <2>1, <2>2 DEF IdleIsKept
  <2> QED BY <2>3, <2>4, <2>5, <2>6, <2>7, <2>8
<1> QED BY <1>1, <1>2, <1>3

LEMMA HttpStep == HttpInvariant /\ [Http!Next]_(Http!httpVars) => HttpInvariant'
<1> SUFFICES ASSUME HttpInvariant, [Http!Next]_(Http!httpVars) PROVE HttpInvariant'
  OBVIOUS
<1>0. ASSUME HttpTypes' /\ HttpRest', UNCHANGED <<cached, timers>> PROVE HttpInvariant'
  BY <1>0 DEF HttpInvariant, PoolIsList
<1>1. ASSUME NEW r \in Requests, Http!ConnectFails(r) PROVE HttpInvariant'
  BY <1>0, <1>1, HttpConnectFails DEF HttpInvariant, Http!ConnectFails
<1>2. ASSUME NEW r \in Requests, Http!DeliverBody(r) PROVE HttpInvariant'
  BY <1>0, <1>2, HttpDeliverBody DEF HttpInvariant, Http!DeliverBody
<1>3. ASSUME NEW r \in Requests, NEW yes \in BOOLEAN, Http!PauseBody(r, yes) PROVE HttpInvariant'
  BY <1>0, <1>3, HttpPauseBody DEF HttpInvariant, Http!PauseBody
<1>4. ASSUME NEW r \in Requests, Http!CancelRequest(r) PROVE HttpInvariant'
  BY <1>0, <1>4, HttpCancelRequest DEF HttpInvariant, Http!CancelRequest
<1>5. ASSUME NEW c \in Conns, Http!Written(c) PROVE HttpInvariant'
  BY <1>0, <1>5, HttpWritten DEF HttpInvariant, Http!Written
<1>6. ASSUME NEW c \in Conns, Http!WriteFails(c) PROVE HttpInvariant'
  BY <1>0, <1>6, HttpWriteFails DEF HttpInvariant, Http!WriteFails
<1>7. ASSUME NEW c \in Conns, Http!Garbage(c) PROVE HttpInvariant'
  BY <1>0, <1>7, HttpGarbage DEF HttpInvariant, Http!Garbage
<1>8. ASSUME NEW c \in Conns, Http!SomeData(c) PROVE HttpInvariant'
  BY <1>0, <1>8, HttpSomeData DEF HttpInvariant, Http!SomeData
<1>9. ASSUME NEW c \in Conns, Http!Abort(c) PROVE HttpInvariant'
  BY <1>0, <1>9, HttpAbort DEF HttpInvariant, Http!Abort
<1>10. ASSUME NEW c \in Conns, Http!ConnectionLost(c) PROVE HttpInvariant'
  BY <1>0, <1>10, HttpConnectionLost DEF HttpInvariant, Http!ConnectionLost
<1>11. ASSUME NEW c \in Conns, NEW length \in {"body", "tail"}, Http!Headers(c, length)
       PROVE  HttpInvariant'
  BY <1>0, <1>11, HttpHeaders DEF HttpInvariant, Http!Headers
<1>12. CASE UNCHANGED Http!httpVars
  BY <1>12 DEF Http!httpVars, Http!httpRequests, Http!httpConns, HttpInvariant, HttpTypes, HttpRest,
     NotSentAgain, StatesAgree, ParsersAgree, Orphaned, BodiesEnd, Http!Exists, IdleIsKept, PoolIsList
<1> QED BY <1>1, <1>2, <1>3, <1>4, <1>5, <1>6, <1>7, <1>8, <1>9, <1>10, <1>11, <1>12,
        HttpGetConnection, HttpConnects, HttpFinish, HttpRemoveConnection, HttpCloseCached
        DEF Http!Next

(***************************************************************************)
(* HTTPConnectionPool and HTTP11ClientProtocol, whatever order responses,  *)
(* failures, cancellations, aborts, timeouts and lost connections come in: *)
(* what is idle is cached with a timeout and belongs to nobody; a request  *)
(* or a body that is not over has a parser that will end it; and nothing   *)
(* is sent again once a part of its answer was seen, or more than once.    *)
(***************************************************************************)
THEOREM HTTPClientIsAlwaysSound == Http!Spec => []HTTPClientIsSound
<1>1. HttpInvariant => HTTPClientIsSound
  <2> SUFFICES ASSUME HttpInvariant PROVE Http!HTTPClientIsSound
    BY DEF HTTPClientIsSound
  <2> USE HttpAssumption DEF Http!HTTPClientAssumption, HttpInvariant
  <2>1. Http!Range(cached) = timers /\ Http!IsInjective(cached)
    BY HttpRange DEF PoolIsList, IsInjective, Http!IsInjective
  <2>2. Http!IdleIsCached
    BY <2>1 DEF Http!IdleIsCached, PoolIsList, HttpRest, IdleIsKept
  <2>3. Http!RequestsAreAnswered
    BY DEF Http!RequestsAreAnswered, HttpTypes, HttpStates, HttpRest, NotSentAgain, StatesAgree,
       ParsersAgree, Orphaned, BodiesEnd, Http!Exists
  <2> QED BY <2>2, <2>3 DEF Http!HTTPClientIsSound
<1> QED BY <1>1, HttpInit, HttpStep, PTL DEF Http!Spec
===============================================================================
