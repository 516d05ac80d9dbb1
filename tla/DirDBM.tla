--------------------------------- MODULE DirDBM ---------------------------------
(***************************************************************************)
(* twisted.persisted.dirdbm.DirDBM: a mapping kept as one file per key.    *)
(* Every system call is a step, so that the process may die between any    *)
(* two, the recovery of __init__ included.  Shelf only pickles the values. *)
(***************************************************************************)
EXTENDS Naturals

CONSTANTS Keys, Values

Absent == "absent"
Partial == "partial"      \* a file whose writing has not been finished
Contents == Values \cup {Absent, Partial}

\* No value is the absence of one, or a part of one.
DirDBMAssumption == {Absent, Partial} \cap Values = {}

VARIABLES
    file,     \* [k] the file named by the encoded key
    rpl,      \* [k] the same with the extension .rpl
    new,      \* [k] the same with the extension .new
    op,       \* what the process is doing: a record with field `at'
    dbmUp,    \* the process is alive and has opened the directory
    torn      \* history: the keys for which os.remove or os.rename has failed in
              \* __setitem__ since the directory was opened

dbmVars == <<file, rpl, new, op, dbmUp, torn>>

Nothing == [at |-> "nothing"]

Init ==
    /\ file = [k \in Keys |-> Absent]
    /\ rpl = [k \in Keys |-> Absent]
    /\ new = [k \in Keys |-> Absent]
    /\ op = Nothing /\ dbmUp = TRUE /\ torn = {}

-------------------------------------------------------------------------------
(***************************************************************************)
(* __setitem__                                                             *)
(***************************************************************************)
Write(k, ext, content) ==
    IF ext = "rpl" THEN rpl' = [rpl EXCEPT ![k] = content] /\ UNCHANGED new
                   ELSE new' = [new EXCEPT ![k] = content] /\ UNCHANGED rpl

Extension(k) == IF file[k] # Absent THEN "rpl" ELSE "new"

\* The old file is looked for, the file to write is opened and truncated.
SetItem(k, v) ==
    /\ dbmUp /\ op = Nothing
    /\ op' = [at |-> "write", key |-> k, value |-> v, ext |-> Extension(k)]
    /\ Write(k, Extension(k), Partial)
    /\ UNCHANGED <<file, dbmUp, torn>>

Written ==
    /\ op.at = "write"
    /\ op' = [op EXCEPT !.at = IF file[op.key] # Absent THEN "removeOld" ELSE "rename"]
    /\ Write(op.key, op.ext, op.value)
    /\ UNCHANGED <<file, dbmUp, torn>>

\* An error of open, write, flush or close.
WriteFails ==
    /\ op.at = "write"
    /\ op' = [op EXCEPT !.at = "removePartial"]
    /\ UNCHANGED <<file, rpl, new, dbmUp, torn>>

RemovePartial ==
    /\ op.at = "removePartial"
    /\ op' = Nothing
    /\ Write(op.key, op.ext, Absent)
    /\ UNCHANGED <<file, dbmUp, torn>>

RemoveOld ==
    /\ op.at = "removeOld"
    /\ op' = [op EXCEPT !.at = "rename"]
    /\ file' = [file EXCEPT ![op.key] = Absent]
    /\ UNCHANGED <<rpl, new, dbmUp, torn>>

Rename ==
    /\ op.at = "rename"
    /\ op' = Nothing
    /\ file' = [file EXCEPT ![op.key] = IF op.ext = "rpl" THEN rpl[op.key] ELSE new[op.key]]
    /\ Write(op.key, op.ext, Absent)
    /\ UNCHANGED <<dbmUp, torn>>

\* An error of os.remove or os.rename: __setitem__ raises it, and leaves behind
\* what it has written.
RemoveOrRenameFails ==
    /\ op.at \in {"removePartial", "removeOld", "rename"}
    /\ op' = Nothing
    /\ torn' = torn \cup {op.key}
    /\ UNCHANGED <<file, rpl, new, dbmUp>>

\* __delitem__ of a key that is there; it raises KeyError otherwise, and when
\* os.remove fails.
DelItem(k) ==
    /\ dbmUp /\ op = Nothing /\ file[k] # Absent
    /\ file' = [file EXCEPT ![k] = Absent]
    /\ UNCHANGED <<rpl, new, op, dbmUp, torn>>

-------------------------------------------------------------------------------
(***************************************************************************)
(* The process dies, or the recovery raises an error; another one opens    *)
(* the directory.  glob lists the files in no particular order.            *)
(***************************************************************************)
Crash ==
    /\ dbmUp \/ op # Nothing
    /\ dbmUp' = FALSE /\ op' = Nothing
    /\ UNCHANGED <<file, rpl, new, torn>>

Open ==
    /\ ~dbmUp /\ op = Nothing
    /\ op' = [at |-> "recover"]
    /\ UNCHANGED <<file, rpl, new, dbmUp, torn>>

RemoveNew(k) ==
    /\ op.at = "recover" /\ new[k] # Absent
    /\ new' = [new EXCEPT ![k] = Absent]
    /\ UNCHANGED <<file, rpl, op, dbmUp, torn>>

AlwaysReplace(k) == TRUE

\* Only the .rpl is left: the old entry had been removed.
Replaces(k) == file[k] = Absent

Replace(k) ==
    /\ op.at = "recover" /\ rpl[k] # Absent /\ \A j \in Keys : new[j] = Absent
    /\ file' = IF Replaces(k) THEN [file EXCEPT ![k] = rpl[k]] ELSE file
    /\ rpl' = [rpl EXCEPT ![k] = Absent]
    /\ UNCHANGED <<new, op, dbmUp, torn>>

Recovered ==
    /\ op.at = "recover" /\ \A k \in Keys : new[k] = Absent /\ rpl[k] = Absent
    /\ op' = Nothing /\ dbmUp' = TRUE /\ torn' = {}
    /\ UNCHANGED <<file, rpl, new>>

Next ==
    \/ \E k \in Keys : \/ \E v \in Values : SetItem(k, v)
                       \/ DelItem(k) \/ RemoveNew(k) \/ Replace(k)
    \/ Written \/ WriteFails \/ RemovePartial \/ RemoveOld \/ Rename
    \/ RemoveOrRenameFails \/ Crash \/ Open \/ Recovered

Spec == Init /\ [][Next]_dbmVars

-------------------------------------------------------------------------------
(***************************************************************************)
(* What is found under a key: in an open directory its file, which is what *)
(* __getitem__ reads; otherwise what a process that opens the directory    *)
(* would find, as it would for the key that is being set.                  *)
(***************************************************************************)
Stored(k) == IF file[k] # Absent THEN file[k] ELSE rpl[k]

Found(k) == IF dbmUp /\ (op = Nothing \/ op.key # k) THEN file[k] ELSE Stored(k)

Map == INSTANCE AtomicMap WITH
           contents <- [k \in Keys |-> Found(k)], Missing <- Absent,
           writing <- IF op.at \in {"write", "removeOld", "rename"}
                      THEN {<<op.key, op.value>>} ELSE {},
           ready <- dbmUp /\ op = Nothing,
           broken <- torn

(***************************************************************************)
(* The directory is an atomic map: at every moment, a crash included, each *)
(* key has the value of the last assignment that took effect, never a part *)
(* of one, and nothing only if it was deleted after that.  An assignment   *)
(* takes effect at one step of __setitem__, and has done so when that      *)
(* returns; an entry is taken away by __delitem__ alone, never by a crash  *)
(* or by recovery; and an open directory shows all of this in its files.   *)
(* Only a key for which os.remove or os.rename has failed is excepted,     *)
(* until the directory is opened again.                                    *)
(***************************************************************************)
ImplementsMap == Map!Spec
===============================================================================
