---------------------------- MODULE Persistence ----------------------------
(***************************************************************************)
(* How the store keeps its database: store.js load, save, saveChanges and  *)
(* persistRecordChanges.  The program works on one object in memory and    *)
(* names the records a hot path changed; a save writes only those that     *)
(* differ from what it believes is on disk (persistedRecords), in one      *)
(* SQLite transaction that can fail.  A crash forgets memory and cache.    *)
(***************************************************************************)
EXTENDS Naturals, FiniteSets

CONSTANTS
    Records,        \* the rows (collection, key) of the table
    Collection,     \* the collection of each
    Transient,      \* rows of requests in flight, which are never written
    Values,         \* contents of a row
    Absent,         \* no row
    MaxSteps        \* bound: changes made in memory

RecordsAssumption == Absent \notin Values /\ MaxSteps \in Nat

VARIABLES
    mem,            \* this.db
    cache,          \* persistedRecords
    disk,           \* the table
    promised,       \* history: what each row held when it was last saved
    steps

vars == <<mem, cache, disk, promised, steps>>

Rows == [Records -> Values \cup {Absent}]
Collections == {Collection[r] : r \in Records}

TypeOK ==
    /\ mem \in Rows /\ cache \in Rows /\ disk \in Rows /\ promised \in Rows
    /\ steps \in 0..MaxSteps

\* persistedDatabaseRecords: what of memory belongs on disk.
Persisted(m) == [r \in Records |-> IF r \in Transient THEN Absent ELSE m[r]]

Init ==
    /\ disk \in {d \in Rows : \A r \in Transient : d[r] = Absent}
    /\ mem = disk /\ cache = disk /\ promised = disk
    /\ steps = 0

\* Any operation of the program, which may fail before it saves.
Change(r, v) ==
    /\ steps < MaxSteps
    /\ mem[r] # v
    /\ mem' = [mem EXCEPT ![r] = v]
    /\ steps' = steps + 1
    /\ UNCHANGED <<cache, disk, promised>>

\* persistRecordChanges: write what differs from the cache, drop what is gone,
\* and publish the cache after the commit; a transaction that throws leaves
\* both as they were.
Changed(named, removable) ==
    {r \in named : Persisted(mem)[r] # Absent /\ cache[r] # Persisted(mem)[r]}
        \cup {r \in removable : cache[r] # Absent /\ Persisted(mem)[r] = Absent}
Written(old, rows) == [r \in Records |-> IF r \in rows THEN Persisted(mem)[r] ELSE old[r]]

\* Mutant: the cache is published before the transaction commits.
PublishFirst(rows, commits) ==
    /\ disk' = IF commits THEN Written(disk, rows) ELSE disk
    /\ cache' = Written(cache, rows)

WriteRecords(rows, commits) ==
    /\ disk' = IF commits THEN Written(disk, rows) ELSE disk
    /\ cache' = IF commits THEN Written(cache, rows) ELSE cache

Promise(named, removable, commits) ==
    promised' = IF ~commits THEN promised
                ELSE [r \in Records |->
                        IF r \in removable \/ (r \in named /\ mem[r] # Absent)
                        THEN Persisted(mem)[r] ELSE promised[r]]

\* save: every row is named, every row may go.
Save(commits) ==
    /\ WriteRecords(Changed(Records, Records), commits)
    /\ Promise(Records, Records, commits)
    /\ UNCHANGED <<mem, steps>>

\* saveChanges: some single rows (an upstream) and whole collections; only a
\* row of a named collection can be removed.
SaveChanges(rows, collections, commits) ==
    LET whole == {r \in Records : Collection[r] \in collections}
        named == rows \cup whole
    IN /\ named # {}
       /\ WriteRecords(Changed(named, whole), commits)
       /\ Promise(named, whole, commits)
       /\ UNCHANGED <<mem, steps>>

\* The process ends, and the next one loads what is on disk.
Restart ==
    /\ mem' = disk
    /\ cache' = disk
    /\ UNCHANGED <<disk, promised, steps>>

Next ==
    \/ \E r \in Records, v \in Values \cup {Absent} : Change(r, v)
    \/ \E commits \in BOOLEAN : Save(commits)
    \/ \E rows \in SUBSET Records, collections \in SUBSET Collections, commits \in BOOLEAN :
         SaveChanges(rows, collections, commits)
    \/ Restart

Spec == Init /\ [][Next]_vars

(* What a save that returned has written survives a crash, also after      *)
(* earlier saves failed and although later saves write only differences    *)
(* ("Publish the comparison cache only after the transaction commits",     *)
(* store.js:1350): the table holds exactly what was last saved.            *)
SavedIsDurable == disk = promised

-----------------------------------------------------------------------------
(* What makes it inductive: the cache is the table, so that writing only     *)
(* the differences to it writes everything; and no row of a request in       *)
(* flight ever got there, so that naming one changes nothing.                *)
CacheIsTheTable ==
    /\ mem \in Rows /\ disk \in Rows /\ promised \in Rows
    /\ cache = disk
    /\ disk = promised
    /\ \A r \in Records \cap Transient : disk[r] = Absent
=============================================================================
