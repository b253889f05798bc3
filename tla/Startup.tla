-------------------------------- MODULE Startup --------------------------------
(***************************************************************************)
(* How a backend process comes to serve: it upgrades the database to its   *)
(* code's migrations, copying it aside first, checks that the schema has   *)
(* what its code needs, and takes the runner's lock if it is free          *)
(* (models/db.py, db/migrations/env.py, api/main.py lifespan) - while      *)
(* others, of older and newer code, start, serve, wait and die.            *)
(*                                                                         *)
(* A code is the revisions it ships, oldest first; the last is its head.   *)
(* A revision adds something to the schema, and may drop what another one  *)
(* added.  The data is a count of the writes so far.                       *)
(***************************************************************************)
EXTENDS Naturals, Sequences, FiniteSets, SequencesExt

CONSTANTS
  Processes,
  Codes,
  Ships,       \* [Codes -> Seq(Revisions)]: db/migrations/versions
  Bare,        \* the codes installed without their db/migrations
  Drops,       \* <<r, s>>: revision r drops what s added
  NoProcess, NoCode, NoCopy,
  MaxWrites    \* bound: writes by serving processes

ASSUME StartupAssumption ==
  /\ \A c \in Codes : Ships[c] # <<>>
  \* A revision names the one before it (down_revision), so a head all of them.
  /\ \A c, d \in Codes : Last(Ships[c]) = Last(Ships[d]) => Ships[c] = Ships[d]
  /\ Bare \subseteq Codes
  /\ NoProcess \notin Processes /\ NoCode \notin Codes
  /\ MaxWrites \in Nat

VARIABLES
  applied,     \* the revisions the database has been through
  data,        \* what was written to it
  backup,      \* the copy beside it: its [applied, data], or NoCopy
  proc,        \* [step, code, read]: read is what it found the database at
  writer,      \* the process in a transaction (BEGIN IMMEDIATE)
  runnerLock,  \* the process holding the lock on the runner's lock file
  overtaken    \* those past their check when another one upgraded the database

vars == <<applied, data, backup, proc, writer, runnerLock, overtaken>>

Off == [step |-> "off", code |-> NoCode, read |-> <<>>]

Init ==
  /\ applied = <<>> /\ data = 0 /\ backup = NoCopy
  /\ proc = [p \in Processes |-> Off]
  /\ writer = NoProcess /\ runnerLock = NoProcess
  /\ overtaken = {}

Steps == {"off", "begin", "lock", "copy", "migrate", "unlock", "check", "prepare", "serve"}
Served == {"prepare", "serve"}
At(p, step) == proc[p].step = step
Goes(p, step) == proc' = [proc EXCEPT ![p].step = step]

\* What a schema has after those revisions (_missing_schema compares it with
\* what the models declare).
Has(revisions) ==
  {r \in ToSet(revisions) : ~\E s \in ToSet(revisions) : <<s, r>> \in Drops}
Needs(code) == Has(Ships[code])

Current(code) == applied # <<>> /\ Last(applied) = Last(Ships[code])
\* _unknown_revisions: the database is at one this code has no script of.
Unknown(code) == applied # <<>> /\ Last(applied) \notin ToSet(Ships[code])

-----------------------------------------------------------------------------
(* upgrade_database. *)

Launch(p, code) ==
  /\ At(p, "off")
  /\ proc' = [proc EXCEPT ![p] =
                [step |-> IF code \in Bare THEN "check" ELSE "begin", code |-> code, read |-> <<>>]]
  /\ overtaken' = overtaken \ {p}
  /\ UNCHANGED <<applied, data, backup, writer, runnerLock>>

\* Variant: the revision is read before the transaction begins.
ReadUnlocked(p) ==
  /\ At(p, "begin")
  /\ IF Current(proc[p].code) \/ Unknown(proc[p].code)
       THEN Goes(p, "check") ELSE proc' = [proc EXCEPT ![p].step = "lock", ![p].read = applied]
  /\ UNCHANGED <<applied, data, backup, writer, runnerLock, overtaken>>

\* BEGIN IMMEDIATE, and the revision read: there is nothing to do, or this
\* transaction goes on to the commit.
ReadRevision(p) ==
  /\ At(p, "begin") /\ writer = NoProcess
  /\ IF Current(proc[p].code) \/ Unknown(proc[p].code)
       THEN Goes(p, "check") /\ UNCHANGED writer
       ELSE proc' = [proc EXCEPT ![p].step = "lock", ![p].read = applied] /\ writer' = p
  /\ UNCHANGED <<applied, data, backup, runnerLock, overtaken>>

\* Variant: the upgrade goes on though another process holds the lock.
LockIgnored(p) ==
  /\ At(p, "lock")
  /\ Goes(p, IF proc[p].read = <<>> THEN "migrate" ELSE "copy")
  /\ UNCHANGED <<applied, data, backup, writer, runnerLock, overtaken>>

\* lock_file; where another one holds it, the process ends (End).
LockRunner(p) ==
  /\ At(p, "lock") /\ runnerLock = NoProcess
  /\ runnerLock' = p
  /\ Goes(p, IF proc[p].read = <<>> THEN "migrate" ELSE "copy")
  /\ UNCHANGED <<applied, data, backup, writer, overtaken>>

\* _back_up: a transaction of SQLite's on the copy. Cut off, it leaves the
\* earlier copy.
Copy(p) ==
  /\ At(p, "copy")
  /\ backup' = [applied |-> applied, data |-> data]
  /\ Goes(p, "migrate")
  /\ UNCHANGED <<applied, data, writer, runnerLock, overtaken>>

\* command.upgrade and the commit. A migration that fails, or breaks foreign
\* keys (_migrate), ends the process and changes nothing.
Migrate(p) ==
  /\ At(p, "migrate")
  /\ applied' = Ships[proc[p].code]
  /\ overtaken' = overtaken \cup {q \in Processes \ {p} : proc[q].step \in Served}
  /\ writer' = IF writer = p THEN NoProcess ELSE writer
  /\ Goes(p, "unlock")
  /\ UNCHANGED <<data, backup, runnerLock>>

\* unlock_file.
UnlockRunner(p) ==
  /\ At(p, "unlock")
  /\ runnerLock' = IF runnerLock = p THEN NoProcess ELSE runnerLock
  /\ Goes(p, "check")
  /\ UNCHANGED <<applied, data, backup, writer, overtaken>>

-----------------------------------------------------------------------------
(* check_database, and serving. *)

\* Variant: a revision the code does not know is taken for a newer one.
UsableIfUnknown(code) == Current(code) \/ (code \notin Bare /\ Unknown(code))

\* check_schema_is_current: at its head; or at a revision it does not know, or
\* with no scripts to know any by, and the schema has all it needs.
Usable(code) ==
  /\ applied # <<>>
  /\ \/ code \notin Bare /\ Current(code)
     \/ (code \in Bare \/ Unknown(code)) /\ Needs(code) \subseteq Has(applied)

\* Where it is not usable, the process ends (End).
Check(p) ==
  /\ At(p, "check") /\ writer = NoProcess
  /\ Usable(proc[p].code)
  /\ Goes(p, "prepare")
  /\ UNCHANGED <<applied, data, backup, writer, runnerLock, overtaken>>

\* JobRunner.prepare: with the lock, or without, running no jobs (JobRunner).
Prepare(p) ==
  /\ At(p, "prepare")
  /\ runnerLock' = IF runnerLock = NoProcess THEN p ELSE runnerLock
  /\ Goes(p, "serve")
  /\ UNCHANGED <<applied, data, backup, writer, overtaken>>

\* A process serving without the lock takes it once it is free.
TakeOver(p) ==
  /\ At(p, "serve") /\ runnerLock = NoProcess
  /\ runnerLock' = p
  /\ UNCHANGED <<applied, data, backup, proc, writer, overtaken>>

\* A request's transaction, or a job's.
Write(p) ==
  /\ At(p, "serve") /\ writer = NoProcess /\ data < MaxWrites
  /\ data' = data + 1
  /\ UNCHANGED <<applied, backup, proc, writer, runnerLock, overtaken>>

\* A process ends, by itself or not: its transaction is rolled back, and its
\* lock released by the OS. One waiting for the write lock gives up too. A failed
\* migration unlocks just before its rollback, which is the same step here.
End(p) ==
  /\ ~At(p, "off")
  /\ proc' = [proc EXCEPT ![p] = Off]
  /\ writer' = IF writer = p THEN NoProcess ELSE writer
  /\ runnerLock' = IF runnerLock = p THEN NoProcess ELSE runnerLock
  /\ UNCHANGED <<applied, data, backup, overtaken>>

Next ==
  \E p \in Processes :
    \/ \E code \in Codes : Launch(p, code)
    \/ ReadRevision(p) \/ LockRunner(p) \/ Copy(p) \/ Migrate(p) \/ UnlockRunner(p)
    \/ Check(p) \/ Prepare(p) \/ TakeOver(p) \/ Write(p) \/ End(p)

Spec == Init /\ [][Next]_vars

-----------------------------------------------------------------------------
Schemas == {<<>>} \cup {Ships[c] : c \in Codes}

TypeOK ==
  /\ applied \in Schemas
  /\ data \in 0 .. MaxWrites
  /\ backup \in [applied : Schemas \ {<<>>}, data : 0 .. MaxWrites] \cup {NoCopy}
  /\ proc \in [Processes -> [step : Steps, code : Codes \cup {NoCode}, read : Schemas]]
  /\ {writer, runnerLock} \subseteq Processes \cup {NoProcess}
  /\ overtaken \subseteq Processes

\* A process serves, and writes, on a schema that has all its code needs - but
\* one upgraded under it, which the upgrade cannot tell is there where it
\* serves without the runner's lock.
ServedHasItsSchema ==
  \A p \in Processes : proc[p].step \in Served =>
    Needs(proc[p].code) \subseteq Has(applied) \/ p \in overtaken

\* The database is upgraded under no process that runs its jobs, nor taken by
\* one while it is upgraded (upgrade_database's docstring).
NoUpgradeUnderJobs ==
  \A p, q \in Processes : p # q /\ proc[p].step \in {"copy", "migrate", "unlock"} =>
    ~(runnerLock = q /\ At(q, "serve")) /\ runnerLock = p

\* What every state has, whoever acts: the types, and no upgrade under jobs.
Inv == TypeOK /\ NoUpgradeUnderJobs

\* An upgrade is made once, with all that was written until then in the copy:
\* none starts from what another one has upgraded since, or makes the copy one
\* of the database already upgraded.
UpgradeIsCopied ==
  [][/\ applied' # applied =>
          applied = <<>> \/ backup = [applied |-> applied, data |-> data]
     /\ \A p \in Processes : At(p, "copy") /\ backup' # backup /\ proc'[p] # proc[p] =>
          Last(backup'.applied) # Last(Ships[proc[p].code])]_vars
===============================================================================
