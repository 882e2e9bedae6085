------------------------------ MODULE Instructions -----------------------------
(***************************************************************************)
(* project.md (hamroh/storage/instructions_store.py): appended to and      *)
(* rewritten by tools, each call in a thread of its own; every commit      *)
(* copies the file to a backup named by the second, writes a temporary     *)
(* file and renames it, or, when the file is a bind mount, writes in       *)
(* place.                                                                  *)
(*                                                                         *)
(* A version of the file is the set of entries it holds.                   *)
(***************************************************************************)
EXTENDS Naturals, FiniteSets

CONSTANTS Calls,
          MaxEntries,   \* bound: appends and rewrites
          MaxSeconds,   \* bound
          MaxRestarts   \* bound

VARIABLES
    project,     \* project.md
    tmp,         \* project.md.tmp
    backups,     \* data/prompt_backups: a version for every second that has one
    call,        \* each tool call: where its thread is, and the version it commits
    second,      \* the clock
    past,        \* history: versions overwritten by a commit no other ran beside
    clobbered,   \* history: versions whose backup was overwritten by another of its second
    entries, restarts

vars == <<project, tmp, backups, call, second, past, clobbered, entries, restarts>>

Idle == [pc |-> "idle"]
NoFile == [file |-> "none"]
Holds(v) == [file |-> "present", has |-> v]
At(t, pc) == call[t].pc = pc
Goto(t, pc) == call' = [call EXCEPT ![t].pc = pc]
Others(t) == {u \in Calls \ {t} : call[u] # Idle}

\* From here on the calls under way are not alone.
Commit(t, v) ==
    /\ call[t] = Idle /\ entries < MaxEntries /\ entries' = entries + 1
    /\ call' = [u \in Calls |-> IF u = t THEN [pc |-> "backup", put |-> v, alone |-> Others(t) = {}]
                                ELSE IF call[u] = Idle THEN Idle
                                ELSE [call[u] EXCEPT !.alone = FALSE]]
    /\ UNCHANGED <<project, tmp, backups, second, past, clobbered, restarts>>

Append(t) == Commit(t, project.has \cup {entries + 1})
Rewrite(t) == Commit(t, {entries + 1})

\* A plausible slip: a backup of this second is not written again.
BackupOnce(t) ==
    /\ At(t, "backup")
    /\ backups' = [s \in DOMAIN backups \cup {second} |->
                      IF s \in DOMAIN backups THEN backups[s] ELSE project.has]
    /\ Goto(t, "tmp")
    /\ UNCHANGED <<project, tmp, second, past, clobbered, entries, restarts>>

\* Of two backups of one second the later one is left.
Backup(t) ==
    /\ At(t, "backup")
    /\ backups' = [s \in DOMAIN backups \cup {second} |->
                      IF s = second THEN project.has ELSE backups[s]]
    /\ clobbered' = IF second \in DOMAIN backups
                    THEN clobbered \cup ({backups[second]} \ {project.has}) ELSE clobbered
    /\ Goto(t, "tmp")
    /\ UNCHANGED <<project, tmp, second, past, entries, restarts>>

WriteTmp(t) ==
    /\ At(t, "tmp")
    /\ tmp' = Holds(call[t].put)
    /\ Goto(t, "replace")
    /\ UNCHANGED <<project, backups, second, past, clobbered, entries, restarts>>

Overwrites(t) == past' = IF call[t].alone THEN past \cup {project.has} ELSE past

\* The rename takes whatever is in the temporary file: with a commit beside it, perhaps
\* the other's; then the other finds none, and reports an error.
Replace(t) ==
    /\ At(t, "replace")
    /\ call' = [call EXCEPT ![t] = Idle]
    /\ IF tmp = NoFile
       THEN UNCHANGED <<project, tmp, past>>
       ELSE /\ project' = tmp /\ tmp' = NoFile
            /\ Overwrites(t)
    /\ UNCHANGED <<backups, second, clobbered, entries, restarts>>

\* EBUSY: the file is truncated, then filled, then the temporary file removed.
TruncateInPlace(t) ==
    /\ At(t, "replace") /\ tmp # NoFile
    /\ project' = Holds({}) /\ Overwrites(t)
    /\ Goto(t, "fill")
    /\ UNCHANGED <<tmp, backups, second, clobbered, entries, restarts>>

FillInPlace(t) ==
    /\ At(t, "fill")
    /\ project' = Holds(call[t].put) /\ tmp' = NoFile
    /\ call' = [call EXCEPT ![t] = Idle]
    /\ UNCHANGED <<backups, second, past, clobbered, entries, restarts>>

SecondPasses ==
    /\ second < MaxSeconds /\ second' = second + 1
    /\ UNCHANGED <<project, tmp, backups, call, past, clobbered, entries, restarts>>

Restart ==
    /\ restarts < MaxRestarts /\ restarts' = restarts + 1
    /\ call' = [t \in Calls |-> Idle]
    /\ UNCHANGED <<project, tmp, backups, second, past, clobbered, entries>>

-----------------------------------------------------------------------------
\* An operator's project.md, which holds the entry 0.
Init ==
    /\ project = Holds({0}) /\ tmp = NoFile /\ backups = [s \in {} |-> {}]
    /\ call = [t \in Calls |-> Idle] /\ second = 0
    /\ past = {} /\ clobbered = {}
    /\ entries = 0 /\ restarts = 0

Next ==
    \/ \E t \in Calls :
          \/ Append(t) \/ Rewrite(t) \/ Backup(t) \/ WriteTmp(t) \/ Replace(t)
          \/ TruncateInPlace(t) \/ FillInPlace(t)
    \/ SecondPasses \/ Restart

Spec == Init /\ [][Next]_vars

-----------------------------------------------------------------------------
Version == SUBSET (0 .. MaxEntries)
Present == [file : {"present"}, has : Version]

\* Types of the files and the calls.
TypeOK ==
    /\ project \in Present /\ tmp \in {NoFile} \cup Present
    /\ DOMAIN backups \subseteq 0 .. MaxSeconds /\ \A s \in DOMAIN backups : backups[s] \in Version
    /\ call \in [Calls -> {Idle} \cup [pc : {"backup", "tmp", "replace", "fill"},
                                       put : Version, alone : BOOLEAN]]
    /\ past \subseteq Version /\ clobbered \subseteq Version
    /\ second \in 0 .. MaxSeconds /\ entries \in 0 .. MaxEntries

BackedUp(v) == \E s \in DOMAIN backups : backups[s] = v

\* Every version that a commit has overwritten can be had back, also when the commit died
\* with the file truncated (_atomic_write: "the backup taken by the caller covers
\* crash-mid-write recovery"), but for the versions overwritten while two commits ran
\* beside each other, and those whose backup another commit of the same second overwrote.
BackupCovers == \A v \in past : BackedUp(v) \/ v \in clobbered

-----------------------------------------------------------------------------
(* Inductive invariant *)

\* A commit that counts as alone is.
AloneIsAlone == \A t \in Calls : call[t] # Idle /\ call[t].alone => Others(t) = {}

\* From its backup on, a commit alone has one of what it is about to overwrite.
VersionIsSafe ==
    \A t \in Calls :
        call[t] # Idle /\ call[t].alone /\ call[t].pc \in {"tmp", "replace"} =>
            BackedUp(project.has)

IInv == TypeOK /\ AloneIsAlone /\ VersionIsSafe /\ BackupCovers
================================================================================
