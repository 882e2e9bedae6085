--------------------------------- MODULE Notes ---------------------------------
(***************************************************************************)
(* The memory files and skills (hamroh/storage/memory_store.py,            *)
(* skills_store.py): markdown files the bot reads and writes with tools,   *)
(* and the operator by hand.  A file that exists is only written once it   *)
(* was read in this process.  Every tool call runs in a thread of its own, *)
(* and a file is written by truncating it and filling it.                  *)
(*                                                                         *)
(* A file holds entries, one for each write, append or edit.  Calls that   *)
(* change nothing (list, search, a rejected path, content without          *)
(* frontmatter or over the cap) are left out.                              *)
(***************************************************************************)
EXTENDS Naturals

CONSTANTS Memories, Skills,
          Hidden,        \* skills_disabled: skills that are never read
          Calls,         \* tool calls that may run at the same time
          MaxEntries,    \* bound: writes, appends and edits by hand
          MaxRestarts    \* bound

Files == Memories \cup Skills
Absent == [kind |-> "absent"]

VARIABLES
    disk,        \* each file: its entries up to the read cap, those beyond it, and
                 \* whether its frontmatter is valid
    credited,    \* _read_paths and _read_names
    call,        \* each tool call: where its thread is
    seen,        \* history: entries this process has returned to the model or written for it
    blind,       \* history: entries that came into a file after it was read, or while a
                 \* call was under way, and those a read cut off
    destroyed,   \* history: entries lost though neither seen nor blind, or by an append
    killed,      \* history: entries a call had yet to fill in when the bot died
    entries, restarts

vars == <<disk, credited, call, seen, blind, destroyed, killed, entries, restarts>>

Idle == [pc |-> "idle"]
File(head, tail, valid) == [kind |-> "file", head |-> head, tail |-> tail, valid |-> valid]
Exists(f) == disk[f] # Absent
Content(f) == IF Exists(f) THEN disk[f].head \cup disk[f].tail ELSE {}
Start(t) == call[t] = Idle
New == entries < MaxEntries /\ entries' = entries + 1
At(t, pc) == call[t].pc = pc
Busy(t, f) == call[t] # Idle /\ call[t].f = f

-----------------------------------------------------------------------------
\* A plausible slip: a file that the listing showed counts as read.
GateListed(f) == TRUE

\* The read-before-write gate
Gate(f) == Exists(f) => f \in credited

\* memory_read cuts off what is beyond the cap; skill_read also fails on bad frontmatter.
Read(t, f) ==
    /\ Start(t) /\ Exists(f) /\ f \notin Hidden
    /\ f \in Skills => disk[f].valid
    /\ call' = [call EXCEPT ![t] = [pc |-> "credit", f |-> f, got |-> disk[f].head,
                                    cut |-> disk[f].tail]]
    /\ UNCHANGED <<disk, credited, seen, blind, destroyed, killed, entries, restarts>>

Write(t, f) ==
    /\ Start(t) /\ Gate(f) /\ New
    /\ call' = [call EXCEPT ![t] = [pc |-> "truncate", f |-> f, put |-> {entries'},
                                    got |-> {}, cut |-> {}, op |-> "write"]]
    /\ seen' = seen \cup {entries'}
    /\ UNCHANGED <<disk, credited, blind, destroyed, killed, restarts>>

\* The body is read here; a file already over the cap is refused.
Append(t, f) ==
    /\ Start(t) /\ f \in Memories /\ Gate(f) /\ New
    /\ Exists(f) => disk[f].tail = {}
    /\ call' = [call EXCEPT ![t] = [pc |-> "truncate", f |-> f,
                                    put |-> Content(f) \cup {entries'},
                                    got |-> {}, cut |-> {}, op |-> "append"]]
    /\ seen' = seen \cup {entries'}
    /\ UNCHANGED <<disk, credited, blind, destroyed, killed, restarts>>

\* write_bytes: opening the file truncates it.  An append means to drop nothing, and
\* carries along all it read; a write means to drop what the model has seen.
Truncate(t) ==
    /\ At(t, "truncate")
    /\ LET f == call[t].f
           dropped == Content(f) \ call[t].put
           meant == IF call[t].op = "write" THEN seen ELSE {}
       IN  /\ disk' = [disk EXCEPT ![f] = File({}, {}, FALSE)]
           /\ destroyed' = destroyed \cup (dropped \ (meant \cup blind))
    /\ call' = [call EXCEPT ![t].pc = "fill"]
    /\ UNCHANGED <<credited, seen, blind, killed, entries, restarts>>

\* What another call filled in meanwhile is overwritten, or its end is left.
Fill(t, left) ==
    /\ At(t, "fill")
    /\ LET f == call[t].f
           content == call[t].put \cup left
       IN  /\ left \in {{}, Content(f)}
           /\ disk' = [disk EXCEPT ![f] = File(content, {}, TRUE)]
           /\ blind' = IF \E u \in Calls \ {t} : Busy(u, f) THEN blind \cup content ELSE blind
    /\ call' = [call EXCEPT ![t].pc = "credit"]
    /\ UNCHANGED <<credited, seen, destroyed, killed, entries, restarts>>

\* The end of a read, a write and an append.
Credit(t) ==
    /\ At(t, "credit")
    /\ credited' = credited \cup {call[t].f}
    /\ seen' = seen \cup call[t].got
    /\ blind' = blind \cup call[t].cut
    /\ call' = [call EXCEPT ![t] = Idle]
    /\ UNCHANGED <<disk, destroyed, killed, entries, restarts>>

\* The operator edits a file, perhaps beyond the cap or with bad frontmatter.
EditByHand(f, long, valid) ==
    /\ New
    /\ LET head == IF Exists(f) THEN disk[f].head ELSE {}
           tail == IF Exists(f) THEN disk[f].tail ELSE {}
       IN  disk' = [disk EXCEPT ![f] = IF long THEN File(head, tail \cup {entries'}, valid)
                                       ELSE File(head \cup {entries'}, tail, valid)]
    /\ blind' = IF f \in credited \/ \E t \in Calls : Busy(t, f)
                THEN blind \cup {entries'} ELSE blind
    /\ UNCHANGED <<credited, call, seen, destroyed, killed, restarts>>

\* What the file does not hold of what a call had yet to fill in.
Unfilled(t) == IF At(t, "fill") THEN call[t].put \ Content(call[t].f) ELSE {}

\* The bot dies.  A file left truncated stays so, with all an append carried along lost.
\* A new process has read nothing.
Restart ==
    /\ restarts < MaxRestarts /\ restarts' = restarts + 1
    /\ killed' = killed \cup UNION {Unfilled(t) : t \in Calls}
    /\ destroyed' = destroyed \cup
           UNION {Unfilled(t) : t \in {u \in Calls : At(u, "fill") /\ call[u].op = "append"}}
    /\ credited' = {} /\ seen' = {} /\ blind' = {}
    /\ call' = [t \in Calls |-> Idle]
    /\ UNCHANGED <<disk, entries>>

-----------------------------------------------------------------------------
Init ==
    /\ disk = [f \in Files |-> Absent] /\ credited = {} /\ call = [t \in Calls |-> Idle]
    /\ seen = {} /\ blind = {} /\ destroyed = {} /\ killed = {}
    /\ entries = 0 /\ restarts = 0

Next ==
    \/ \E t \in Calls, f \in Files : Read(t, f) \/ Write(t, f) \/ Append(t, f)
    \/ \E t \in Calls : Truncate(t) \/ Credit(t) \/ \E left \in SUBSET (1 .. MaxEntries) : Fill(t, left)
    \/ \E f \in Files, long, valid \in BOOLEAN : EditByHand(f, long, valid)
    \/ Restart

Spec == Init /\ [][Next]_vars

-----------------------------------------------------------------------------
Entries == 1 .. MaxEntries
Reading == [pc : {"credit"}, f : Files, got : SUBSET Entries, cut : SUBSET Entries]
Writing == [pc : {"truncate", "fill", "credit"}, f : Files, put : SUBSET Entries,
            got : {{}}, cut : {{}}, op : {"write", "append"}]

\* Types of the files and the calls.
TypeOK ==
    /\ disk \in [Files -> {Absent} \cup [kind : {"file"}, head : SUBSET Entries,
                                         tail : SUBSET Entries, valid : BOOLEAN]]
    /\ call \in [Calls -> {Idle} \cup Reading \cup Writing]
    /\ credited \subseteq Files /\ entries \in 0 .. MaxEntries

\* Nothing is overwritten that the model never saw (memory_write: "a safety rail against
\* destroying notes whose content you never saw"), and an append drops nothing, but for
\* what came into the file after it was read, what was beyond the read cap, and what an
\* append carried along when the bot died between its truncating the file and filling it.
NotesKept == destroyed \subseteq killed

-----------------------------------------------------------------------------
(* Inductive invariant *)

\* A file that may be written holds nothing this process has neither seen nor is excused for.
CreditedIsSeen == \A f \in credited : Content(f) \subseteq seen \cup blind

\* So does a file a call is writing; what a read has got counts from its end, and an
\* append carries along all it found.
CallsHaveSeen ==
    \A t \in Calls :
        /\ At(t, "credit") => Content(call[t].f) \subseteq seen \cup blind \cup call[t].got \cup call[t].cut
        /\ At(t, "truncate") \/ At(t, "fill") =>
               Content(call[t].f) \cup call[t].put \subseteq seen \cup blind
        /\ At(t, "truncate") /\ call[t].op = "append" =>
               Content(call[t].f) \ call[t].put \subseteq blind

IInv == TypeOK /\ CreditedIsSeen /\ CallsHaveSeen /\ NotesKept
================================================================================
