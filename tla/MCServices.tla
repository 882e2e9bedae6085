------------------------------ MODULE MCServices -------------------------------
(***************************************************************************)
(* What a turn works with, beside each other: files, browser, typing       *)
(* indicator, spawn profiles, and the transcript. These components share   *)
(* no state, so a behaviour is one of one component, named by part, and    *)
(* the others stay in an initial state.                                    *)
(***************************************************************************)
EXTENDS Naturals, Sequences, FiniteSets, TLC

CONSTANTS
    Memories, Skills, Hidden, Calls, MaxEntries, MaxRestarts, MaxSeconds, Tasks,
    MaxLaunches, MaxContexts, MaxFaults, Chats, MaxMessages, SharedTools, PrivateTools,
    BothTools, Added, Servers, MaxEdits, MaxSpawns, ToolCalls, Emojis, MaxSent,
    MaxChanges, MaxDeaths

ASSUME ServicesAssumption ==
    /\ {MaxEntries, MaxRestarts, MaxSeconds, MaxLaunches, MaxContexts, MaxFaults,
        MaxMessages, MaxEdits, MaxSpawns, MaxSent, MaxChanges, MaxDeaths} \subseteq Nat
    /\ "free" \notin Tasks
    /\ LET Tools == SharedTools \cup PrivateTools \cup BothTools
           Builtins == {"Bash", "Code", "web", "turn", "Agent", "SendMessage"}
       IN  Tools \cap Servers = {} /\ (Tools \cup Servers) \cap Builtins = {}

VARIABLES
    part,
    disk, credited, noteCall, seen, blind, destroyed, killed, noteEntries, noteRestarts,
    project, tmp, backups, projectCall, second, past, clobbered, projectEntries,
    projectRestarts,
    drivers, chromes, manager, lock, contexts, session, pageLock, task, hung,
    overlapped, orphaned, lostDrivers, lostContexts, launches, opened, faults,
    chats, early, loops, handle, deferred, slot, firing, buffered, turn, injecting,
    stopping, late, crossed, replaced, astray, messages, tasks,
    plugins, files, memory, registered, profiles, bot, spec, judged, ordered, proc, overtaken,
    edits, spawns,
    telegram, table, calling, reactions, handler, torn, sent, changes, deaths

No == INSTANCE Notes WITH
    call <- noteCall, entries <- noteEntries, restarts <- noteRestarts
Pm == INSTANCE Instructions WITH
    call <- projectCall, entries <- projectEntries, restarts <- projectRestarts
Br == INSTANCE Browser
Ty == INSTANCE Typing
Pr == INSTANCE Profiles
Tr == INSTANCE Transcript

Parts == {"notes", "project", "browser", "typing", "profiles", "transcript"}

noteVars ==
    <<disk, credited, noteCall, seen, blind, destroyed, killed, noteEntries, noteRestarts>>
projectVars ==
    <<project, tmp, backups, projectCall, second, past, clobbered, projectEntries,
      projectRestarts>>
browserVars ==
    <<drivers, chromes, manager, lock, contexts, session, pageLock, task, hung,
      overlapped, orphaned, lostDrivers, lostContexts, launches, opened, faults>>
typingVars ==
    <<chats, early, loops, handle, deferred, slot, firing, buffered, turn, injecting,
      stopping, late, crossed, replaced, astray, messages, tasks>>
profileVars ==
    <<plugins, files, memory, registered, profiles, bot, spec, judged, ordered, proc,
      overtaken, edits, spawns>>
transcriptVars ==
    <<telegram, table, calling, reactions, handler, torn, sent, changes, deaths>>
vars == <<part, noteVars, projectVars, browserVars, typingVars, profileVars, transcriptVars>>

\* The other components stay as they are.
OnlyNotes == UNCHANGED <<part, projectVars, browserVars, typingVars, profileVars, transcriptVars>>
OnlyProject == UNCHANGED <<part, noteVars, browserVars, typingVars, profileVars, transcriptVars>>
OnlyBrowser == UNCHANGED <<part, noteVars, projectVars, typingVars, profileVars, transcriptVars>>
OnlyTyping == UNCHANGED <<part, noteVars, projectVars, browserVars, profileVars, transcriptVars>>
OnlyProfiles == UNCHANGED <<part, noteVars, projectVars, browserVars, typingVars, transcriptVars>>
OnlyTranscript == UNCHANGED <<part, noteVars, projectVars, browserVars, typingVars, profileVars>>

Init ==
    /\ part \in Parts
    /\ No!Init /\ Pm!Init /\ Br!Init /\ Ty!Init /\ Tr!Init
    /\ IF part = "profiles" THEN Pr!Init ELSE Pr!InitWith(Pr!Missing)

Next ==
    \/ part = "notes" /\ (\E t \in Calls, f \in No!Files : No!Read(t, f)) /\ OnlyNotes
    \/ part = "notes" /\ (\E t \in Calls, f \in No!Files : No!Write(t, f)) /\ OnlyNotes
    \/ part = "notes" /\ (\E t \in Calls, f \in No!Files : No!Append(t, f)) /\ OnlyNotes
    \/ part = "notes" /\ (\E t \in Calls : No!Truncate(t)) /\ OnlyNotes
    \/ part = "notes" /\ (\E t \in Calls : No!Credit(t)) /\ OnlyNotes
    \/ part = "notes" /\ (\E t \in Calls, left \in SUBSET (1 .. MaxEntries) : No!Fill(t, left)) /\ OnlyNotes
    \/ part = "notes" /\ (\E f \in No!Files, long, valid \in BOOLEAN : No!EditByHand(f, long, valid)) /\ OnlyNotes
    \/ part = "notes" /\ No!Restart /\ OnlyNotes

    \/ part = "project" /\ (\E t \in Calls : Pm!Append(t)) /\ OnlyProject
    \/ part = "project" /\ (\E t \in Calls : Pm!Rewrite(t)) /\ OnlyProject
    \/ part = "project" /\ (\E t \in Calls : Pm!Backup(t)) /\ OnlyProject
    \/ part = "project" /\ (\E t \in Calls : Pm!WriteTmp(t)) /\ OnlyProject
    \/ part = "project" /\ (\E t \in Calls : Pm!Replace(t)) /\ OnlyProject
    \/ part = "project" /\ (\E t \in Calls : Pm!TruncateInPlace(t)) /\ OnlyProject
    \/ part = "project" /\ (\E t \in Calls : Pm!FillInPlace(t)) /\ OnlyProject
    \/ part = "project" /\ Pm!SecondPasses /\ OnlyProject
    \/ part = "project" /\ Pm!Restart /\ OnlyProject

    \/ part = "browser" /\ (\E t \in Tasks, op \in Br!Ops : Br!Start(t, op)) /\ OnlyBrowser
    \/ part = "browser" /\ (\E t \in Tasks : Br!EnsureBrowser(t)) /\ OnlyBrowser
    \/ part = "browser" /\ (\E t \in Tasks : Br!NewContext(t)) /\ OnlyBrowser
    \/ part = "browser" /\ (\E t \in Tasks : Br!EnsurePage(t)) /\ OnlyBrowser
    \/ part = "browser" /\ (\E t \in Tasks : Br!Clear(t)) /\ OnlyBrowser
    \/ part = "browser" /\ (\E t \in Tasks : Br!Close(t)) /\ OnlyBrowser
    \/ part = "browser" /\ (\E t \in Tasks, ok \in BOOLEAN : Br!CloseBrowser(t, ok)) /\ OnlyBrowser
    \/ part = "browser" /\ (\E t \in Tasks, ok \in BOOLEAN : Br!StopDriver(t, ok)) /\ OnlyBrowser
    \/ part = "browser" /\ (\E t \in Tasks, ok \in BOOLEAN : Br!StartDriver(t, ok)) /\ OnlyBrowser
    \/ part = "browser" /\ (\E t \in Tasks, ok \in BOOLEAN : Br!Launch(t, ok)) /\ OnlyBrowser
    \/ part = "browser" /\ (\E t \in Tasks, ok \in BOOLEAN : Br!CloseContext(t, ok)) /\ OnlyBrowser
    \/ part = "browser" /\ (\E t \in Tasks, ok \in BOOLEAN : Br!NewPage(t, ok)) /\ OnlyBrowser
    \/ part = "browser" /\ (\E t \in Tasks, ok \in BOOLEAN : Br!Reset(t, ok)) /\ OnlyBrowser
    \/ part = "browser" /\ (\E t \in Tasks : Br!CutShort(t)) /\ OnlyBrowser
    \/ part = "browser" /\ (\E t \in Tasks : Br!CutDropping(t)) /\ OnlyBrowser
    \/ part = "browser" /\ (\E t \in Tasks : Br!CutStarting(t)) /\ OnlyBrowser
    \/ part = "browser" /\ (\E t \in Tasks : Br!CutLaunching(t)) /\ OnlyBrowser
    \/ part = "browser" /\ (\E t \in Tasks : Br!CutOpening(t)) /\ OnlyBrowser
    \/ part = "browser" /\ (\E b \in chromes : Br!ChromeDies(b)) /\ OnlyBrowser
    \/ part = "browser" /\ Br!PageCloses /\ OnlyBrowser

    \/ part = "typing" /\ (\E c \in Chats : Ty!Message(c)) /\ OnlyTyping
    \/ part = "typing" /\ (\E c \in Chats : Ty!Reminder(c)) /\ OnlyTyping
    \/ part = "typing" /\ (\E c \in Chats : Ty!Replied(c)) /\ OnlyTyping
    \/ part = "typing" /\ (\E who \in Ty!Starters : Ty!Fired(who)) /\ OnlyTyping
    \/ part = "typing" /\ (\E b \in SUBSET buffered : Ty!Kick(b)) /\ OnlyTyping
    \/ part = "typing" /\ (\E b \in SUBSET buffered : Ty!Inject(b)) /\ OnlyTyping
    \/ part = "typing" /\ Ty!KickTypes /\ OnlyTyping
    \/ part = "typing" /\ Ty!Sent /\ OnlyTyping
    \/ part = "typing" /\ Ty!Rearm /\ OnlyTyping
    \/ part = "typing" /\ Ty!SecondPasses /\ OnlyTyping
    \/ part = "typing" /\ (\E d \in deferred : Ty!DeferredDiscard(d)) /\ OnlyTyping
    \/ part = "typing" /\ (\E l \in loops : Ty!LoopEnds(l)) /\ OnlyTyping
    \/ part = "typing" /\ Ty!StopTyping /\ OnlyTyping
    \/ part = "typing" /\ Ty!CancelDiscard /\ OnlyTyping
    \/ part = "typing" /\ Ty!CancelLoop /\ OnlyTyping
    \/ part = "typing" /\ Ty!Continue /\ OnlyTyping

    \/ part = "profiles" /\ Pr!EditPlugins /\ OnlyProfiles
    \/ part = "profiles" /\ (\E x \in Pr!Inputs : Pr!Vanishes(x)) /\ OnlyProfiles
    \/ part = "profiles" /\ Pr!Restored /\ OnlyProfiles
    \/ part = "profiles" /\ Pr!WriteMemory /\ OnlyProfiles
    \/ part = "profiles" /\ Pr!Boot /\ OnlyProfiles
    \/ part = "profiles" /\ Pr!BeginSpawn /\ OnlyProfiles
    \/ part = "profiles" /\ Pr!FinishSpawn /\ OnlyProfiles
    \/ part = "profiles" /\ Pr!SpawnRaises /\ OnlyProfiles
    \/ part = "profiles" /\ Pr!Switch /\ OnlyProfiles
    \/ part = "profiles" /\ Pr!Bind /\ OnlyProfiles
    \/ part = "profiles" /\ Pr!Exit /\ OnlyProfiles
    \/ part = "profiles" /\ Pr!Die /\ OnlyProfiles

    \/ part = "transcript" /\ (\E t \in ToolCalls, chunks \in 1 .. 2 : Tr!Send(t, chunks)) /\ OnlyTranscript
    \/ part = "transcript" /\ (\E t \in ToolCalls : Tr!Deliver(t)) /\ OnlyTranscript
    \/ part = "transcript" /\ (\E t \in ToolCalls : Tr!ChunkFails(t)) /\ OnlyTranscript
    \/ part = "transcript" /\ (\E t \in ToolCalls : Tr!Record(t)) /\ OnlyTranscript
    \/ part = "transcript" /\ (\E t \in ToolCalls, i \in Tr!Ids : Tr!Edit(t, i)) /\ OnlyTranscript
    \/ part = "transcript" /\ (\E t \in ToolCalls : Tr!MarkEdited(t)) /\ OnlyTranscript
    \/ part = "transcript" /\ (\E t \in ToolCalls, i \in Tr!Ids : Tr!Delete(t, i)) /\ OnlyTranscript
    \/ part = "transcript" /\ (\E t \in ToolCalls : Tr!MarkDeleted(t)) /\ OnlyTranscript
    \/ part = "transcript" /\ (\E t \in ToolCalls, i \in Tr!Ids, e \in Emojis : Tr!React(t, i, e)) /\ OnlyTranscript
    \/ part = "transcript" /\ (\E t \in ToolCalls : Tr!LoadReactions(t)) /\ OnlyTranscript
    \/ part = "transcript" /\ (\E t \in ToolCalls : Tr!AddBotReaction(t)) /\ OnlyTranscript
    \/ part = "transcript" /\ (\E i \in Tr!Ids, new \in {{}} \cup {{e} : e \in Emojis} : Tr!PersonReacts(i, new)) /\ OnlyTranscript
    \/ part = "transcript" /\ Tr!OnReaction /\ OnlyTranscript
    \/ part = "transcript" /\ Tr!ApplyUserReaction /\ OnlyTranscript
    \/ part = "transcript" /\ Tr!Restart /\ OnlyTranscript

Spec == Init /\ [][Next]_vars

\* Two of everything that may run at the same time, and the names of both exchanged.
Symmetry == Permutations(Calls)

-----------------------------------------------------------------------------
\* Types of every component's state.
TypeOK ==
    /\ part \in Parts
    /\ part = "notes" => No!TypeOK
    /\ part = "project" => Pm!TypeOK
    /\ part = "browser" => Br!TypeOK
    /\ part = "typing" => Ty!TypeOK
    /\ part = "profiles" => Pr!TypeOK
    /\ part = "transcript" => Tr!TypeOK

\* Memories, skills and project.md: nothing the model never saw is overwritten, an append
\* drops nothing unless it dies half-way, and every version of project.md can be had back
\* from a backup, those of one second and of commits beside each other apart.
ContentKept == (part = "notes" => No!NotesKept) /\ (part = "project" => Pm!BackupCovers)

\* One Playwright driver, and every open context is somebody's, but for those that came up
\* for a render the 30-second limit had cancelled.
ChromiumIsOwned == part = "browser" => Br!OneBrowser /\ Br!ContextsOwned

\* The typing indicator shows in the chats of the turn not replied to, is refreshed while
\* it shows, and goes when nothing waits; a late reply of an aborted turn may hide it.
IndicatorFollowsTurns ==
    part = "typing" => Ty!NoStuckIndicator /\ Ty!Refreshed /\ Ty!TypesUntilReplied

\* What a process may call is what its prompt lists; a private session has no more, unless
\* its switch overtook a process that was being created.
ProfilesAgree == part = "profiles" => Pr!ProfilesAgree

\* A message nothing is under way on is stored as Telegram has it.
RowsFollowTelegram == part = "transcript" => Tr!RowsFollowTelegram

-----------------------------------------------------------------------------
\* The inductive invariant of the part a behaviour is of.
IInv ==
    /\ part \in Parts
    /\ part = "notes" => No!IInv
    /\ part = "project" => Pm!IInv
    /\ part = "browser" => Br!IInv
    /\ part = "typing" => Ty!IInv
    /\ part = "profiles" => Pr!IInv
    /\ part = "transcript" => Tr!IInv
================================================================================
