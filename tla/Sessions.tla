------------------------------- MODULE Sessions --------------------------------
(***************************************************************************)
(* Private chats (hamroh/privacy): every private chat has a claude session *)
(* of its own, all other chats share one.  The switcher puts the worker in *)
(* a turn's session, saves the id of the session it leaves, and tells the  *)
(* tools whose turn it is; the MCP server judges every tool call by that.  *)
(*                                                                         *)
(* A conversation is what a claude session id names; `made' remembers in   *)
(* whose turn each one began.  The worker is reduced to what moves session *)
(* ids: its spec, its session id, and the process with the conversation it *)
(* resumed.  Ids survive in two files, sessions.json and session_id; the   *)
(* bot may stop cleanly or be killed at any moment.                        *)
(***************************************************************************)
EXTENDS Naturals, Sequences, FiniteSets, Functions

CONSTANTS Chats,       \* private chats
          MaxTurns,    \* bound: turns
          MaxCalls,    \* bound: tool calls in flight
          MaxResets,   \* bound: /reset_session by the owner
          MaxFaults    \* bound: crashes, stale ids, wedges, failed saves, exits

Shared == "shared"
Nobody == "nobody"

ASSUME SessionsAssumption == {Shared, Nobody} \cap Chats = {}

Keys == Chats \cup {Shared}
None == 0                              \* no session id
Audiences == {"shared", "private", "both"}

VARIABLES
    \* --- engine and switcher
    phase,        \* "idle", "switching", "opened" (entered), "sent", "turn" (after init)
    finishing,    \* _finish_clean_turn has not come to remember() yet
    want,         \* Engine._turn.key: the session of the batch being handled
    front,        \* sessions of the batch put back at the front of the buffer
    current,      \* SessionSwitcher._current
    sharedId,     \* SessionSwitcher._shared_id
    ids,          \* SessionStore._ids
    \* --- disk
    file,         \* data/sessions.json
    sharedFile,   \* data/session_id
    \* --- worker
    spec,         \* CcWorker.spec: profile and session id
    sid,          \* CcWorker._session_id
    proc,         \* "up", "killed" (told to stop), "down", "stale" (id rejected),
                  \* "spawning" (argv fixed, no process yet), "off"
    live,         \* the process: profile, conversation, and whose turn it is in
    lateInit,     \* an init event to be read whose turn is over or was never opened
    \* --- tools
    turnOf,       \* ToolContext.turn: whose turn it is
    calls,        \* tool calls in flight
    \* --- history
    made,         \* in whose turn each conversation began
    dropped,      \* conversations a reset gave up since the last boot
    kept,         \* conversation the next turn of a session has to resume
    overtaken,    \* a switch came while this process was being created
    slipped,      \* an event the code leaves unguarded has come, see Slip
    turns, resets, faults

engine == <<phase, finishing, want, front>>
switcher == <<current, sharedId, ids>>
disk == <<file, sharedFile>>
worker == <<spec, sid, proc, live, lateInit>>
history == <<made, dropped, kept, overtaken, slipped>>
vars == <<engine, switcher, disk, worker, turnOf, calls, history, turns, resets, faults>>

SessionOfSpec == IF phase = "switching" THEN want ELSE current

Fault == faults < MaxFaults /\ faults' = faults + 1

\* Five events after which a conversation is saved under, or resumed in, another
\* session: a switch that times out, an init event read when its process was told to
\* stop, a stop or the end of a clean turn during a switch, and a switch or a reset
\* while the next process is being created.
Slip == Fault /\ slipped' = TRUE
SlipIf(unguarded) == slipped' = (slipped \/ unguarded)

-----------------------------------------------------------------------------
(* Session switcher *)

SpecFor(k) ==
    [private |-> k # Shared, sid |-> IF k = Shared THEN sharedId' ELSE ids[k]]

\* A plausible slip: only private sessions' ids are saved.
RememberPrivateOnly(saved) ==
    IF current = Shared
    THEN saved /\ UNCHANGED <<ids, file, sharedId>>
    ELSE /\ ids' = [ids EXCEPT ![current] = sid]
         /\ file' = IF saved THEN ids' ELSE file
         /\ UNCHANGED sharedId

\* Save the worker's session id under the current key; `saved' says whether the
\* file was written (memory is updated first).
Remember(saved) ==
    IF current = Shared
    THEN sharedId' = sid /\ saved /\ UNCHANGED <<ids, file>>
    ELSE /\ ids' = [ids EXCEPT ![current] = sid]
         /\ file' = IF saved THEN ids' ELSE file
         /\ UNCHANGED sharedId

\* Engine._enter_session with the batch of session k: the one put back at the
\* front of the buffer first.
Batch(k) ==
    /\ proc # "off" /\ phase = "idle" /\ turns < MaxTurns
    /\ front \in {Nobody, k}
    /\ want' = k /\ turns' = turns + 1

\* A plausible slip: a batch of the session the worker is in binds nobody.
EnterSameUnbound(k) ==
    /\ Batch(k) /\ k = current
    /\ phase' = "opened" /\ front' = Nobody /\ turnOf' = Nobody
    /\ UNCHANGED <<finishing, switcher, disk, worker, calls, history, resets, faults>>

EnterSame(k) ==
    /\ Batch(k) /\ k = current
    /\ phase' = "opened" /\ front' = Nobody /\ turnOf' = k
    /\ UNCHANGED <<finishing, switcher, disk, worker, calls, history, resets, faults>>

\* Kill what runs and let the supervisor bring the next one up.  While the next
\* process is being created there is none to kill: it comes up as it was ordered.
Terminate == proc' = IF proc = "up" THEN "killed" ELSE proc
Overtake == overtaken' = (overtaken \/ proc = "spawning") /\ SlipIf(proc = "spawning")

\* A plausible slip: the tools are told of the new turn before the switch.
BeginSwitchBound(k) ==
    /\ Batch(k) /\ k # current
    /\ Remember(TRUE)
    /\ spec' = SpecFor(k) /\ sid' = spec'.sid
    /\ Terminate /\ Overtake
    /\ phase' = "switching" /\ front' = k /\ turnOf' = k
    /\ UNCHANGED <<finishing, current, sharedFile, live, lateInit, calls, made, dropped, kept, resets, faults>>

\* A plausible slip: the id is saved after the worker took the new spec.
BeginSwitchThenSave(k) ==
    /\ Batch(k) /\ k # current
    /\ spec' = [private |-> k # Shared, sid |-> IF k = Shared THEN sharedId ELSE ids[k]]
    /\ sid' = spec'.sid
    /\ sharedId' = IF current = Shared THEN sid' ELSE sharedId
    /\ ids' = [c \in Chats |-> IF current = c THEN sid' ELSE ids[c]]
    /\ file' = ids'
    /\ Terminate /\ Overtake
    /\ phase' = "switching" /\ front' = k
    /\ UNCHANGED <<finishing, current, sharedFile, live, lateInit, turnOf, calls, made, dropped, kept,
                   resets, faults>>

BeginSwitch(k) ==
    /\ Batch(k) /\ k # current
    /\ Remember(TRUE)
    /\ spec' = SpecFor(k) /\ sid' = spec'.sid
    /\ Terminate /\ Overtake
    /\ phase' = "switching" /\ front' = k
    /\ UNCHANGED <<finishing, current, sharedFile, live, lateInit, turnOf, calls, made, dropped, kept,
                   resets, faults>>

\* sessions.json cannot be written: enter raises, the batch is put back.
SaveFails(k) ==
    /\ Batch(k) /\ k # current /\ current # Shared /\ Fault
    /\ Remember(FALSE)
    /\ front' = k
    /\ UNCHANGED <<phase, finishing, current, sharedFile, worker, turnOf, calls, history, resets>>

\* A process is up, the new one or the one the switch overtook: the wait in
\* switch_session returns, the turn is bound.
SwitchReturns ==
    /\ phase = "switching" /\ proc = "up"
    /\ current' = want /\ turnOf' = want
    /\ phase' = "opened" /\ front' = Nobody
    /\ UNCHANGED <<finishing, want, sharedId, ids, disk, worker, calls, history, turns, resets, faults>>

\* A plausible slip: the batch goes to the end of the buffer.
SwitchTimesOutToBack ==
    /\ phase = "switching" /\ proc \in {"down", "stale", "spawning"} /\ Slip
    /\ phase' = "idle" /\ front' = Nobody
    /\ UNCHANGED <<finishing, want, switcher, disk, worker, turnOf, calls, made, dropped, kept, overtaken,
                   turns, resets>>
\* SWITCH_TIMEOUT_SECONDS (60) passes first, while a crash's backoff (up to 64 s)
\* runs; the worker keeps the new spec.
SwitchTimesOut ==
    /\ phase = "switching" /\ proc \in {"down", "stale", "spawning"} /\ Slip
    /\ phase' = "idle"
    /\ UNCHANGED <<finishing, want, front, switcher, disk, worker, turnOf, calls, made, dropped, kept,
                   overtaken, turns, resets>>

-----------------------------------------------------------------------------
(* Turns and the process *)

\* What is written to a process on its way out is lost; its turn ends by the watchdog.
Send ==
    /\ phase = "opened" /\ proc \in {"up", "killed"}
    /\ phase' = IF proc = "up" THEN "sent" ELSE "idle"
    /\ UNCHANGED <<finishing, want, front, switcher, disk, worker, turnOf, calls, history,
                   turns, resets, faults>>

\* send raises: there is no process to write to.
SendRaises ==
    /\ phase = "opened" /\ proc \in {"down", "stale", "spawning"}
    /\ phase' = "idle"
    /\ UNCHANGED <<finishing, want, front, switcher, disk, worker, turnOf, calls, history,
                   turns, resets, faults>>

\* A turn of session k begins: the first message after a spawn makes the conversation
\* unless one was resumed, and the init event tells the worker its id.
Begun(k) ==
    LET c == IF live.sid = None THEN Len(made) + 1 ELSE live.sid IN
    /\ live' = [live EXCEPT !.sid = c, !.turn = k]
    /\ sid' = c
    /\ made' = IF c > Len(made) THEN Append(made, k) ELSE made
    /\ kept' = [kept EXCEPT ![k] = c]

TurnBegins ==
    /\ phase = "sent" /\ proc = "up" /\ Begun(want)
    /\ phase' = "turn"
    /\ UNCHANGED <<finishing, want, front, switcher, disk, spec, proc, lateInit, turnOf, calls, dropped,
                   overtaken, slipped, turns, resets, faults>>

\* The turn's result, clean or not: the engine takes the next batch from now on.  A
\* follow-up injected too late begins a turn of its own.
TurnEnds ==
    /\ phase = "turn" /\ proc = "up" /\ ~finishing /\ phase' = "idle"
    /\ finishing' \in BOOLEAN /\ lateInit' \in BOOLEAN
    /\ live' = [live EXCEPT !.turn = Nobody]
    /\ UNCHANGED <<want, front, switcher, disk, spec, sid, proc, turnOf, calls, history,
                   turns, resets, faults>>

\* remember() at the end of _finish_clean_turn, after it marked the turn's rows: the
\* next batch may already be switching.
FinishTurn ==
    /\ finishing /\ proc # "off" /\ finishing' = FALSE
    /\ Remember(TRUE)
    /\ SlipIf(phase = "switching")
    /\ UNCHANGED <<phase, want, front, current, sharedFile, worker, turnOf, calls, made, dropped, kept,
                   overtaken, turns, resets, faults>>

\* Its init event, or that of a turn closed before it was read: a switch or a reset
\* may have overtaken it.
LateInit ==
    /\ lateInit /\ proc \in {"up", "killed"} /\ Fault
    /\ lateInit' = FALSE /\ Begun(current) /\ SlipIf(proc = "killed")
    /\ UNCHANGED <<engine, switcher, disk, spec, proc, turnOf, calls, dropped, overtaken, turns, resets>>

\* The turn is closed before its init event was read.
Unread == lateInit' \in {lateInit, lateInit \/ (phase = "sent" /\ proc = "up")}

\* Breaker or watchdog: the turn is closed locally, the process killed.
Abort ==
    /\ phase \in {"sent", "turn"} /\ proc = "up" /\ Fault
    /\ phase' = "idle" /\ proc' = "killed" /\ Unread
    /\ UNCHANGED <<finishing, want, front, switcher, disk, spec, sid, live, turnOf, calls, history,
                   turns, resets>>

Gone == proc' = "down" /\ lateInit' = FALSE

ProcessExits ==
    /\ proc = "killed" /\ Gone
    /\ UNCHANGED <<engine, switcher, disk, spec, sid, live, turnOf, calls, history, turns, resets, faults>>

Crash ==
    /\ proc = "up" /\ Gone /\ Fault
    /\ phase' = IF phase \in {"sent", "turn"} THEN "idle" ELSE phase
    /\ UNCHANGED <<finishing, want, front, switcher, disk, spec, sid, live, turnOf, calls, history,
                   turns, resets>>

Forget(k) == kept' = [kept EXCEPT ![k] = None]

\* claude rejects the id it was to resume; the notifier unlinks data/session_id
\* and writes to the owner before the worker drops the id.
StaleExit ==
    /\ proc = "up" /\ ~overtaken /\ spec.sid # None /\ live.sid = spec.sid
    /\ phase # "turn" /\ Fault
    /\ proc' = "stale" /\ lateInit' = FALSE
    /\ sharedFile' = None
    /\ phase' = IF phase = "sent" THEN "idle" ELSE phase
    /\ UNCHANGED <<finishing, want, front, switcher, file, spec, sid, live, turnOf, calls, history,
                   turns, resets>>

\* Whatever session the worker is in by now loses its id.
StaleDrop ==
    /\ proc = "stale" /\ proc' = "down"
    /\ spec' = [spec EXCEPT !.sid = None] /\ sid' = None
    /\ Forget(SessionOfSpec)
    /\ UNCHANGED <<engine, switcher, disk, live, lateInit, turnOf, calls, made, dropped, overtaken, slipped,
                   turns, resets, faults>>

Resumed(c) == live' = [private |-> spec.private, sid |-> c, turn |-> Nobody]

\* start() fixes the argv, profile and conversation, and then waits for the process.
\* A process that began its conversation itself is not respawned into it.
BeginSpawn ==
    /\ proc = "down" /\ proc' = "spawning" /\ Resumed(spec.sid) /\ overtaken' = FALSE
    /\ IF phase # "switching" /\ spec.sid = None THEN Forget(current) ELSE UNCHANGED kept
    /\ UNCHANGED <<engine, switcher, disk, spec, sid, lateInit, turnOf, calls, made, dropped, slipped,
                   turns, resets, faults>>

\* It comes up with what it was ordered with, whatever the spec says by now.
FinishSpawn ==
    /\ proc = "spawning" /\ proc' = "up"
    /\ UNCHANGED <<engine, switcher, disk, spec, sid, live, lateInit, turnOf, calls, history,
                   turns, resets, faults>>

\* A plausible slip: the spec keeps the id.
ResetKeepsSpec ==
    /\ proc # "off" /\ resets < MaxResets /\ resets' = resets + 1
    /\ sid' = None
    /\ sharedFile' = None
    /\ dropped' = dropped \cup ({sid} \ {None})
    /\ Forget(SessionOfSpec)
    /\ phase' = IF phase \in {"sent", "turn"} THEN "idle" ELSE phase
    /\ Terminate /\ Unread /\ SlipIf(proc = "spawning" /\ live.sid # None)
    /\ UNCHANGED <<finishing, want, front, switcher, file, spec, live, turnOf, calls, made,
                   overtaken, turns, faults>>
\* /reset_session, at any moment: of a process in the middle of its creation it does
\* not take the conversation away.
ResetSession ==
    /\ proc # "off" /\ resets < MaxResets /\ resets' = resets + 1
    /\ spec' = [spec EXCEPT !.sid = None] /\ sid' = None
    /\ sharedFile' = None
    /\ dropped' = dropped \cup ({sid} \ {None})
    /\ Forget(SessionOfSpec)
    /\ phase' = IF phase \in {"sent", "turn"} THEN "idle" ELSE phase
    /\ Terminate /\ Unread /\ SlipIf(proc = "spawning" /\ live.sid # None)
    /\ UNCHANGED <<finishing, want, front, switcher, file, live, turnOf, calls, made, overtaken,
                   turns, faults>>

-----------------------------------------------------------------------------
(* Tool calls *)

\* call_refusal and reply_refusal: a tool of the wrong audience, or a private turn
\* reaching another chat.  Chats that are not private are what `Shared' stands for.
Refused(chat, audience) ==
    IF turnOf = Shared THEN audience = "private"
    ELSE audience = "shared" \/ chat # turnOf

\* A message tool, called by the process in its turn: judged, then sent.
CallBegins(chat, audience) ==
    /\ proc \in {"up", "killed"} /\ live.turn # Nobody
    /\ Cardinality(calls) < MaxCalls
    /\ ~Refused(chat, audience)
    /\ calls' = calls \cup {[from |-> live.turn, chat |-> chat, audience |-> audience]}
    /\ UNCHANGED <<engine, switcher, disk, worker, turnOf, history, turns, resets, faults>>

\* Telegram confirms; the row goes to the database of the turn then running.
CallRecords(c) ==
    /\ proc # "off" /\ c \in calls /\ calls' = calls \ {c}
    /\ UNCHANGED <<engine, switcher, disk, worker, turnOf, history, turns, resets, faults>>

-----------------------------------------------------------------------------
(* Start and stop of the bot *)

\* SIGTERM: the ids are saved before anything is stopped.
Stop ==
    /\ proc # "off" /\ Fault
    /\ SlipIf(phase = "switching") /\ finishing' = FALSE
    /\ Remember(TRUE)
    /\ sharedFile' = IF sharedId' # None THEN sharedId' ELSE sharedFile
    /\ proc' = "off" /\ lateInit' = FALSE /\ calls' = {}
    /\ UNCHANGED <<phase, want, front, current, spec, sid, live, turnOf, made, dropped, kept, overtaken,
                   turns, resets>>

\* SIGKILL: what the files hold is what the next start knows.
Kill ==
    /\ proc # "off" /\ Fault
    /\ proc' = "off" /\ lateInit' = FALSE /\ calls' = {}
    /\ kept' = [k \in Keys |-> IF k = Shared THEN sharedFile ELSE file[k]]
    /\ dropped' = {} /\ finishing' = FALSE
    /\ UNCHANGED <<phase, want, front, switcher, disk, spec, sid, live, turnOf, made, overtaken, slipped,
                   turns, resets>>

Boot ==
    /\ proc = "off" /\ proc' = "up"
    /\ spec' = [private |-> FALSE, sid |-> sharedFile]
    /\ sid' = sharedFile
    /\ live' = [private |-> FALSE, sid |-> sharedFile, turn |-> Nobody]
    /\ current' = Shared /\ sharedId' = sharedFile /\ ids' = file
    /\ phase' = "idle" /\ front' = Nobody /\ turnOf' = Shared
    /\ overtaken' = FALSE
    /\ UNCHANGED <<finishing, want, disk, lateInit, calls, made, dropped, kept, slipped, turns, resets, faults>>

Init ==
    /\ phase = "idle" /\ finishing = FALSE /\ want = Shared /\ front = Nobody
    /\ current = Shared /\ sharedId = None /\ ids = [c \in Chats |-> None]
    /\ file = ids /\ sharedFile = None
    /\ spec = [private |-> FALSE, sid |-> None] /\ sid = None
    /\ proc = "up" /\ live = [private |-> FALSE, sid |-> None, turn |-> Nobody]
    /\ lateInit = FALSE /\ turnOf = Shared /\ calls = {}
    /\ made = <<>> /\ dropped = {} /\ kept = [k \in Keys |-> None]
    /\ overtaken = FALSE /\ slipped = FALSE
    /\ turns = 0 /\ resets = 0 /\ faults = 0

Next ==
    \/ \E k \in Keys : EnterSame(k) \/ BeginSwitch(k) \/ SaveFails(k)
    \/ SwitchReturns \/ SwitchTimesOut
    \/ Send \/ SendRaises \/ TurnBegins \/ TurnEnds \/ FinishTurn \/ LateInit \/ Abort
    \/ ProcessExits \/ Crash \/ StaleExit \/ StaleDrop \/ BeginSpawn \/ FinishSpawn
    \/ ResetSession
    \/ \E chat \in Keys, audience \in Audiences : CallBegins(chat, audience)
    \/ \E c \in calls : CallRecords(c)
    \/ Stop \/ Kill \/ Boot

Spec == Init /\ [][Next]_vars

-----------------------------------------------------------------------------
(* Properties *)

\* Types: every saved id is one claude has given out.
TypeOK ==
    LET Ids == 0..Len(made) IN
    /\ phase \in {"idle", "switching", "opened", "sent", "turn"}
    /\ {want, current, turnOf} \subseteq Keys /\ front \in Keys \cup {Nobody}
    /\ ids \in [Chats -> Ids] /\ file \in [Chats -> Ids]
    /\ {sharedId, sharedFile, sid} \subseteq Ids
    /\ spec \in [private : BOOLEAN, sid : Ids]
    /\ proc \in {"up", "killed", "down", "stale", "spawning", "off"}
    /\ live \in [private : BOOLEAN, sid : Ids, turn : Keys \cup {Nobody}]
    /\ lateInit \in BOOLEAN
    /\ calls \subseteq [from : Keys, chat : Keys, audience : Audiences]
    /\ made \in Seq(Keys) /\ dropped \subseteq Ids /\ kept \in [Keys -> Ids]
    /\ {finishing, overtaken, slipped} \subseteq BOOLEAN

\* A turn runs in a process with the tool profile of its session, whatever timed
\* out, crashed or was reset on the way: a batch that waits for its session stays
\* in front of every other.  The one way out is a switch while a respawn is under
\* way: the process it overtook lets the switch return.
TurnHasItsTools ==
    phase = "turn" /\ proc = "up" /\ ~overtaken => live.private = (want # Shared)

Home(c, k) == c = None \/ made[c] = k

\* Every saved id, in memory or on disk, belongs to the session it is saved for,
\* but for the five events of Slip.
IdsStayHome ==
    ~slipped =>
        /\ Home(sharedId, Shared) /\ Home(sharedFile, Shared)
        /\ \A k \in Chats : Home(ids[k], k) /\ Home(file[k], k)

\* What a private chat said is never in the context of another chat's turn, and
\* its turns never in another's: the conversation a turn runs in began in its
\* own session.  A process a switch overtook aside, a stop during a switch breaks it.
TurnRunsAtHome ==
    phase = "turn" /\ proc = "up" /\ ~overtaken => made[live.sid] = want

\* A private turn's tool calls reach its own chat only and use the tools meant for
\* it, even those of a process whose turn was aborted and those that overlap the
\* switch to another session; tools of private chats act for nobody else.
PrivateCallsStayHome ==
    \A c \in calls :
        IF c.from = Shared THEN c.audience # "private"
        ELSE c.chat = c.from /\ c.audience # "shared"

\* The conversation a session was in goes on in its next turn, through switches,
\* aborts of a resumed process and clean restarts; a reset, a rejected id and a
\* respawn of a process that was not resumed are the ways to lose it, the five
\* events of Slip apart.
ConversationGoesOn ==
    [][phase = "sent" /\ phase' = "turn" /\ ~slipped /\ kept[want] # None
          => live'.sid = kept[want]]_vars

\* A conversation given up by a reset is not resumed before the bot is killed, the
\* events of Slip apart: a reset overtaken by a respawn is one of them.
ResetIsFinal ==
    [][phase = "sent" /\ phase' = "turn" /\ ~slipped => live'.sid \notin dropped]_vars

-----------------------------------------------------------------------------
(* The inductive invariant *)

\* The worker's spec is the profile of the session being entered or entered; when
\* a switch timed out, that of the batch put back in front.
SpecIsOfSession ==
    /\ phase = "switching" => front = want /\ want # current /\ spec.private = (want # Shared)
    /\ phase = "idle" => \/ spec.private = (current # Shared)
                         \/ front \notin {Nobody, current} /\ spec.private = (front # Shared)
    /\ phase \in {"opened", "sent", "turn"} =>
          want = current /\ spec.private = (current # Shared)
    /\ proc \in {"up", "spawning"} /\ ~overtaken => live.private = spec.private

\* The tools are bound to the session the switcher is in, and so is the turn of
\* any process that can still call them.
TurnIsBound ==
    /\ turnOf = current
    /\ proc \in {"up", "killed"} => live.turn \in {Nobody, current}
    /\ phase = "switching" /\ proc = "up" => live.turn = Nobody
    /\ proc = "spawning" => live.turn = Nobody
    /\ lateInit => proc = "killed" \/ (proc = "up" /\ phase # "switching")

\* What the worker would save or resume belongs to the session its spec is for.
WorkerStaysHome ==
    ~slipped => /\ Home(sid, SessionOfSpec) /\ Home(spec.sid, SessionOfSpec)
                /\ proc \in {"up", "spawning"} => Home(live.sid, SessionOfSpec)

\* A dropped conversation is left only where it will be overwritten: under the key
\* of the session the worker is in.
DroppedIsGone ==
    /\ None \notin dropped
    /\ ~slipped =>
        /\ {sid, spec.sid, sharedFile} \cap dropped = {}
        /\ proc \in {"up", "spawning"} => live.sid \notin dropped
        /\ SessionOfSpec # Shared => sharedId \notin dropped
        /\ \A k \in Chats : k # SessionOfSpec => {ids[k], file[k]} \cap dropped = {}
        /\ proc = "off" => \A k \in Chats : file[k] \notin dropped

\* The conversation to go on with is what the worker holds for the session it is
\* in, and what is saved, in memory and on disk, for every other.
KeptIsSaved ==
    LET Kept(c, k) == kept[k] # None => c = kept[k]
        S == SessionOfSpec IN
    ~slipped =>
        /\ proc = "off" => Kept(sharedFile, Shared) /\ \A k \in Chats : Kept(file[k], k)
        /\ proc # "off" =>
            /\ S # Shared => Kept(sharedId, Shared)
            /\ \A k \in Chats \ {S} : Kept(ids[k], k) /\ Kept(file[k], k)
            /\ Kept(sid, S)
            /\ (spec.sid = None /\ phase # "switching") \/ Kept(spec.sid, S)
            /\ proc \in {"up", "spawning"} => Kept(live.sid, S) /\ spec.sid \in {None, live.sid}

IInv ==
    /\ TypeOK /\ SpecIsOfSession /\ TurnIsBound /\ PrivateCallsStayHome
    /\ IdsStayHome /\ WorkerStaysHome /\ DroppedIsGone /\ KeptIsSaved

=============================================================================
