------------------------------- MODULE CcWorker --------------------------------
(***************************************************************************)
(* The Claude Code worker (hamroh/cc_worker): one claude subprocess, the   *)
(* supervisor that respawns it, the liveness watchdog and the tool-error   *)
(* breaker that kill it, session resets and switches, and the turn channel *)
(* to the engine (send, inject, stream-json events, result queue).         *)
(*                                                                         *)
(* The subprocess itself is external.  It reads stdin messages in order,   *)
(* begins a turn with a system/init event, may fold further messages into  *)
(* the running turn, and ends the turn with a result event.  Its events    *)
(* wait in the stdout pipe until the reader task takes them, whatever the  *)
(* worker did in between.  An exit is seen once the pipe was read to its   *)
(* end or, after a kill, once the reader was cancelled with the rest.      *)
(* Time is abstracted: a sleep or a timeout may end at any moment.         *)
(***************************************************************************)
EXTENDS Integers, Sequences

CONSTANTS CrashLimit,     \* Config.crash_limit
          ToolErrorMax,   \* Config.tool_error_max_count
          BootSession,    \* session id read at boot, 0 if none
          MaxSends, MaxInjects, MaxResets, MaxSwitches, MaxCrashes, \* bounds
          MaxDisturbed,   \* bound: injects, resets, switches and crashes together
          MaxUnread       \* bound: events in the stdout pipe

ASSUME CcWorkerAssumption ==
    /\ CrashLimit \in Nat \ {0}
    /\ ToolErrorMax \in Nat \ {0}
    /\ BootSession \in Nat
    /\ MaxSends \in Nat
    /\ MaxInjects \in Nat
    /\ MaxResets \in Nat
    /\ MaxSwitches \in Nat
    /\ MaxCrashes \in Nat
    /\ MaxDisturbed \in Nat
    /\ MaxUnread \in Nat

VARIABLES
    \* the worker's sessions, process and supervisor
    spec,          \* session id in self.spec (0: None)
    sid,           \* self._session_id
    proc,          \* "none" (_proc is None), "up", or "dead" (returncode set)
    supervisor,    \* where _supervise_loop is
    reason,        \* self._supervisor_abort_reason
    crashes,       \* len(self._crash_times)
    marked,        \* a stale-session marker is in self._stderr_tail
    spawned,       \* the self._spawned event
    terminating,   \* callers inside _terminate_proc, waiting for the exit
    \* the worker's turn
    current,       \* self._current_turn, as the ordinal of its send (0: None)
    awaitingInit,  \* self._awaiting_turn_init
    toolErrors,    \* self._turn_tool_error_count
    errorWatch,    \* the tool-error window watchdog is armed
    results,       \* self._result_queue
    fallback,      \* self._inject_queue, as its length
    \* the claude process
    live,          \* session it runs (0: a new one, not yet named)
    nextId,        \* next session id the CLI will make up
    stdin,         \* messages written and not yet read: send ordinals, 0 = inject
    cli,           \* the turn the CLI is running: sends made when it began, and the
                   \* last of them it has read
    stdout,        \* events written and not yet read
    \* the engine's side of the calls
    phase,         \* where the engine is between two results
    sends, injecting, injects, resets, switches, exits,
    \* history
    overlapped     \* sends made while the init of an earlier CLI turn was unread

superVars  == <<spec, sid, supervisor, reason, crashes, marked, spawned>>
turnVars   == <<current, awaitingInit, results>>
errorVars  == <<toolErrors, errorWatch>>
procVars   == <<live, nextId, stdin, cli>>
cliVars    == <<procVars, stdout>>
engineVars == <<phase, sends, injecting, injects, resets, switches, exits, overlapped>>
vars == <<superVars, proc, terminating, turnVars, errorVars, fallback, cliVars,
          engineVars>>

Reasons == {"none", "session-reset", "session-switch", "tool-error-limit",
            "liveness-wedge"}
Disturbed == injects + resets + switches + exits
NoTurn == [began |-> 0, read |-> -1]

--------------------------------------------------------------------------------
(* Parts of the handlers *)

\* _terminate_proc up to its wait: nothing when there is no process, a process
\* that has exited is dropped at once, a live one is signalled and awaited.
Terminate(who) ==
    /\ proc' = IF proc = "dead" THEN "none" ELSE proc
    /\ terminating' = IF proc = "up" THEN terminating \cup {who} ELSE terminating

\* An answer put on the result queue for the turn in flight; e is the event it comes
\* from, if any.
Outcome(kind, e) == [turn |-> current, kind |-> kind, began |-> e.began,
                     read |-> current = e.read]

\* A plausible slip: the answer is queued and the turn stays in flight.
AbortTurnLeavingTurn(kind) ==
    /\ results' = Append(results, Outcome(kind, NoTurn))
    /\ awaitingInit' = FALSE /\ UNCHANGED current

\* _abort_turn_locally, and the sentinel of reset_session.
AbortTurn(kind) ==
    /\ results' = Append(results, Outcome(kind, NoTurn))
    /\ current' = 0
    /\ awaitingInit' = FALSE

\* Plausible slips: the gate looks at one of its two conditions only.
CollectingWithoutTurn == ~awaitingInit
CollectingBeforeInit == current # 0

\* _handle_event's gate: without a turn, or before that turn's own init, an
\* event is dropped.
Collecting == current # 0 /\ ~awaitingInit

Init ==
    /\ spec = BootSession /\ sid = BootSession /\ live = BootSession
    /\ proc = "up" /\ supervisor = "watch" /\ reason = "none" /\ crashes = 0
    /\ marked = FALSE /\ spawned = TRUE /\ terminating = {}
    /\ current = 0 /\ awaitingInit = FALSE /\ results = <<>> /\ fallback = 0
    /\ toolErrors = 0 /\ errorWatch = FALSE
    /\ nextId = BootSession + 1 /\ stdin = <<>> /\ cli = NoTurn
    /\ stdout = <<>> /\ overlapped = {}
    /\ phase = "idle" /\ sends = 0 /\ injecting = 0 /\ injects = 0
    /\ resets = 0 /\ switches = 0 /\ exits = 0

--------------------------------------------------------------------------------
(* Calls from the engine *)

\* The engine marks itself processing: a kick, a heartbeat continuation or a
\* silent-stop nudge is about to send.
BeginTurn ==
    /\ phase = "idle"
    /\ phase' = "opened"
    /\ UNCHANGED <<superVars, proc, terminating, turnVars, errorVars, fallback,
                   cliVars, sends, injecting, injects, resets, switches, exits, overlapped>>

\* switch_session, called between turns: the first half, up to the wait for
\* the new process.
SwitchSession(target) ==
    /\ phase = "opened" /\ switches < MaxSwitches /\ Disturbed < MaxDisturbed
    /\ target = 0 \/ target # sid
    /\ switches' = switches + 1
    /\ phase' = "switching"
    /\ spec' = target /\ sid' = target
    /\ spawned' = FALSE
    /\ reason' = "session-switch"
    /\ Terminate("switch")
    /\ UNCHANGED <<supervisor, crashes, marked, turnVars, errorVars, fallback,
                   cliVars, sends, injecting, injects, resets, exits, overlapped>>

SwitchReturns ==
    /\ phase = "switching" /\ "switch" \notin terminating /\ spawned
    /\ phase' = "opened"
    /\ UNCHANGED <<superVars, proc, terminating, turnVars, errorVars, fallback,
                   cliVars, sends, injecting, injects, resets, switches, exits, overlapped>>

\* SWITCH_TIMEOUT_SECONDS passed without a new process; the engine puts the
\* batch back and tries again later.
SwitchTimesOut ==
    /\ phase = "switching" /\ "switch" \notin terminating /\ ~spawned
    /\ phase' = "idle"
    /\ UNCHANGED <<superVars, proc, terminating, turnVars, errorVars, fallback,
                   cliVars, sends, injecting, injects, resets, switches, exits, overlapped>>

InitUnread == \E i \in DOMAIN stdout : stdout[i].type = "init"

\* send: with no process it raises before it touches the turn; with one that
\* has exited the write raises after the turn was set.
SendTurn ==
    /\ phase = "opened" /\ sends < MaxSends
    /\ IF proc = "none"
       THEN /\ phase' = "refused"
            /\ UNCHANGED <<sends, turnVars, errorVars, stdin, overlapped>>
       ELSE /\ phase' = "sent"
            /\ sends' = sends + 1
            /\ current' = sends + 1
            /\ awaitingInit' = TRUE
            /\ toolErrors' = 0 /\ errorWatch' = FALSE
            /\ stdin' = IF proc = "up" THEN Append(stdin, sends + 1) ELSE stdin
            /\ overlapped' = IF InitUnread THEN overlapped \cup {sends + 1} ELSE overlapped
            /\ UNCHANGED results
    /\ UNCHANGED <<superVars, proc, terminating, fallback, live, nextId, cli, stdout,
                   injecting, injects, resets, switches, exits>>

\* The engine takes messages for the running turn; it formats them before it
\* calls inject, so the call may come after the turn has ended.
TakeForInject ==
    /\ phase # "idle" /\ injects < MaxInjects /\ Disturbed < MaxDisturbed
    /\ injects' = injects + 1
    /\ injecting' = injecting + 1
    /\ UNCHANGED <<superVars, proc, terminating, turnVars, errorVars, fallback,
                   cliVars, phase, sends, resets, switches, exits, overlapped>>

\* inject: to stdin, or to the fallback queue nobody reads.
Inject ==
    /\ injecting > 0
    /\ injecting' = injecting - 1
    /\ IF proc = "up"
       THEN stdin' = Append(stdin, 0) /\ UNCHANGED fallback
       ELSE fallback' = fallback + 1 /\ UNCHANGED stdin
    /\ UNCHANGED <<superVars, proc, terminating, turnVars, errorVars, live,
                   nextId, cli, stdout, phase, sends, injects, resets, switches, exits,
                   overlapped>>

\* A plausible slip: the result is read and left on the queue.
TakeResultPeeks ==
    /\ phase \in {"sent", "refused"} /\ results # <<>>
    /\ phase' = "idle"
    /\ UNCHANGED <<superVars, proc, terminating, turnVars, errorVars, fallback, cliVars,
                   sends, injecting, injects, resets, switches, exits, overlapped>>

\* wait_for_result.
TakeResult ==
    /\ phase \in {"sent", "refused"} /\ results # <<>>
    /\ results' = Tail(results)
    /\ phase' = "idle"
    /\ UNCHANGED <<superVars, proc, terminating, current, awaitingInit, errorVars,
                   fallback, cliVars, sends, injecting, injects, resets,
                   switches, exits, overlapped>>

\* reset_session, from the owner's command or after an API error.
ResetSession ==
    /\ resets < MaxResets /\ Disturbed < MaxDisturbed
    /\ resets' = resets + 1
    /\ spec' = 0 /\ sid' = 0
    /\ reason' = "session-reset"
    /\ IF current # 0
       THEN AbortTurn("session-reset")
       ELSE awaitingInit' = FALSE /\ UNCHANGED <<current, results>>
    /\ Terminate("reset")
    /\ UNCHANGED <<supervisor, crashes, marked, spawned, errorVars, fallback,
                   cliVars, phase, sends, injecting, injects, switches, exits, overlapped>>

\* stop, after the engine's tasks were cancelled: both background tasks are
\* cancelled and the process is terminated.
Stop ==
    /\ supervisor' = "stopped"
    /\ errorWatch' = FALSE
    /\ Terminate("stop")
    /\ UNCHANGED <<spec, sid, reason, crashes, marked, spawned, turnVars,
                   toolErrors, fallback, cliVars, engineVars>>

--------------------------------------------------------------------------------
(* The claude process *)

Emit(event) ==
    /\ proc = "up" /\ Len(stdout) < MaxUnread
    /\ stdout' = Append(stdout, event)
    /\ UNCHANGED <<superVars, proc, terminating, turnVars, errorVars, fallback, engineVars>>

\* The CLI begins a turn on the next message; its init names the session.
CliBegin ==
    /\ cli = NoTurn /\ stdin # <<>>
    /\ cli' = [began |-> sends, read |-> Head(stdin)]
    /\ stdin' = Tail(stdin)
    /\ live' = IF live = 0 THEN nextId ELSE live
    /\ nextId' = IF live = 0 THEN nextId + 1 ELSE nextId
    /\ Emit([type |-> "init", began |-> sends, read |-> 0])

\* The CLI reads a further message into the turn it is running.
CliFold ==
    /\ proc = "up" /\ cli # NoTurn /\ stdin # <<>>
    /\ cli' = [cli EXCEPT !.read = IF Head(stdin) = 0 THEN @ ELSE Head(stdin)]
    /\ stdin' = Tail(stdin)
    /\ UNCHANGED <<superVars, proc, terminating, turnVars, errorVars, fallback,
                   live, nextId, stdout, engineVars>>

\* A tool result; whether the tool failed is chosen when it is read.
CliToolResult ==
    /\ cli # NoTurn
    /\ Emit([type |-> "tool", began |-> cli.began, read |-> 0])
    /\ UNCHANGED procVars

\* The result ends the CLI's turn.
CliResult ==
    /\ cli # NoTurn
    /\ cli' = NoTurn
    /\ Emit([type |-> "result", began |-> cli.began, read |-> cli.read])
    /\ UNCHANGED <<live, nextId, stdin>>

\* The exit, as the supervisor sees it: the reader tasks have ended, every
\* caller of _terminate_proc finishes, and the abort reason is read and cleared.
ProcessGone ==
    /\ proc' = IF terminating = {} THEN "dead" ELSE "none"
    /\ terminating' = {}
    /\ stdin' = <<>> /\ cli' = NoTurn /\ stdout' = <<>>
    /\ UNCHANGED <<spec, sid, spawned, turnVars, errorVars, fallback, live, nextId,
                   overlapped>>

\* _run_crash_recovery: crashes that left the window are forgotten, this one
\* is counted, and at the limit CrashLoop ends the supervisor.
ChargeCrash ==
    \E kept \in 0..crashes :
        /\ crashes' = kept + 1
        /\ supervisor' = IF kept + 1 >= CrashLimit THEN "gaveup" ELSE "backoff"

\* _supervise_loop from the exit to its next sleep.
ClassifyExit ==
    IF supervisor = "stopped"
    THEN UNCHANGED <<supervisor, reason, crashes>>
    ELSE /\ reason' = "none"
         /\ IF reason # "none"
            THEN /\ supervisor' = IF reason = "session-switch" THEN "respawn" ELSE "pause"
                 /\ UNCHANGED crashes
            ELSE IF spec # 0 /\ marked'
                 THEN supervisor' = "stale" /\ UNCHANGED crashes
                 ELSE ChargeCrash

\* The process exits because _terminate_proc signalled it; the reader is cancelled
\* with what it has not read.
CliTerminated ==
    /\ proc = "up" /\ terminating # {}
    /\ ProcessGone
    /\ UNCHANGED <<marked, phase, sends, injecting, injects, resets, switches, exits>>
    /\ ClassifyExit

\* The process exits by itself, and the pipe is read to its end (_drain_readers).
\* rejected: its --resume id was refused, which it writes to stderr; older lines
\* may leave the ten-line tail.
CliCrash(rejected) ==
    /\ proc = "up" /\ stdout = <<>> /\ exits < MaxCrashes /\ Disturbed < MaxDisturbed
    /\ rejected => live # 0 /\ cli = NoTurn
    /\ exits' = exits + 1
    /\ ProcessGone
    /\ marked' \in IF rejected THEN {TRUE} ELSE {FALSE, marked}
    /\ ClassifyExit
    /\ UNCHANGED <<phase, sends, injecting, injects, resets, switches>>

--------------------------------------------------------------------------------
(* The stdout reader (_read_stdout, _handle_event): one event at a time *)

Read(type) ==
    /\ proc = "up" /\ stdout # <<>> /\ Head(stdout).type = type
    /\ stdout' = Tail(stdout)
    /\ UNCHANGED <<spec, supervisor, crashes, marked, spawned, fallback, procVars, engineVars>>

\* An init names the session and disarms the gate, whichever message it is for.
ReadInit ==
    /\ Read("init")
    /\ sid' = live
    /\ awaitingInit' = FALSE
    /\ UNCHANGED <<reason, proc, terminating, current, results, errorVars>>

\* An event the gate drops.
ReadDropped ==
    /\ ~Collecting
    /\ Read("tool") \/ Read("result")
    /\ UNCHANGED <<sid, reason, proc, terminating, turnVars, errorVars>>

\* A failed tool result (_record_tool_error).  At the limit the breaker aborts
\* the turn and kills the process, unless its previous kill is still running.
ReadToolError ==
    /\ Read("tool") /\ Collecting
    /\ toolErrors' = IF toolErrors < ToolErrorMax THEN toolErrors + 1 ELSE toolErrors
    /\ IF toolErrors + 1 >= ToolErrorMax /\ "breaker" \notin terminating
       THEN /\ reason' = "tool-error-limit"
            /\ AbortTurn("tool-error-limit")
            /\ errorWatch' = FALSE
            /\ Terminate("breaker")
       ELSE /\ errorWatch' = (errorWatch \/ toolErrors = 0)
            /\ UNCHANGED <<reason, turnVars, proc, terminating>>
    /\ UNCHANGED sid

\* A successful tool result forgets the burst.
ReadToolOk ==
    /\ Read("tool") /\ Collecting
    /\ toolErrors' = 0 /\ errorWatch' = FALSE
    /\ UNCHANGED <<sid, reason, proc, terminating, turnVars>>

\* The result event (_on_result_event) ends the worker's turn.
ReadResult ==
    /\ Read("result") /\ Collecting
    /\ results' = Append(results, Outcome("result", Head(stdout)))
    /\ current' = 0
    /\ errorWatch' = FALSE
    /\ UNCHANGED <<sid, reason, proc, terminating, awaitingInit, toolErrors>>

--------------------------------------------------------------------------------
(* The worker's background tasks *)

\* _run_stale_recovery once the on_stale_session hook has returned.
DropStaleSession ==
    /\ supervisor = "stale"
    /\ spec' = 0 /\ sid' = 0
    /\ supervisor' = "pause"
    /\ UNCHANGED <<reason, crashes, marked, spawned, proc, terminating, turnVars,
                   errorVars, fallback, cliVars, engineVars>>

\* A plausible slip: nothing respawns after a session switch.
BeginSpawnNotAfterSwitch ==
    /\ supervisor \in {"pause", "backoff"}
    /\ supervisor' = "spawning"
    /\ proc' = "none"
    /\ live' = spec
    /\ UNCHANGED <<spec, sid, reason, crashes, marked, spawned, terminating,
                   turnVars, errorVars, fallback, nextId, stdin, cli, stdout, engineVars>>

\* The pause is over: the old process is dropped and start() builds the argv
\* from the spec as it is now.
BeginSpawn ==
    /\ supervisor \in {"pause", "backoff", "respawn"}
    /\ supervisor' = "spawning"
    /\ proc' = "none"
    /\ live' = spec
    /\ UNCHANGED <<spec, sid, reason, crashes, marked, spawned, terminating,
                   turnVars, errorVars, fallback, nextId, stdin, cli, stdout, engineVars>>

\* start() raises, building the argv or creating the process: the supervise task
\* ends with it, the old process already dropped.
SpawnFails ==
    /\ supervisor \in {"pause", "backoff", "respawn", "spawning"}
    /\ supervisor' = "failed"
    /\ proc' = "none"
    /\ UNCHANGED <<spec, sid, reason, crashes, marked, spawned, terminating,
                   turnVars, errorVars, fallback, cliVars, engineVars>>

\* create_subprocess_exec returned.
FinishSpawn ==
    /\ supervisor = "spawning"
    /\ supervisor' = "watch"
    /\ proc' = "up" /\ spawned' = TRUE
    /\ UNCHANGED <<spec, sid, reason, crashes, marked, terminating, turnVars,
                   errorVars, fallback, cliVars, engineVars>>

\* Plausible slips: the watchdog kills without a reason, or it waits for an init
\* that may never come.
LivenessWedgeUnexplained ==
    /\ supervisor # "stopped" /\ proc = "up" /\ current # 0
    /\ "liveness" \notin terminating
    /\ AbortTurn("liveness-wedge")
    /\ errorWatch' = FALSE
    /\ Terminate("liveness")
    /\ UNCHANGED <<spec, sid, supervisor, reason, crashes, marked, spawned, toolErrors,
                   fallback, cliVars, engineVars>>

LivenessWedgeAfterInit ==
    /\ supervisor # "stopped" /\ proc = "up" /\ Collecting
    /\ "liveness" \notin terminating
    /\ reason' = "liveness-wedge"
    /\ AbortTurn("liveness-wedge")
    /\ errorWatch' = FALSE
    /\ Terminate("liveness")
    /\ UNCHANGED <<spec, sid, supervisor, crashes, marked, spawned, toolErrors,
                   fallback, cliVars, engineVars>>

\* _liveness_loop: the running turn has been silent past the timeout.
LivenessWedge ==
    /\ supervisor # "stopped" /\ proc = "up" /\ current # 0
    /\ "liveness" \notin terminating
    /\ reason' = "liveness-wedge"
    /\ AbortTurn("liveness-wedge")
    /\ errorWatch' = FALSE
    /\ Terminate("liveness")
    /\ UNCHANGED <<spec, sid, supervisor, crashes, marked, spawned, toolErrors,
                   fallback, cliVars, engineVars>>

\* _tool_error_watchdog: the window lapsed below the limit.
ErrorWindowLapses ==
    /\ errorWatch
    /\ toolErrors' = 0 /\ errorWatch' = FALSE
    /\ UNCHANGED <<superVars, proc, terminating, turnVars, fallback, cliVars,
                   engineVars>>

--------------------------------------------------------------------------------
Engine ==
    /\ supervisor # "stopped"
    /\ \/ BeginTurn \/ SendTurn \/ TakeForInject \/ Inject \/ TakeResult
       \/ \E target \in 0..(nextId - 1) : SwitchSession(target)
       \/ SwitchReturns \/ SwitchTimesOut \/ ResetSession \/ Stop

Cli ==
    \/ CliBegin \/ CliFold \/ CliToolResult \/ CliResult
    \/ CliTerminated \/ \E rejected \in BOOLEAN : CliCrash(rejected)

Reader == ReadInit \/ ReadDropped \/ ReadToolError \/ ReadToolOk \/ ReadResult

Background ==
    \/ DropStaleSession \/ BeginSpawn \/ FinishSpawn \/ SpawnFails
    \/ LivenessWedge \/ ErrorWindowLapses

Next == Engine \/ Cli \/ Reader \/ Background

Spec == Init /\ [][Next]_vars

\* The event loop runs every ready task: a signalled process dies (SIGKILL
\* after five seconds), the supervisor goes on after its sleep, the hook
\* returns, and the liveness loop polls for ever.
Fairness ==
    /\ WF_vars(CliTerminated)
    /\ WF_vars(DropStaleSession) /\ WF_vars(BeginSpawn) /\ WF_vars(FinishSpawn)
    /\ WF_vars(LivenessWedge)

FairSpec == Spec /\ Fairness

--------------------------------------------------------------------------------
(* Properties *)

Outcomes == [turn : 1..MaxSends,
             kind : {"result"} \cup (Reasons \ {"none", "session-switch"}),
             began : 0..MaxSends, read : BOOLEAN]

Turns == [began : 0..MaxSends, read : -1..MaxSends]
Events == [type : {"init", "tool", "result"}, began : 0..MaxSends, read : -1..MaxSends]

FlagsTypeOK == {marked, spawned, awaitingInit, errorWatch} \subseteq BOOLEAN

SupervisorTypeOK ==
    /\ spec \in Nat /\ sid \in Nat
    /\ proc \in {"none", "up", "dead"}
    /\ supervisor \in {"watch", "stale", "pause", "backoff", "respawn", "spawning",
                       "gaveup", "failed", "stopped"}
    /\ reason \in Reasons
    /\ crashes \in Nat
    /\ terminating \subseteq {"breaker", "liveness", "reset", "switch", "stop"}

TurnTypeOK ==
    /\ current \in 0..MaxSends
    /\ toolErrors \in 0..ToolErrorMax
    /\ results \in Seq(Outcomes)
    /\ fallback \in Nat

CliTypeOK ==
    /\ live \in Nat /\ nextId \in Nat
    /\ stdin \in Seq(0..MaxSends)
    /\ cli \in Turns
    /\ stdout \in Seq(Events)

EngineTypeOK ==
    /\ phase \in {"idle", "opened", "switching", "sent", "refused"}
    /\ sends \in 0..MaxSends
    /\ injects \in 0..MaxInjects /\ injecting \in 0..injects
    /\ resets \in 0..MaxResets /\ switches \in 0..MaxSwitches
    /\ exits \in 0..MaxCrashes
    /\ overlapped \subseteq 1..MaxSends

TypeOK ==
    FlagsTypeOK /\ SupervisorTypeOK /\ TurnTypeOK /\ CliTypeOK /\ EngineTypeOK

\* Aborts, resets, wedges and results race for the same turn, and still the
\* engine gets one answer to every send and none it did not ask for: between
\* two sends nothing is in flight or queued, after a send exactly one thing is.
OneOutcomePerTurn ==
    IF phase = "sent"
    THEN \/ current = sends /\ results = <<>>
         \/ current = 0 /\ Len(results) = 1 /\ results[1].turn = sends
    ELSE current = 0 /\ results = <<>>

\* The init gate: no answer is the result of a CLI turn that had begun before
\* the send it answers, however many turns were still draining and whatever was
\* still in the pipe - except the init of such a turn, which disarms the gate
\* too early.
GateHolds ==
    \A i \in DOMAIN results :
        LET r == results[i]
        IN  r.kind = "result" => r.began = r.turn \/ r.turn \in overlapped

\* What the gate's comment says it prevents - an earlier message's events closing
\* the wrong turn early: the CLI turn whose result is delivered has read the
\* message that was sent.
AnswersItsTurn ==
    \A i \in DOMAIN results : results[i].kind = "result" => results[i].read

\* While a process is up, the supervisor is watching it, so its exit is seen.
ProcessIsWatched == proc = "up" => supervisor \in {"watch", "stopped"}

\* Crashes are counted up to the limit and not past it: the one that reaches
\* it ends the supervisor.
BudgetIsKept == supervisor \notin {"gaveup", "stopped"} => crashes < CrashLimit

\* Whoever is killing the process has left a reason the supervisor will read.
KillsHaveReasons ==
    terminating # {} => proc = "up" /\ (reason # "none" \/ supervisor = "stopped")

\* The pipe keeps the order of the CLI's turns.
PipeInOrder ==
    /\ cli.began <= sends
    /\ \A i \in DOMAIN stdout :
        /\ stdout[i].began <= sends
        /\ cli # NoTurn => stdout[i].began <= cli.began
        /\ \A j \in DOMAIN stdout : i < j => stdout[i].began <= stdout[j].began

\* Before the gate no init of an earlier turn is unread; past it nothing is, and
\* the running CLI turn began after the last send.
GateIsCurrent ==
    current # 0 /\ current \notin overlapped =>
        /\ \A i \in DOMAIN stdout :
             awaitingInit => (stdout[i].type = "init" => stdout[i].began = current)
        /\ ~awaitingInit =>
             /\ \A i \in DOMAIN stdout : stdout[i].began = current
             /\ cli # NoTurn => cli.began = current

\* The inductive invariant behind the theorems of CcWorker_proofs.
IInv ==
    /\ TypeOK /\ OneOutcomePerTurn /\ GateHolds /\ PipeInOrder /\ GateIsCurrent
    /\ ProcessIsWatched /\ BudgetIsKept /\ KillsHaveReasons

\* Killing claude on purpose - however the kills overlap - never spends the
\* crash budget, which would end in CrashLoop.
PlannedExitsAreFree == [][terminating # {} => crashes' = crashes]_vars

\* Nobody will start another process: the crash budget is spent, a respawn failed,
\* or the worker was stopped.
Unsupervised == supervisor \in {"gaveup", "failed", "stopped"}

\* A turn in flight is closed in the end, by its result or by a sentinel,
\* unless the worker is left without a supervisor.  (A turn never follows another
\* without a moment between them: OneOutcomePerTurn.)
TurnIsClosed == (current # 0) ~> (current = 0 \/ Unsupervised)

\* After every exit a process comes back, unless the crash budget is spent or a
\* start() raised, which ends the supervise task without a word.
ProcessComesBack == (proc # "up") ~> (proc = "up" \/ Unsupervised)

\* A respawn after a crash resumes the conversation the worker was in.
CrashKeepsConversation ==
    [][supervisor = "backoff" /\ supervisor' = "spawning" => live' = sid]_vars

\* What is between the engine and the worker, as TurnChannel sees it.
ChannelState ==
    CASE phase = "sent" /\ results = <<>> -> "open"
      [] phase = "sent" /\ results # <<>> -> "answered"
      [] phase = "refused" -> "refused"
      [] OTHER -> "idle"

\* The worker implements the abstract turn channel.
Channel == INSTANCE TurnChannel WITH turn <- sends, channel <- ChannelState

ImplementsChannel == Channel!Spec
================================================================================
