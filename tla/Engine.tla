-------------------------------- MODULE Engine --------------------------------
(***************************************************************************)
(* The engine (hamroh/engine): buffers inbound messages, batches one       *)
(* session's messages into a turn, injects follow-ups into the running     *)
(* turn, and decides after each result what comes next.                    *)
(*                                                                         *)
(* Everything runs on one event loop; the engine's lock never guards an    *)
(* await, so what happens between two awaits is one step.  The awaits that *)
(* matter are the session switch, the reply-chain lookup and the typing    *)
(* calls, the sends to Telegram, and the database writes.                  *)
(*                                                                         *)
(* The worker is the one CcWorker describes, seen through its turn channel *)
(* (TurnChannel): a send opens a turn when a process is attached and       *)
(* raises when none is, and an open turn is answered once.                 *)
(***************************************************************************)
EXTENDS Integers, Sequences, FiniteSets, SequencesExt

CONSTANTS Humans,      \* messages with a database row
          Reminders,   \* synthetic messages, each with a pair of hooks
          Private,     \* the messages of a private chat, in a session of its own
          Outcomes,    \* how the CLI's turns end in this instance
          MaxHeartbeats,   \* MAX_HEARTBEAT_CONTINUATIONS
          MaxSwitchFailures, MaxCrashes, MaxResets, MaxRestarts,  \* bounds
          MaxFaults        \* bound on all of them together

AllOutcomes == {"clean", "silent", "heartbeat", "dropped", "aborted", "api-error"}
Msgs == Humans \cup Reminders

ASSUME EngineAssumption ==
    /\ IsFiniteSet(Humans) /\ IsFiniteSet(Reminders) /\ Humans \cap Reminders = {}
    /\ Private \subseteq Humans
    /\ Outcomes \subseteq AllOutcomes
    /\ {MaxHeartbeats, MaxSwitchFailures, MaxCrashes, MaxResets, MaxRestarts,
        MaxFaults} \subseteq Nat

VARIABLES
    \* Engine attributes
    pending,        \* _pending
    pendingHooks,   \* _pending_callbacks: a session key and the message whose pair it is
    turnHooks,      \* _turn_callbacks, by the message each pair came with
    processing,     \* _is_processing
    debounce,       \* _debounce_task is sleeping
    retries,        \* kicks scheduled with call_later
    turn,           \* _turn: the session's key and the turn's counters
    \* tasks inside a call
    kicks,          \* calls of _kick that drained a batch
    injects,        \* batches inside _maybe_inject
    marking,        \* rows whose consumed=1 UPDATE is queued
    loop,           \* the control loop
    \* the worker and its process
    proc,           \* "up", "gone" (terminating or respawning)
    session,        \* SessionSwitcher.current
    open,           \* _current_turn: "none", "sent", or "orphan" when the process
                    \* that had it is gone
    answers,        \* _result_queue: outcomes not yet taken
    \* the database
    rows,           \* human messages stored, in order
    consumed, processed,
    \* history
    submitted,      \* messages submitted so far
    handed,         \* messages written to a live process since boot
    delivered,      \* the same, over all boots
    misfiled,       \* rows whose consumed=1 UPDATE went to the other database
    hookRuns,       \* times a reminder's hooks ran
    failures, crashes, resets, restarts

memVars == <<pending, pendingHooks, turnHooks, processing, debounce, retries, turn,
             kicks, injects, marking, loop>>
procVars == <<proc, session, open, answers>>
dbVars == <<rows, consumed, processed>>
boundVars == <<failures, crashes, resets, restarts>>
vars == <<memVars, procVars, dbVars, submitted, handed, delivered, misfiled, hookRuns,
          boundVars>>

--------------------------------------------------------------------------------
(* Parts of the handlers *)

\* The bound on everything that goes wrong in one behaviour.
FaultLeft == failures + crashes + resets + restarts < MaxFaults

\* session_key.
Key(m) == IF m \in Private THEN "private" ELSE "shared"

\* The entries of s at positions I, in their order.
Entries(s, I) ==
    LET Nth(n) == CHOOSE i \in I : Cardinality({j \in I : j <= i}) = n
    IN  [n \in 1..Cardinality(I) |-> s[Nth(n)]]

\* split_by_key and split_keyed.
OfKey(k, s) == Entries(s, {i \in DOMAIN s : Key(s[i]) = k})
NotOfKey(k, s) == Entries(s, {i \in DOMAIN s : Key(s[i]) # k})
HooksOfKey(k, hooks) == {h \in hooks : h[1] = k}

HumansOf(batch) == ToSet(batch) \cap Humans
AwaitsReply(batch) == HumansOf(batch) # {}

\* Where the control loop is.  Back from a turn's end it waits for the next
\* result if a turn is running, and else polls for one.
At(pc) == [pc |-> pc, outcome |-> "none", batch |-> <<>>, keys |-> {}]
Rest(running) == At(IF running THEN "wait" ELSE "poll")

\* A plausible slip: the taken messages stay in the buffer as well.
TakeAndKeep(k, s, hooks) ==
    /\ pending' = s
    /\ pendingHooks' = hooks \ HooksOfKey(k, hooks)
    /\ turnHooks' = turnHooks \cup {h[2] : h \in HooksOfKey(k, hooks)}

\* Take the messages of key k, with their hooks, out of buffer s for the turn.
TakeOfKey(k, s, hooks) ==
    /\ pending' = NotOfKey(k, s)
    /\ pendingHooks' = hooks \ HooksOfKey(k, hooks)
    /\ turnHooks' = turnHooks \cup {h[2] : h \in HooksOfKey(k, hooks)}

\* _mark_consumed: the turn remembers the rows and the UPDATE is queued on the
\* database of the turn as it is now; elsewhere it matches no row.
Mark(batch) ==
    /\ turn' = [turn EXCEPT !.keys = @ \cup HumansOf(batch)]
    /\ marking' = marking \cup {m \in HumansOf(batch) : Key(m) = turn.key}
    /\ misfiled' = misfiled \cup {m \in HumansOf(batch) : Key(m) # turn.key}

\* A write to the process's stdin.
Write(batch) ==
    /\ handed' = handed \cup ToSet(batch)
    /\ delivered' = delivered \cup ToSet(batch)

\* A plausible slip: the list is not swapped out.
RunHooksAndKeep ==
    /\ hookRuns' = [m \in Reminders |-> hookRuns[m] + (IF m \in turnHooks THEN 1 ELSE 0)]
    /\ UNCHANGED turnHooks

\* Fire (or fail) the hooks of the turn: the list is swapped out, then each
\* hook runs.
RunHooks ==
    /\ hookRuns' = [m \in Reminders |-> hookRuns[m] + (IF m \in turnHooks THEN 1 ELSE 0)]
    /\ turnHooks' = {}

\* _kick up to its first await: one session's messages become the batch.
Kick(by) ==
    IF pending = <<>> \/ processing
    THEN UNCHANGED <<pending, pendingHooks, turnHooks, processing, turn, kicks, proc>>
    ELSE LET k == Key(Head(pending)) IN
         /\ TakeOfKey(k, pending, pendingHooks)
         /\ processing' = TRUE
         /\ turn' = [turn EXCEPT !.key = k]
         /\ kicks' = kicks \cup {[by |-> by, batch |-> OfKey(k, pending),
                                  pc |-> IF k = session THEN "entered" ELSE "switch"]}
         /\ proc' = IF k = session THEN proc ELSE "gone"

Init ==
    /\ pending = <<>> /\ pendingHooks = {} /\ turnHooks = {}
    /\ processing = FALSE /\ debounce = FALSE /\ retries = 0
    /\ turn = [key |-> "shared", keys |-> {}, heartbeats |-> 0,
               retried |-> FALSE, awaiting |-> FALSE]
    /\ kicks = {} /\ injects = {} /\ marking = {} /\ loop = Rest(FALSE)
    /\ proc = "up" /\ session = "shared" /\ open = "none" /\ answers = <<>>
    /\ rows = <<>> /\ consumed = {} /\ processed = {}
    /\ submitted = {} /\ handed = {} /\ delivered = {} /\ misfiled = {}
    /\ hookRuns = [m \in Reminders |-> 0]
    /\ failures = 0 /\ crashes = 0 /\ resets = 0 /\ restarts = 0

--------------------------------------------------------------------------------
(* Inbound *)

\* submit, of a message whose row was just stored.  A running turn takes every
\* message of its session at once; otherwise the debounce starts afresh, which
\* also cancels a kick the old debounce task may still be in.
Submit(m) ==
    /\ m \notin submitted
    /\ submitted' = submitted \cup {m}
    /\ rows' = IF m \in Humans THEN Append(rows, m) ELSE rows
    /\ LET buffer == Append(pending, m)
           hooks == pendingHooks \cup ({Key(m)} \X ({m} \cap Reminders))
           batch == OfKey(turn.key, buffer)
       IN IF processing
          THEN /\ TakeOfKey(turn.key, buffer, hooks)
               /\ injects' = injects \cup ({batch} \ {<<>>})
               /\ turn' = [turn EXCEPT !.awaiting = @ \/ AwaitsReply(batch)]
               /\ UNCHANGED <<debounce, kicks>>
          ELSE /\ pending' = buffer /\ pendingHooks' = hooks
               /\ debounce' = TRUE
               /\ kicks' = {k \in kicks : k.by # "debounce"}
               /\ UNCHANGED <<turnHooks, injects, turn>>
    /\ UNCHANGED <<processing, retries, marking, loop, procVars, consumed, processed,
                   handed, delivered, misfiled, hookRuns, boundVars>>

\* The rest of _maybe_inject: with no process, or a pipe that is closed, the
\* text goes to a queue nobody drains.  The turn of a process that crashed can
\* only end through text the new one is given.
Inject(batch) ==
    /\ batch \in injects
    /\ injects' = injects \ {batch}
    /\ IF proc = "up"
       THEN /\ Write(batch)
            /\ open' = IF open = "orphan" THEN "sent" ELSE open
       ELSE UNCHANGED <<handed, delivered, open>>
    /\ Mark(batch)
    /\ UNCHANGED <<pending, pendingHooks, turnHooks, processing, debounce, retries,
                   kicks, loop, proc, session, answers, dbVars, submitted, hookRuns,
                   boundVars>>

DebounceFires ==
    /\ debounce
    /\ debounce' = FALSE
    /\ Kick("debounce")
    /\ UNCHANGED <<retries, injects, marking, loop, session, open, answers, dbVars,
                   submitted, handed, delivered, misfiled, hookRuns, boundVars>>

RetryFires ==
    /\ retries > 0
    /\ retries' = retries - 1
    /\ Kick("retry")
    /\ UNCHANGED <<debounce, injects, marking, loop, session, open, answers, dbVars,
                   submitted, handed, delivered, misfiled, hookRuns, boundVars>>

--------------------------------------------------------------------------------
(* A kick, after its batch was taken *)

\* switcher.enter: the worker respawned in the batch's session.
SwitchDone(k) ==
    /\ k \in kicks /\ k.pc = "switch"
    /\ session' = turn.key
    /\ proc' = "up"
    /\ kicks' = (kicks \ {k}) \cup {[k EXCEPT !.pc = "entered"]}
    /\ UNCHANGED <<pending, pendingHooks, turnHooks, processing, debounce, retries,
                   turn, injects, marking, loop, open, answers, dbVars, submitted,
                   handed, delivered, misfiled, hookRuns, boundVars>>

\* The switch failed: the batch goes back to the front, the hooks of the turn
\* under its key, and the kick is tried again later.
SwitchFails(k) ==
    /\ k \in kicks /\ k.pc = "switch" /\ failures < MaxSwitchFailures /\ FaultLeft
    /\ failures' = failures + 1
    /\ pending' = k.batch \o pending
    /\ pendingHooks' = pendingHooks \cup ({turn.key} \X turnHooks)
    /\ turnHooks' = {}
    /\ processing' = FALSE
    /\ retries' = retries + 1
    /\ kicks' = kicks \ {k}
    /\ loop' = IF k.by = "loop" THEN Rest(FALSE) ELSE loop
    /\ UNCHANGED <<debounce, turn, injects, marking, procVars, dbVars,
                   submitted, handed, delivered, misfiled, hookRuns, crashes, resets, restarts>>

\* In the session: the turn's state starts afresh, the text is formatted.
Prepare(k) ==
    /\ k \in kicks /\ k.pc = "entered"
    /\ turn' = [turn EXCEPT !.keys = {}, !.heartbeats = 0, !.retried = FALSE,
                            !.awaiting = AwaitsReply(k.batch)]
    /\ kicks' = (kicks \ {k}) \cup {[k EXCEPT !.pc = "send"]}
    /\ UNCHANGED <<pending, pendingHooks, turnHooks, processing, debounce, retries,
                   injects, marking, loop, procVars, dbVars, submitted, handed,
                   delivered, misfiled, hookRuns, boundVars>>

\* worker.send and _mark_consumed.  With no process send raises: the task ends,
\* or the control loop if the kick was its own.
SendBatch(k) ==
    /\ k \in kicks /\ k.pc = "send"
    /\ kicks' = kicks \ {k}
    /\ IF proc = "up"
       THEN /\ open' = "sent"
            /\ Write(k.batch) /\ Mark(k.batch)
            /\ loop' = IF k.by = "loop" THEN Rest(processing) ELSE loop
       ELSE /\ loop' = IF k.by = "loop" THEN At("dead") ELSE loop
            /\ UNCHANGED <<open, handed, delivered, turn, marking, misfiled>>
    /\ UNCHANGED <<pending, pendingHooks, turnHooks, processing, debounce, retries,
                   injects, proc, session, answers, dbVars, submitted, hookRuns, boundVars>>

\* The consumed=1 UPDATE is committed.
MarkDone ==
    /\ marking # {}
    /\ consumed' = consumed \cup marking
    /\ marking' = {}
    /\ UNCHANGED <<pending, pendingHooks, turnHooks, processing, debounce, retries, turn,
                   kicks, injects, loop, procVars, rows, processed, submitted, handed,
                   delivered, misfiled, hookRuns, boundVars>>

--------------------------------------------------------------------------------
(* The control loop: a result, and what follows from it *)

\* The loop looks every 50 ms whether a turn is running.
SeeTurn ==
    /\ loop.pc = "poll" /\ processing
    /\ loop' = At("wait")
    /\ UNCHANGED <<pending, pendingHooks, turnHooks, processing, debounce, retries, turn,
                   kicks, injects, marking, procVars, dbVars, submitted, handed,
                   delivered, misfiled, hookRuns, boundVars>>

\* wait_for_result returned: the turn is over, and while the typing indicator
\* is stopped, messages buffer again and timers may fire.
TakeAnswer ==
    /\ loop.pc = "wait" /\ answers # <<>>
    /\ answers' = Tail(answers)
    /\ processing' = FALSE
    /\ loop' = [At("typing") EXCEPT !.outcome = Head(answers)]
    /\ UNCHANGED <<pending, pendingHooks, turnHooks, debounce, retries, turn, kicks,
                   injects, marking, proc, session, open, dbVars, submitted, handed,
                   delivered, misfiled, hookRuns, boundVars>>

\* _handle_turn_result goes on with outcome o.
Handle(o) ==
    /\ loop.pc = "typing" /\ loop.outcome = o
    /\ UNCHANGED <<debounce, retries, kicks, injects, marking, procVars, dbVars,
                   submitted, handed, delivered, misfiled, boundVars>>

\* The owner reset the session: the hooks fail.
HandleReset ==
    /\ Handle("session-reset")
    /\ RunHooks
    /\ loop' = Rest(processing)
    /\ UNCHANGED <<pending, pendingHooks, processing, turn>>

\* Breaker, watchdog or dropped text: what the model wrote is sent to the
\* chats first.
HandleUndelivered ==
    /\ \E o \in {"aborted", "dropped"} : Handle(o)
    /\ loop' = At("deliver")
    /\ UNCHANGED <<pending, pendingHooks, turnHooks, processing, turn, hookRuns>>

\* An API error.  A classified one goes to the owner's log and the session is
\* kept; of any other the chats are told first.
HandleApiError ==
    /\ Handle("api-error")
    /\ \/ RunHooks /\ loop' = Rest(processing)
       \/ loop' = At("notify") /\ UNCHANGED <<turnHooks, hookRuns>>
    /\ UNCHANGED <<pending, pendingHooks, processing, turn>>

\* A plausible slip: one continuation more than the maximum.
HandleHeartbeatPastMax ==
    /\ Handle("heartbeat") /\ turn.heartbeats <= MaxHeartbeats
    /\ turn' = [turn EXCEPT !.heartbeats = @ + 1]
    /\ processing' = TRUE /\ loop' = At("resume")
    /\ UNCHANGED <<pending, pendingHooks, turnHooks, hookRuns>>

\* _continue_after_heartbeat: waiting messages of the session join the turn;
\* they are formatted before the turn is marked as running again.
HandleHeartbeat ==
    /\ Handle("heartbeat") /\ turn.heartbeats < MaxHeartbeats
    /\ LET batch == OfKey(turn.key, pending) IN
       /\ TakeOfKey(turn.key, pending, pendingHooks)
       /\ turn' = [turn EXCEPT !.heartbeats = @ + 1,
                               !.awaiting = @ \/ AwaitsReply(batch)]
       /\ processing' = (processing \/ batch = <<>>)
       /\ loop' = [At(IF batch = <<>> THEN "resume" ELSE "format") EXCEPT !.batch = batch]
    /\ UNCHANGED hookRuns

\* _retry_silent_stop: a stop that said nothing to someone waiting is nudged once.
HandleSilentStop ==
    /\ Handle("silent") /\ turn.awaiting /\ ~turn.retried
    /\ turn' = [turn EXCEPT !.retried = TRUE]
    /\ processing' = TRUE
    /\ loop' = At("resume")
    /\ UNCHANGED <<pending, pendingHooks, turnHooks, hookRuns>>

\* A clean turn, a heartbeat too many or a second silent stop: its rows are
\* about to be committed.
HandleFinish ==
    /\ \/ Handle("clean")
       \/ Handle("heartbeat") /\ turn.heartbeats >= MaxHeartbeats
       \/ Handle("silent") /\ ~(turn.awaiting /\ ~turn.retried)
    /\ loop' = [At("commit") EXCEPT !.keys = {m \in turn.keys : Key(m) = turn.key}]
    /\ UNCHANGED <<pending, pendingHooks, turnHooks, processing, turn, hookRuns>>

\* The text is delivered, the success hooks run.
Delivered ==
    /\ loop.pc = "deliver"
    /\ RunHooks
    /\ loop' = Rest(processing)
    /\ UNCHANGED <<pending, pendingHooks, processing, debounce, retries, turn, kicks,
                   injects, marking, procVars, dbVars, submitted, handed, delivered, misfiled,
                   boundVars>>

Notified ==
    /\ loop.pc = "notify"
    /\ RunHooks
    /\ loop' = At("reset")
    /\ UNCHANGED <<pending, pendingHooks, processing, debounce, retries, turn, kicks,
                   injects, marking, procVars, dbVars, submitted, handed, delivered, misfiled,
                   boundVars>>

\* worker.reset_session.
ResetWorker ==
    /\ proc' = "gone"
    /\ IF open = "none"
       THEN UNCHANGED <<open, answers>>
       ELSE open' = "none" /\ answers' = Append(answers, "session-reset")

ResetAfterApiError ==
    /\ loop.pc = "reset"
    /\ ResetWorker
    /\ loop' = Rest(processing)
    /\ UNCHANGED <<pending, pendingHooks, turnHooks, processing, debounce, retries, turn,
                   kicks, injects, marking, session, dbVars, submitted, handed,
                   delivered, misfiled, hookRuns, boundVars>>

Formatted ==
    /\ loop.pc = "format"
    /\ processing' = TRUE
    /\ loop' = [loop EXCEPT !.pc = "resume"]
    /\ UNCHANGED <<pending, pendingHooks, turnHooks, debounce, retries, turn, kicks,
                   injects, marking, procVars, dbVars, submitted, handed, delivered, misfiled,
                   hookRuns, boundVars>>

\* The continuation is sent; send raising ends the control loop.
Resume ==
    /\ loop.pc = "resume"
    /\ IF proc = "up"
       THEN /\ open' = "sent"
            /\ Write(loop.batch) /\ Mark(loop.batch)
            /\ loop' = Rest(processing)
       ELSE /\ loop' = At("dead")
            /\ UNCHANGED <<open, handed, delivered, turn, marking, misfiled>>
    /\ UNCHANGED <<pending, pendingHooks, turnHooks, processing, debounce, retries,
                   kicks, injects, proc, session, answers, dbVars, submitted, hookRuns,
                   boundVars>>

\* _finish_clean_turn: the rows are committed - after the UPDATEs queued before,
\* the connection being one thread's queue - and the success hooks run.
Commit ==
    /\ loop.pc = "commit"
    /\ processed' = processed \cup loop.keys
    /\ consumed' = consumed \cup marking
    /\ marking' = {}
    /\ RunHooks
    /\ loop' = At("drain")
    /\ UNCHANGED <<pending, pendingHooks, processing, debounce, retries, turn, kicks,
                   injects, procVars, rows, submitted, handed, delivered, misfiled, boundVars>>

\* A plausible slip: the loop goes back to waiting without a look at the buffer.
DrainNothing ==
    /\ loop.pc = "drain"
    /\ loop' = Rest(processing)
    /\ UNCHANGED <<pending, pendingHooks, turnHooks, processing, debounce, retries, turn,
                   kicks, injects, marking, procVars, dbVars, submitted, handed,
                   delivered, misfiled, hookRuns, boundVars>>

\* ... and the loop kicks what queued up meanwhile.
Drain ==
    /\ loop.pc = "drain"
    /\ Kick("loop")
    /\ loop' = IF pending = <<>> \/ processing THEN Rest(processing) ELSE At("kick")
    /\ UNCHANGED <<debounce, retries, injects, marking, session, open, answers, dbVars,
                   submitted, handed, delivered, misfiled, hookRuns, boundVars>>

--------------------------------------------------------------------------------
(* The worker, and the bot's own restart *)

\* The turn in flight ends: the CLI's result, or the sentinel of the breaker or
\* the watchdog, which also kill the process.
AnswerTurn(o) ==
    /\ proc = "up"
    /\ open = "sent" \/ (open = "orphan" /\ o = "aborted")
    /\ open' = "none" /\ answers' = Append(answers, o)
    /\ proc' = IF o = "aborted" THEN "gone" ELSE proc
    /\ UNCHANGED <<memVars, session, dbVars, submitted, handed, delivered, misfiled, hookRuns,
                   boundVars>>

\* The process crashes; a turn it had stays open in the worker.
WorkerCrash ==
    /\ proc = "up" /\ crashes < MaxCrashes /\ FaultLeft
    /\ crashes' = crashes + 1
    /\ proc' = "gone"
    /\ open' = IF open = "sent" THEN "orphan" ELSE open
    /\ UNCHANGED <<memVars, session, answers, dbVars, submitted, handed, delivered, misfiled,
                   hookRuns, failures, resets, restarts>>

\* The supervisor respawns it (a switch brings its own process up).
Respawn ==
    /\ proc = "gone" /\ \A k \in kicks : k.pc # "switch"
    /\ proc' = "up"
    /\ UNCHANGED <<memVars, session, open, answers, dbVars, submitted, handed, delivered, misfiled,
                   hookRuns, boundVars>>

\* The owner's reset command.
OwnerReset ==
    /\ resets < MaxResets /\ FaultLeft
    /\ resets' = resets + 1
    /\ ResetWorker
    /\ UNCHANGED <<memVars, session, dbVars, submitted, handed, delivered, misfiled, hookRuns,
                   failures, crashes, restarts>>

\* A plausible slip: what is not yet processed is replayed.
ReplayUnprocessed == Entries(rows, {i \in DOMAIN rows : rows[i] \notin processed})

\* fetch_unconsumed_inbound.
Replay == Entries(rows, {i \in DOMAIN rows : rows[i] \notin consumed})

\* The bot stops or dies and boots again: memory is lost, and the rows not yet
\* consumed are submitted again.
Restart ==
    /\ restarts < MaxRestarts /\ FaultLeft
    /\ restarts' = restarts + 1
    /\ pending' = Replay /\ debounce' = (Replay # <<>>)
    /\ pendingHooks' = {} /\ turnHooks' = {} /\ processing' = FALSE /\ retries' = 0
    /\ turn' = [key |-> "shared", keys |-> {}, heartbeats |-> 0,
                retried |-> FALSE, awaiting |-> FALSE]
    /\ kicks' = {} /\ injects' = {} /\ marking' = {} /\ loop' = Rest(FALSE)
    /\ proc' = "up" /\ session' = "shared" /\ open' = "none" /\ answers' = <<>>
    /\ handed' = {}
    /\ UNCHANGED <<dbVars, submitted, delivered, misfiled, hookRuns, failures, crashes, resets>>

--------------------------------------------------------------------------------
Inbound == (\E m \in Msgs : Submit(m)) \/ (\E b \in injects : Inject(b))

KickStep == \E k \in kicks : SwitchDone(k) \/ SwitchFails(k) \/ Prepare(k) \/ SendBatch(k)

ControlLoop ==
    \/ SeeTurn \/ TakeAnswer \/ HandleReset \/ HandleUndelivered \/ HandleApiError
    \/ HandleHeartbeat \/ HandleSilentStop \/ HandleFinish \/ Delivered \/ Notified
    \/ ResetAfterApiError \/ Formatted \/ Resume \/ Commit \/ Drain

Worker == (\E o \in Outcomes : AnswerTurn(o)) \/ WorkerCrash \/ Respawn

Next ==
    \/ Inbound \/ DebounceFires \/ RetryFires \/ KickStep \/ MarkDone
    \/ ControlLoop \/ Worker \/ OwnerReset \/ Restart

Spec == Init /\ [][Next]_vars

\* Every task the event loop holds gets its turn, timers fire, the supervisor
\* respawns and the CLI (or the watchdog) ends a turn.
Fairness ==
    /\ WF_vars(\E b \in injects : Inject(b))
    /\ WF_vars(DebounceFires) /\ WF_vars(RetryFires) /\ WF_vars(MarkDone)
    /\ WF_vars(\E k \in kicks : SwitchDone(k) \/ Prepare(k) \/ SendBatch(k))
    /\ WF_vars(ControlLoop)
    /\ WF_vars(\E o \in Outcomes : AnswerTurn(o)) /\ WF_vars(Respawn)

FairSpec == Spec /\ Fairness

--------------------------------------------------------------------------------
(* Properties *)

Keys == {"shared", "private"}
Turns == [key : Keys, keys : SUBSET Humans, heartbeats : 0..MaxHeartbeats,
          retried : BOOLEAN, awaiting : BOOLEAN]
KickTasks == [by : {"debounce", "retry", "loop"}, batch : Seq(Msgs),
              pc : {"switch", "entered", "send"}]
Results == AllOutcomes \cup {"session-reset"}
Points == {"poll", "wait", "typing", "deliver", "notify", "reset", "format", "resume",
           "commit", "drain", "kick", "dead"}
Positions == [pc : Points, outcome : Results \cup {"none"}, batch : Seq(Msgs),
              keys : SUBSET Humans]

TypeOK ==
    /\ pending \in Seq(Msgs) /\ rows \in Seq(Humans)
    /\ pendingHooks \subseteq Keys \X Reminders /\ turnHooks \subseteq Reminders
    /\ processing \in BOOLEAN /\ debounce \in BOOLEAN
    /\ turn \in Turns /\ kicks \subseteq KickTasks /\ injects \subseteq Seq(Msgs)
    /\ loop \in Positions
    /\ proc \in {"up", "gone"} /\ session \in Keys
    /\ open \in {"none", "sent", "orphan"} /\ answers \in Seq(Results)
    /\ marking \cup consumed \cup processed \cup misfiled \subseteq Humans
    /\ submitted \cup handed \cup delivered \subseteq Msgs
    /\ hookRuns \in [Reminders -> Nat]
    /\ failures \in 0..MaxSwitchFailures /\ retries \in 0..failures
    /\ crashes \in 0..MaxCrashes /\ resets \in 0..MaxResets
    /\ restarts \in 0..MaxRestarts

\* How many places in memory hold message m for a later send.
Copies(m) ==
      Cardinality({i \in DOMAIN pending : pending[i] = m})
    + Cardinality({k \in kicks : m \in ToSet(k.batch)})
    + Cardinality({b \in injects : m \in ToSet(b)})
    + (IF m \in ToSet(loop.batch) THEN 1 ELSE 0)

\* Four places take messages out of the buffer - a kick, a follow-up, a
\* heartbeat continuation, a failed switch puts them back - and no message is
\* ever held twice, or again after it was written to the CLI in this boot.
HeldOnce == \A m \in Msgs : Copies(m) <= 1 /\ (Copies(m) = 1 => m \notin handed)

\* A message whose row says consumed is in nobody's hands to be sent again, and so
\* no restart replays it; and a row is committed as trusted for recaps only once it
\* is committed as consumed, though the two UPDATEs come from different tasks -
\* or its consumed UPDATE went to the other session's database.
ConsumedNotHeld ==
    /\ \A m \in consumed : Copies(m) = 0
    /\ processed \subseteq consumed \cup misfiled

\* The hooks of a submitted reminder run at most once, as success or as failure.
HooksRunOnce == \A m \in Reminders : hookRuns[m] <= 1

\* consumed=1 is only said of a message the CLI was given.
ConsumedWasDelivered == consumed \subseteq delivered

\* A buffered message does not stay in the buffer, some turn takes it - unless
\* the control loop died in a send that raised.
BufferDrains ==
    \A m \in Msgs : (m \in ToSet(pending)) ~> (m \notin ToSet(pending) \/ loop.pc = "dead")

--------------------------------------------------------------------------------
(* The inductive invariant, for Engine_proofs *)

\* Who holds a batch for a later send, the buffer apart.
FollowUp(batch) == [by |-> "inject", batch |-> batch, pc |-> "write"]
Continuation(batch) == [by |-> "loop", batch |-> batch, pc |-> "resume"]
Hands == kicks \cup {FollowUp(b) : b \in injects} \cup {Continuation(loop.batch)}

HeldIn(buffer, hands) == ToSet(buffer) \cup UNION {ToSet(h.batch) : h \in hands}

\* The buffer and the batches have no message in common, and none twice.
Apart(buffer, hands) ==
    /\ IsInjective(buffer)
    /\ \A h \in hands : IsInjective(h.batch) /\ ToSet(h.batch) \cap ToSet(buffer) = {}
    /\ \A g, h \in hands : g # h => ToSet(g.batch) \cap ToSet(h.batch) = {}

\* What is held was submitted, and neither sent nor marked; a row is stored once.
HeldIsUnsent ==
    /\ Apart(pending, Hands)
    /\ HeldIn(pending, Hands) \cup handed \cup consumed \cup marking \cup ToSet(rows)
           \subseteq submitted
    /\ HeldIn(pending, Hands) \cap (handed \cup consumed \cup marking) = {}
    /\ IsInjective(rows)

\* A pair of hooks is in one list, under one key ...
OneList(hooks, taken) ==
    /\ \A g, h \in hooks : g[2] = h[2] => g = h
    /\ \A h \in hooks : h[2] \notin taken

HooksWaiting(hooks, taken) == taken \cup {h[2] : h \in hooks}

\* ... until it runs, and it was never run before.
HooksApart ==
    /\ OneList(pendingHooks, turnHooks)
    /\ \A m \in HooksWaiting(pendingHooks, turnHooks) : m \in submitted /\ hookRuns[m] = 0
    /\ \A m \in Reminders : hookRuns[m] # 0 => m \in submitted /\ hookRuns[m] = 1

\* The rows a turn remembers were marked, here or in the other database.
TurnRowsMarked ==
    turn.keys \cup loop.keys \subseteq consumed \cup marking \cup misfiled

IInv ==
    /\ TypeOK /\ HeldIsUnsent /\ HooksApart /\ TurnRowsMarked
    /\ processed \subseteq consumed \cup misfiled
================================================================================
