------------------------------- MODULE Reminders -------------------------------
(***************************************************************************)
(* Scheduled reminders: the reminders table (hamroh/db/reminders.py), the  *)
(* startup that reconciles it with the configuration (hamroh/startup.py),  *)
(* the scheduler that claims and submits what is due                       *)
(* (hamroh/scheduler/reminder_scheduler.py), the agent's reminder tools,   *)
(* and the success and failure hooks the engine runs for each claim.       *)
(*                                                                         *)
(* Every UPDATE is committed by itself, so the bot may stop between any    *)
(* two of them; the table survives, hooks and tasks do not.                *)
(*                                                                         *)
(* The engine is seen through its hooks: a claim waits in its buffer, then *)
(* belongs to a turn, then is run when the control loop handles the turn's *)
(* end.  A turn whose claude process crashed ends like any other, by the   *)
(* liveness watchdog's sentinel.  One whose send raised has no end: the    *)
(* engine is processing until it is restarted.                             *)
(***************************************************************************)
EXTENDS Integers, Sequences, FiniteSets

CONSTANTS Committed,     \* keys default-reminders.json may declare
          MaxSet,        \* bound: reminders the agent sets
          MaxFires,      \* bound: claims of one row
          MaxFaults,     \* bound: crashes, resets, failed switches, raising submits
          MaxRestarts    \* bound: restarts of the bot

Self == "self-reflection-default"
User == "user"                       \* no auto_seed_key

AutoKeys == Committed \cup {Self}

ASSUME RemindersAssumption ==
    /\ User \notin AutoKeys /\ Self \notin Committed
    /\ MaxSet \in Nat /\ MaxFires \in Nat /\ MaxFaults \in Nat /\ MaxRestarts \in Nat

VARIABLES
    rows,       \* the reminders table, by id
    boot,       \* where the startup is: "reset", "seed", "reconcile", "run"
    desired,    \* keys the configuration of this boot asks for
    polled,     \* rows of the last poll the scheduler has still to fire
    hooks,      \* claims whose hooks are held in memory, and where
    turn,       \* "idle", "running", "orphaned" (its process crashed), "stuck" (its
                \* send raised: no result will come)
    control,    \* the control loop: waiting, or about to run or running hooks
    fires,      \* times each row was claimed
    raised,     \* a submit raised after its hooks were registered
    userRows, faults, restarts

vars == <<rows, boot, desired, polled, hooks, turn, control, fires, raised,
          userRows, faults, restarts>>

Ids == DOMAIN rows
Active(i) == rows[i].status \in {"pending", "processing"}
Closed(i) == rows[i].status \in {"sent", "cancelled"}
Pending(k) == {i \in Ids : rows[i].key = k /\ rows[i].status = "pending"}

SetStatus(i, s) == rows' = [rows EXCEPT ![i] = [@ EXCEPT !.status = s]]

Insert(k, cron) ==
    /\ rows' = Append(rows, [key |-> k, cron |-> cron, status |-> "pending", due |-> FALSE])
    /\ fires' = Append(fires, 0)

\* A plausible slip: another spelling of the status.
CancelKeyMisspelt(k) ==
    rows' = [i \in Ids |-> IF i \in Pending(k) THEN [rows[i] EXCEPT !.status = "canceled"]
                                               ELSE rows[i]]

\* cancel_auto_seeded.
CancelKey(k) ==
    rows' = [i \in Ids |-> IF i \in Pending(k) THEN [rows[i] EXCEPT !.status = "cancelled"]
                                               ELSE rows[i]]

\* The claims at some place move to another.
Move(from, to) ==
    {IF c.at = from THEN [c EXCEPT !.at = to] ELSE c : c \in hooks}

Fault == faults < MaxFaults /\ faults' = faults + 1

\* The first boot, on an empty table.
Init ==
    /\ rows = <<>> /\ fires = <<>>
    /\ boot = "reset" /\ desired \in SUBSET AutoKeys
    /\ polled = {} /\ hooks = {} /\ turn = "idle" /\ control = "wait"
    /\ raised = FALSE /\ userRows = 0 /\ faults = 0 /\ restarts = 0

--------------------------------------------------------------------------------
(* Startup *)

\* A plausible slip: rows left in flight are re-armed too late, after the seeding.
ResetNothing ==
    /\ boot = "reset"
    /\ boot' = "seed"
    /\ UNCHANGED <<rows, desired, polled, hooks, turn, control, fires, raised, userRows,
                   faults, restarts>>

\* reset_stuck_reminders.
ResetStuck ==
    /\ boot = "reset"
    /\ boot' = "seed"
    /\ rows' = [i \in Ids |-> IF rows[i].status = "processing"
                              THEN [rows[i] EXCEPT !.status = "pending"] ELSE rows[i]]
    /\ UNCHANGED <<desired, polled, hooks, turn, control, fires, raised, userRows,
                   faults, restarts>>

\* _seed_default_reminders.
SeedSelf ==
    /\ boot = "seed"
    /\ boot' = "reconcile"
    /\ IF Self \notin desired
       THEN CancelKey(Self) /\ UNCHANGED fires
       ELSE IF Pending(Self) # {}
            THEN UNCHANGED <<rows, fires>>
            ELSE Insert(Self, TRUE)
    /\ UNCHANGED <<desired, polled, hooks, turn, control, raised, userRows, faults,
                   restarts>>

\* _reconcile_committed_reminders: first the rows of keys no longer declared
\* are cancelled, one key at a time, then the missing ones are inserted.
Existing == {k \in Committed : Pending(k) # {}}

CancelStale(k) ==
    /\ boot = "reconcile" /\ k \in Existing \ desired
    /\ CancelKey(k)
    /\ UNCHANGED <<boot, desired, polled, hooks, turn, control, fires, raised,
                   userRows, faults, restarts>>

InsertMissing(k) ==
    /\ boot = "reconcile" /\ Existing \subseteq desired
    /\ k \in (desired \cap Committed) \ Existing
    /\ Insert(k, TRUE)
    /\ UNCHANGED <<boot, desired, polled, hooks, turn, control, raised, userRows,
                   faults, restarts>>

GoLive ==
    /\ boot = "reconcile" /\ Existing = desired \cap Committed
    /\ boot' = "run"
    /\ UNCHANGED <<rows, desired, polled, hooks, turn, control, fires, raised,
                   userRows, faults, restarts>>

--------------------------------------------------------------------------------
(* The clock and the agent's tools *)

\* trigger_at passes.
ComesDue(i) ==
    /\ boot = "run" /\ i \in Ids
    /\ rows[i].status = "pending" /\ ~rows[i].due /\ fires[i] < MaxFires
    /\ rows' = [rows EXCEPT ![i] = [@ EXCEPT !.due = TRUE]]
    /\ UNCHANGED <<boot, desired, polled, hooks, turn, control, fires, raised,
                   userRows, faults, restarts>>

\* reminder_set.
SetReminder(cron) ==
    /\ turn = "running" /\ userRows < MaxSet
    /\ userRows' = userRows + 1
    /\ Insert(User, cron)
    /\ UNCHANGED <<boot, desired, polled, hooks, turn, control, raised, faults,
                   restarts>>

\* A plausible slip: the tool has no gate for seeded rows.
CancelAnyReminder(i) ==
    /\ turn = "running"
    /\ i \in Ids /\ rows[i].status = "pending"
    /\ SetStatus(i, "cancelled")
    /\ UNCHANGED <<boot, desired, polled, hooks, turn, control, fires, raised,
                   userRows, faults, restarts>>

\* reminder_cancel: refused for a seeded row, and without effect on one in
\* flight.
CancelReminder(i) ==
    /\ turn = "running"
    /\ i \in Ids /\ rows[i].key = User /\ rows[i].status = "pending"
    /\ SetStatus(i, "cancelled")
    /\ UNCHANGED <<boot, desired, polled, hooks, turn, control, fires, raised,
                   userRows, faults, restarts>>

--------------------------------------------------------------------------------
(* The scheduler *)

\* fetch_due_reminders, after the last poll's rows were all fired.
Poll ==
    /\ boot = "run" /\ polled = {} /\ ~\E c \in hooks : c.at = "scheduler"
    /\ polled' = {i \in Ids : rows[i].status = "pending" /\ rows[i].due
                              /\ fires[i] < MaxFires}
    /\ polled' # {}
    /\ UNCHANGED <<rows, boot, desired, hooks, turn, control, fires, raised,
                   userRows, faults, restarts>>

\* Plausible slips: the claim is an UPDATE of the row whatever its status, or no
\* UPDATE at all.
ClaimAny(i) ==
    /\ SetStatus(i, "processing")
    /\ fires' = [fires EXCEPT ![i] = @ + 1]

ClaimNothing(i) ==
    /\ rows[i].status = "pending" /\ UNCHANGED rows
    /\ fires' = [fires EXCEPT ![i] = @ + 1]

\* claim_reminder, won: the UPDATE matches only a row that is still pending.
ClaimWon(i) ==
    /\ rows[i].status = "pending" /\ SetStatus(i, "processing")
    /\ fires' = [fires EXCEPT ![i] = @ + 1]

\* _fire_one_reminder up to the submit.
Claim(i) ==
    /\ i \in polled /\ ~\E c \in hooks : c.at = "scheduler"
    /\ polled' = polled \ {i}
    /\ \/ /\ ClaimWon(i)
          /\ hooks' = hooks \cup {[row |-> i, n |-> fires[i] + 1, at |-> "scheduler",
                                   lost |-> FALSE]}
       \/ rows[i].status # "pending" /\ UNCHANGED <<rows, fires, hooks>>
    /\ UNCHANGED <<boot, desired, turn, control, raised, userRows, faults, restarts>>

\* engine.submit: into the buffer, or into the running turn of its session.
Submit(c, to) ==
    /\ c \in hooks /\ c.at = "scheduler"
    /\ to = "turn" => turn # "idle"
    /\ hooks' = (hooks \ {c}) \cup {[c EXCEPT !.at = to]}
    /\ UNCHANGED <<rows, boot, desired, polled, turn, control, fires, raised,
                   userRows, faults, restarts>>

\* submit raised while it wrote into the running turn: the turn has the hooks
\* already, and the scheduler releases the claim.
SubmitRaises(c) ==
    /\ c \in hooks /\ c.at = "scheduler" /\ turn # "idle" /\ Fault
    /\ hooks' = (hooks \ {c}) \cup {[c EXCEPT !.at = "turn"]}
    /\ SetStatus(c.row, "pending")
    /\ raised' = TRUE
    /\ UNCHANGED <<boot, desired, polled, turn, control, fires, userRows, restarts>>

--------------------------------------------------------------------------------
(* The engine and the worker, as far as hooks are concerned *)

\* A kick: one session's messages, with their hooks, become the turn.  The turn
\* may be a human's, with no reminder in it.
TurnStarts(cs) ==
    /\ boot = "run" /\ turn = "idle"
    /\ cs \subseteq {c \in hooks : c.at = "buffer"}
    /\ turn' = "running"
    /\ hooks' = (hooks \ cs) \cup {[c EXCEPT !.at = "turn"] : c \in cs}
    /\ UNCHANGED <<rows, boot, desired, polled, control, fires, raised, userRows,
                   faults, restarts>>

\* The session switch fails: the turn's hooks go back to the buffer.
SwitchFails ==
    /\ turn = "running" /\ Fault
    /\ turn' = "idle"
    /\ hooks' = Move("turn", "buffer")
    /\ UNCHANGED <<rows, boot, desired, polled, control, fires, raised, userRows,
                   restarts>>

\* worker.send raises, since no process is attached: the kick's task, or the control
\* loop, ends with it, and _is_processing stays set.
SendRaises ==
    /\ turn = "running" /\ Fault
    /\ turn' = "stuck"
    /\ UNCHANGED <<rows, boot, desired, polled, hooks, control, fires, raised, userRows,
                   restarts>>

\* The claude process crashes; nobody is told, the turn stays open.
CliCrashes ==
    /\ turn = "running" /\ Fault
    /\ turn' = "orphaned"
    /\ hooks' = {[c EXCEPT !.lost = @ \/ c.at = "turn"] : c \in hooks}
    /\ UNCHANGED <<rows, boot, desired, polled, control, fires, raised, userRows,
                   restarts>>

\* A result or a sentinel: success, unless the owner reset the session.  The
\* next turn may start before the hooks are run.  A kick that a submit cancels
\* loses its batch to such an end, of a continuation: its hooks are run with it.
TurnEnds(as) ==
    /\ turn \in {"running", "orphaned"} /\ control = "wait"
    /\ as = "failure" => faults < MaxFaults
    /\ faults' = IF as = "failure" THEN faults + 1 ELSE faults
    /\ turn' = "idle" /\ control' = as
    /\ UNCHANGED <<rows, boot, desired, polled, hooks, fires, raised, userRows,
                   restarts>>

\* _fire_turn_callbacks, _fail_turn_callbacks: the list is swapped out ...
SwapHooks ==
    /\ control # "wait" /\ ~\E c \in hooks : c.at = "firing"
    /\ hooks' = Move("turn", "firing")
    /\ control' = IF \E c \in hooks : c.at = "turn" THEN control ELSE "wait"
    /\ UNCHANGED <<rows, boot, desired, polled, turn, fires, raised, userRows,
                   faults, restarts>>

\* A plausible slip: the next slot of a recurring row is set and the row stays in
\* flight.
OnSuccessStaysInFlight(i) ==
    IF rows[i].cron
    THEN rows' = [rows EXCEPT ![i] = [@ EXCEPT !.due = FALSE]]
    ELSE SetStatus(i, "sent")

\* _advance_or_close_reminder.
OnSuccess(i) ==
    IF rows[i].cron
    THEN rows' = [rows EXCEPT ![i] = [@ EXCEPT !.status = "pending", !.due = FALSE]]
    ELSE SetStatus(i, "sent")

\* A plausible slip: a failed delivery is not reverted.
OnFailureKeepsClaim(i) == UNCHANGED rows

\* revert_reminder.
OnFailure(i) ==
    IF rows[i].status = "processing" THEN SetStatus(i, "pending") ELSE UNCHANGED rows

\* ... and each hook runs: _on_success closes a one-shot or moves a recurring
\* reminder to its next slot, _on_failure reverts the claim.
RunHook(c) ==
    /\ c \in hooks /\ c.at = "firing"
    /\ IF control = "success" THEN OnSuccess(c.row) ELSE OnFailure(c.row)
    /\ hooks' = hooks \ {c}
    /\ control' = IF \E d \in hooks' : d.at = "firing" THEN control ELSE "wait"
    /\ UNCHANGED <<boot, desired, polled, turn, fires, raised, userRows, faults,
                   restarts>>

\* The bot stops or dies, at any point, and boots again, perhaps with another
\* configuration.
Restart ==
    /\ restarts < MaxRestarts
    /\ restarts' = restarts + 1
    /\ boot' = "reset" /\ desired' \in SUBSET AutoKeys
    /\ polled' = {} /\ hooks' = {} /\ turn' = "idle" /\ control' = "wait"
    /\ UNCHANGED <<rows, fires, raised, userRows, faults>>

--------------------------------------------------------------------------------
Startup == ResetStuck \/ SeedSelf \/ (\E k \in Committed : CancelStale(k) \/ InsertMissing(k))
           \/ GoLive

Tools == (\E cron \in BOOLEAN : SetReminder(cron)) \/ (\E i \in Ids : CancelReminder(i))

Scheduler ==
    \/ Poll \/ \E i \in polled : Claim(i)
    \/ \E c \in hooks : Submit(c, "buffer") \/ Submit(c, "turn") \/ SubmitRaises(c)

Engine ==
    \/ \E cs \in SUBSET hooks : TurnStarts(cs)
    \/ SwitchFails \/ SendRaises \/ CliCrashes
    \/ TurnEnds("success") \/ TurnEnds("failure")
    \/ SwapHooks \/ \E c \in hooks : RunHook(c)

Next == Startup \/ (\E i \in Ids : ComesDue(i)) \/ Tools \/ Scheduler \/ Engine \/ Restart

Spec == Init /\ [][Next]_vars

\* The startup and the scheduler run, a turn that was sent ends (by its result or by the
\* watchdog) and the control loop handles its end.  A kick takes the session of
\* the oldest message, so other turns cannot keep a buffered one waiting for ever.
Fairness ==
    /\ WF_vars(Startup) /\ WF_vars(Scheduler)
    /\ SF_vars(\E cs \in SUBSET hooks :
                   cs = {c \in hooks : c.at = "buffer"} /\ cs # {} /\ TurnStarts(cs))
    /\ WF_vars(TurnEnds("success"))
    /\ WF_vars(SwapHooks) /\ WF_vars(\E c \in hooks : RunHook(c))

FairSpec == Spec /\ Fairness

--------------------------------------------------------------------------------
(* Properties *)

Row == [key : AutoKeys \cup {User}, cron : BOOLEAN, due : BOOLEAN,
        status : {"pending", "processing", "sent", "cancelled"}]

TypeOK ==
    /\ rows \in Seq(Row)
    /\ fires \in Seq(Nat) /\ Len(fires) = Len(rows)
    /\ boot \in {"reset", "seed", "reconcile", "run"}
    /\ desired \subseteq AutoKeys
    /\ polled \subseteq Ids
    /\ hooks \subseteq [row : Ids, n : Nat, lost : BOOLEAN,
                        at : {"scheduler", "buffer", "turn", "firing"}]
    /\ turn \in {"idle", "running", "orphaned", "stuck"}
    /\ control \in {"wait", "success", "failure"}
    /\ raised \in BOOLEAN
    /\ userRows \in Nat /\ faults \in Nat /\ restarts \in Nat

\* Before the bot is live nothing is held in memory, and after the first step of
\* the startup nothing is in flight.
BootIsQuiet ==
    /\ boot # "run" => hooks = {} /\ polled = {} /\ turn = "idle" /\ control = "wait"
    /\ boot \in {"seed", "reconcile"} => \A i \in Ids : rows[i].status # "processing"

\* A row is in flight exactly when somebody holds its hooks, and one holder
\* only: no row is stuck in processing until the next boot, and none is fired
\* again while its delivery is running (as long as no submit raised).
ClaimIsExclusive ==
    boot = "run" /\ ~raised =>
        /\ \A i \in Ids : rows[i].status = "processing" <=> \E c \in hooks : c.row = i
        /\ \A c, d \in hooks : c.row = d.row => c = d

\* Even with a submit that raised, no row in flight is forgotten.
InFlightIsHeld ==
    boot = "run" => \A i \in Ids :
        rows[i].status = "processing" => \E c \in hooks : c.row = i

\* However often the bot stops during a startup or a delivery, a seeded loop
\* never runs twice.
OneRowPerKey ==
    \A i, j \in Ids :
        Active(i) /\ Active(j) /\ rows[i].key = rows[j].key /\ rows[i].key # User => i = j

\* While the bot is live exactly the loops its configuration asks for are
\* armed or in flight; the agent cannot stop one.
LoopsAsConfigured ==
    boot = "run" => \A k \in AutoKeys :
        k \in desired <=> \E i \in Ids : rows[i].key = k /\ Active(i)

\* What the startup has settled before it reconciles the committed reminders.
SelfIsSettled == boot = "reconcile" => (Self \in desired <=> Pending(Self) # {})

\* Seeded rows recur, so no hook closes one; the row behind a seeded claim is
\* in flight or waiting.
SeededRowsRecur ==
    /\ \A i \in Ids : rows[i].key # User => rows[i].cron
    /\ \A c \in hooks : rows[c.row].key # User => Active(c.row)

\* Hooks are run only after the end of their turn.
FiringHasOutcome == control = "wait" => \A c \in hooks : c.at # "firing"

\* The inductive invariant behind the theorems of Reminders_proofs.
IInv ==
    /\ TypeOK /\ BootIsQuiet /\ FiringHasOutcome /\ SeededRowsRecur /\ SelfIsSettled
    /\ ClaimIsExclusive /\ InFlightIsHeld /\ OneRowPerKey /\ LoopsAsConfigured

\* A closed reminder stays closed: no late hook, poll or restart re-arms it.
ClosedIsFinal ==
    [][~raised => \A i \in Ids : Closed(i) => rows'[i].status = rows[i].status]_vars

\* A reminder in flight comes out of it, unless the engine is stuck in a turn whose
\* send raised: then its claim is kept until the next boot.
FlightsEnd ==
    \A i \in 1..(MaxSet + 1) :
        (i \in Ids /\ rows[i].status = "processing")
            ~> (turn = "stuck" \/ (i \in Ids /\ rows[i].status # "processing"))

\* What the documentation promises of a crash: the delivery a crash interrupted
\* does not close the reminder.
CrashKeepsReminder ==
    [][\A c \in hooks : c.lost /\ rows[c.row].status = "processing"
                            => rows'[c.row].status # "sent"]_vars
================================================================================
