--------------------------------- MODULE Typing --------------------------------
(***************************************************************************)
(* The typing indicator (hamroh/engine/typing_indicator.py): switched on   *)
(* by the dispatcher when a message arrives, by the start of a turn, by an *)
(* injected message and by a continued turn; off in a chat when it was     *)
(* replied to, but not within a second of the start; off everywhere when a *)
(* turn ends.  A loop refreshes it while there are chats.                  *)
(*                                                                         *)
(* The engine around it is reduced to a buffer, a turn and one injection   *)
(* at a time (Engine models it).                                           *)
(***************************************************************************)
EXTENDS Naturals

CONSTANTS Chats,
          MaxMessages    \* bound: messages, reminders, late or repeated replies, continued turns

VARIABLES
    chats,       \* TypingState.chats
    early,       \* less than MIN_TYPING_VISIBLE_SECONDS since started_at
    loops,       \* refresh loops that run
    handle,      \* TypingState.task
    deferred,    \* deferred discards that sleep: [n, chat, turn]
    slot,        \* TypingState.deferred_stop
    firing,      \* starts in their first call to Telegram
    buffered,    \* chats with a message for the next turn or injection: [chat, human]
    turn,        \* the turn: its number, where it is, its chats, those replied to
    injecting,   \* chats of the messages being injected
    stopping,    \* where _stop_typing is
    late,        \* history: an injection ended after its turn
    crossed,     \* history: the indicator was switched on while it was being stopped, or a
                 \* start began while another was in its first call
    replaced,    \* history: the slot was overwritten while its discard slept
    astray,      \* history: a call of a turn that was over hid a chat of the next turn
                 \* before that was on, or set a discard that may
    messages, tasks

state == <<chats, early, loops, handle, deferred, slot, tasks>>
around == <<buffered, turn, injecting, messages>>
history == <<late, crossed, replaced, astray>>
vars == <<state, firing, around, stopping, history>>

NoTask == 0
Starters == {"kick", "inject"}
Running(h) == h # NoTask /\ h \in loops
Sleeping(n) == \E d \in deferred : d.n = n
Budget == messages < MaxMessages /\ messages' = messages + 1

-----------------------------------------------------------------------------
\* A plausible slip: a loop that was started and has ended counts as running.
PrimedKeepingTask(c) ==
    /\ chats' = chats \cup {c}
    /\ early' = (early \/ chats = {})
    /\ IF handle # NoTask
       THEN UNCHANGED <<loops, handle, tasks>>
       ELSE tasks' = tasks + 1 /\ loops' = loops \cup {tasks'} /\ handle' = tasks'
    /\ crossed' = (crossed \/ stopping # "no")

\* prime_typing
Primed(c) ==
    /\ chats' = chats \cup {c}
    /\ early' = (early \/ chats = {})
    /\ IF Running(handle)
       THEN UNCHANGED <<loops, handle, tasks>>
       ELSE tasks' = tasks + 1 /\ loops' = loops \cup {tasks'} /\ handle' = tasks'
    /\ crossed' = (crossed \/ stopping # "no")

\* A message arrives: the indicator, then the buffer.
Message(c) ==
    /\ Budget /\ Primed(c)
    /\ buffered' = buffered \cup {[chat |-> c, human |-> TRUE]}
    /\ UNCHANGED <<deferred, slot, firing, turn, injecting, stopping, late, replaced, astray>>

\* A reminder is only buffered.
Reminder(c) ==
    /\ Budget
    /\ buffered' = buffered \cup {[chat |-> c, human |-> FALSE]}
    /\ UNCHANGED <<state, firing, turn, injecting, stopping, history>>

\* _start_typing, up to its first call: a running loop takes the chats over.
StartTyping(who, cs) ==
    IF cs = {} THEN UNCHANGED <<chats, early, firing, crossed>>
    ELSE /\ crossed' = (crossed \/ stopping # "no" \/ firing # {})
         /\ IF Running(handle)
            THEN chats' = chats \cup cs /\ UNCHANGED <<early, firing>>
            ELSE /\ chats' = cs /\ early' = TRUE
                 /\ firing' = firing \cup {who}

\* The first calls are made; the loop starts.
Fired(who) ==
    /\ who \in firing
    /\ tasks' = tasks + 1 /\ loops' = loops \cup {tasks'} /\ handle' = tasks'
    /\ firing' = firing \ {who}
    /\ UNCHANGED <<chats, early, deferred, slot, around, stopping, history>>

\* A turn takes the messages of one session.  Reminders show nothing.
Kick(b) ==
    /\ turn.at = "none" /\ b # {} /\ b \subseteq buffered
    /\ buffered' = buffered \ b
    /\ turn' = [n |-> turn.n + 1, at |-> "kick", replied |-> {},
                chats |-> {m.chat : m \in {x \in b : x.human}}]
    /\ UNCHANGED <<state, firing, injecting, messages, stopping, history>>

KickTypes ==
    /\ turn.at = "kick"
    /\ turn' = [turn EXCEPT !.at = "sending"]
    /\ StartTyping("kick", turn.chats)
    /\ UNCHANGED <<loops, handle, deferred, slot, tasks, buffered, injecting, messages,
                   stopping, late, replaced, astray>>

Sent ==
    /\ turn.at = "sending" /\ "kick" \notin firing
    /\ turn' = [turn EXCEPT !.at = "on"]
    /\ UNCHANGED <<state, firing, buffered, injecting, messages, stopping, history>>

\* _maybe_inject writes the messages to the turn ...
Inject(b) ==
    /\ turn.at # "none" /\ injecting = {} /\ "inject" \notin firing
    /\ b # {} /\ b \subseteq buffered
    /\ buffered' = buffered \ b
    /\ injecting' = {m.chat : m \in b}
    /\ UNCHANGED <<state, firing, turn, messages, stopping, history>>

\* ... and shows the indicator again, for reminders too.
Rearm ==
    /\ injecting # {} /\ injecting' = {}
    /\ IF Running(handle)
       THEN /\ chats' = chats \cup injecting
            /\ crossed' = (crossed \/ stopping # "no") /\ UNCHANGED <<early, firing>>
       ELSE StartTyping("inject", injecting)
    /\ late' = (late \/ turn.at = "none")
    /\ UNCHANGED <<loops, handle, deferred, slot, tasks, buffered, turn, messages, stopping,
                   replaced, astray>>

\* notify_chat_replied, by a call of this turn or by a late one of a turn before: nothing
\* tells them apart.
Replied(c) ==
    /\ turn.n > 1 \/ (turn.n = 1 /\ turn.at \in {"none", "on"})
    /\ IF turn.at = "on" /\ c \notin turn.replied
       THEN turn' = [turn EXCEPT !.replied = @ \cup {c}] /\ UNCHANGED messages
       ELSE Budget /\ UNCHANGED turn
    /\ IF c \notin chats THEN UNCHANGED <<chats, deferred, slot, tasks, replaced, astray>>
       ELSE /\ IF ~early
               THEN chats' = chats \ {c} /\ UNCHANGED <<deferred, slot, tasks, replaced>>
               ELSE /\ tasks' = tasks + 1
                    /\ deferred' = deferred \cup {[n |-> tasks', chat |-> c, turn |-> turn.n]}
                    /\ slot' = tasks'
                    /\ replaced' = (replaced \/ Sleeping(slot))
                    /\ UNCHANGED chats
            /\ astray' = (astray \/ turn.at = "sending" \/ (early /\ turn.at # "on"))
    /\ UNCHANGED <<early, loops, handle, firing, buffered, injecting, stopping, late, crossed>>

DeferredDiscard(d) ==
    /\ d \in deferred
    /\ deferred' = deferred \ {d}
    /\ chats' = chats \ {d.chat}
    /\ UNCHANGED <<early, loops, handle, slot, tasks, firing, around, stopping, history>>

SecondPasses ==
    /\ early /\ early' = FALSE
    /\ UNCHANGED <<chats, loops, handle, deferred, slot, tasks, firing, around, stopping, history>>

\* The refresh loop, woken or after its interval, ends when no chat is left.
LoopEnds(l) ==
    /\ l \in loops /\ chats = {}
    /\ loops' = loops \ {l}
    /\ UNCHANGED <<chats, early, handle, deferred, slot, tasks, firing, around, stopping, history>>

\* The result of the turn: it is over before _stop_typing begins.
StopTyping ==
    /\ turn.at = "on" /\ stopping = "no"
    /\ turn' = [turn EXCEPT !.at = "none"]
    /\ chats' = {}
    /\ stopping' = "discard"
    /\ UNCHANGED <<early, loops, handle, deferred, slot, tasks, firing, buffered, injecting,
                   messages, history>>

\* It cancels the discard in the slot and waits for it, then the loop likewise.
CancelDiscard ==
    /\ stopping = "discard" /\ stopping' = "loop"
    /\ deferred' = {d \in deferred : d.n # slot} /\ slot' = NoTask
    /\ UNCHANGED <<chats, early, loops, handle, tasks, firing, around, history>>

CancelLoop ==
    /\ stopping = "loop" /\ stopping' = "no"
    /\ loops' = loops \ {handle} /\ handle' = NoTask
    /\ UNCHANGED <<chats, early, deferred, slot, tasks, firing, around, history>>

\* After a heartbeat, or a silent stop, the same turn goes on.
Continue ==
    /\ turn.at = "none" /\ turn.n > 0 /\ stopping = "no" /\ Budget
    /\ turn' = [turn EXCEPT !.at = "kick", !.n = @ + 1]
    /\ UNCHANGED <<state, firing, buffered, injecting, stopping, history>>

-----------------------------------------------------------------------------
Init ==
    /\ chats = {} /\ early = FALSE /\ loops = {} /\ handle = NoTask
    /\ deferred = {} /\ slot = NoTask /\ tasks = 0
    /\ firing = {} /\ buffered = {} /\ injecting = {} /\ messages = 0
    /\ turn = [n |-> 0, at |-> "none", chats |-> {}, replied |-> {}]
    /\ stopping = "no" /\ late = FALSE /\ crossed = FALSE /\ replaced = FALSE /\ astray = FALSE

Next ==
    \/ \E c \in Chats : Message(c) \/ Reminder(c) \/ Replied(c)
    \/ \E who \in Starters : Fired(who)
    \/ \E b \in SUBSET buffered : Kick(b) \/ Inject(b)
    \/ KickTypes \/ Sent \/ Rearm \/ SecondPasses
    \/ \E d \in deferred : DeferredDiscard(d)
    \/ \E l \in loops : LoopEnds(l)
    \/ StopTyping \/ CancelDiscard \/ CancelLoop \/ Continue

Spec == Init /\ [][Next]_vars

-----------------------------------------------------------------------------
\* Types of the indicator's state.
TypeOK ==
    /\ chats \subseteq Chats /\ early \in BOOLEAN
    /\ loops \subseteq 1 .. tasks /\ handle \in 0 .. tasks /\ slot \in 0 .. tasks
    /\ deferred \subseteq [n : 1 .. tasks, chat : Chats, turn : 0 .. turn.n]
    /\ firing \subseteq Starters /\ stopping \in {"no", "discard", "loop"}
    /\ turn \in [n : Nat, at : {"none", "kick", "sending", "on"}, chats : SUBSET Chats,
                 replied : SUBSET Chats]
    /\ buffered \subseteq [chat : Chats, human : BOOLEAN] /\ injecting \subseteq Chats
    /\ {late, crossed, replaced, astray} \subseteq BOOLEAN /\ {tasks, messages} \subseteq Nat

\* With no message waiting and no turn, nobody is shown typing, unless an injection
\* finished after its turn.
NoStuckIndicator ==
    chats # {} => late \/ turn.at # "none" \/ buffered # {} \/ injecting # {}

\* An indicator that is on is refreshed, unless it was switched on while being stopped.
Refreshed == chats # {} => crossed \/ loops # {} \/ firing # {}

\* A chat of the turn is shown typing until it was replied to, unless the indicator was
\* switched on while being stopped, one deferred discard was lost for another, or a call
\* of a turn that was over (an abort leaves its calls running) came to its reply before
\* this one was on.
TypesUntilReplied ==
    turn.at = "on" => crossed \/ replaced \/ astray \/ turn.chats \ turn.replied \subseteq chats

-----------------------------------------------------------------------------
(* Inductive invariant *)

\* A shown indicator has its loop in the handle, or a start under way that will put it
\* there; while it is being stopped nothing is shown.
HandleRefreshes == chats # {} => crossed \/ Running(handle) \/ firing # {}
StoppedShowsNothing == stopping # "no" => crossed \/ chats = {}

\* At most one discard sleeps, the one in the slot, for a chat replied to in this turn
\* unless it went astray.
DiscardInSlot == replaced \/ \A d \in deferred : d.n = slot
DiscardOfTurn ==
    replaced \/ astray \/ \A d \in deferred :
        stopping = "discard" \/ (turn.at = "on" /\ d.chat \in turn.replied)

\* The chats of a turn are shown from before it is sent, unless it starts while the one
\* before is being stopped.
TurnIsShown ==
    turn.at \in {"sending", "on"} =>
        /\ crossed \/ replaced \/ astray \/ turn.chats \ turn.replied \subseteq chats
        /\ stopping # "no" => crossed \/ turn.chats = {}

IInv ==
    /\ TypeOK /\ HandleRefreshes /\ StoppedShowsNothing /\ DiscardInSlot /\ DiscardOfTurn
    /\ TurnIsShown /\ NoStuckIndicator /\ Refreshed /\ TypesUntilReplied
================================================================================
