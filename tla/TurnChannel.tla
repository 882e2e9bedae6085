------------------------------ MODULE TurnChannel ------------------------------
(***************************************************************************)
(* What CcWorker promises the engine about turns: the engine opens a turn  *)
(* with send(), the worker answers every open turn exactly once - with the *)
(* CLI's result or with an abort sentinel - and the engine takes the       *)
(* answer with wait_for_result() before it opens another one.  A send()    *)
(* that raises because no process is attached opens nothing and nothing    *)
(* will ever answer it.                                                    *)
(***************************************************************************)
EXTENDS Naturals

CONSTANT MaxSends

VARIABLES turn,     \* ordinal of the last turn opened
          channel   \* what is between the engine and the worker now

chanVars == <<turn, channel>>

ChannelStates == {"idle", "open", "answered", "refused"}

ChannelTypeOK == turn \in 0..MaxSends /\ channel \in ChannelStates

Init == turn = 0 /\ channel = "idle"

Open == channel = "idle" /\ turn < MaxSends /\ channel' = "open" /\ turn' = turn + 1

Refuse == channel = "idle" /\ channel' = "refused" /\ turn' = turn

Answer == channel = "open" /\ channel' = "answered" /\ turn' = turn

Take == channel = "answered" /\ channel' = "idle" /\ turn' = turn

Next == Open \/ Refuse \/ Answer \/ Take

Spec == Init /\ [][Next]_chanVars
================================================================================
