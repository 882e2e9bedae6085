---------------------------- MODULE CcWorker_proofs ----------------------------
(***************************************************************************)
(* Proofs about CcWorker for every value of its constants: the type        *)
(* invariant, one outcome per turn, the init gate, the crash budget, and   *)
(* that the worker implements TurnChannel.                                 *)
(***************************************************************************)
EXTENDS CcWorker, TLAPS

USE CcWorkerAssumption DEF CcWorkerAssumption

\* An answer for a turn in flight is one of the outcomes.
LEMMA OutcomeType ==
    ASSUME TurnTypeOK, current # 0, NEW e, e.began \in 0..MaxSends,
           NEW kind \in {"result", "session-reset", "tool-error-limit", "liveness-wedge"}
    PROVE  Outcome(kind, e) \in Outcomes
<1>1. current \in 1..MaxSends
  BY DEF TurnTypeOK
<1> QED
  BY <1>1 DEF Outcome, Outcomes, Reasons

\* A sentinel's has no event.
LEMMA SentinelType ==
    ASSUME TurnTypeOK, current # 0,
           NEW kind \in {"session-reset", "tool-error-limit", "liveness-wedge"}
    PROVE  Outcome(kind, NoTurn) \in Outcomes
BY OutcomeType DEF NoTurn

\* The events in the pipe are events.
LEMMA PipeTypes ==
    ASSUME CliTypeOK
    PROVE  \A i \in DOMAIN stdout :
              stdout[i] \in Events /\ stdout[i].began \in Nat /\ stdout[i].began \in 0..MaxSends
<1>1. \A i \in DOMAIN stdout : stdout[i] \in Events
  BY DEF CliTypeOK
<1> QED
  BY <1>1 DEF Events

\* The head of a queue is an element and the tail a queue again.
LEMMA HeadTailType ==
    ASSUME NEW S, NEW q \in Seq(S), q # <<>>
    PROVE  Head(q) \in S /\ Tail(q) \in Seq(S)
OBVIOUS

\* The elements of a queue with one more at its end,
LEMMA AppendElements ==
    ASSUME NEW S, NEW q \in Seq(S), NEW e \in S
    PROVE  /\ Append(q, e) \in Seq(S)
           /\ \A i \in DOMAIN Append(q, e) :
                \/ i \in DOMAIN q /\ Append(q, e)[i] = q[i]
                \/ i = Len(q) + 1 /\ Append(q, e)[i] = e
           /\ DOMAIN q = 1..Len(q) /\ DOMAIN Append(q, e) = 1..(Len(q) + 1)
OBVIOUS

\* and of one without its head.
LEMMA TailElements ==
    ASSUME NEW S, NEW q \in Seq(S), q # <<>>
    PROVE  /\ Head(q) = q[1] /\ 1 \in DOMAIN q
           /\ \A i \in DOMAIN Tail(q) : i + 1 \in DOMAIN q /\ Tail(q)[i] = q[i + 1]
           /\ DOMAIN q = 1..Len(q) /\ DOMAIN Tail(q) = 1..(Len(q) - 1)
OBVIOUS

\* The initial state has its types.
LEMMA TypeInit == Init => TypeOK
<1> USE DEF Init
<1>1. Init => FlagsTypeOK
  BY DEF FlagsTypeOK
<1>2. Init => SupervisorTypeOK
  BY DEF SupervisorTypeOK, Reasons
<1>3. Init => TurnTypeOK
  BY DEF TurnTypeOK
<1>4. Init => CliTypeOK
  BY DEF CliTypeOK, NoTurn, Turns
<1>5. Init => EngineTypeOK
  BY DEF EngineTypeOK
<1> QED BY <1>1, <1>2, <1>3, <1>4, <1>5 DEF TypeOK

\* Every step keeps the flags Boolean.
LEMMA FlagsTypeStep ==
    ASSUME FlagsTypeOK, [Next]_vars
    PROVE  FlagsTypeOK'
<1> USE DEF FlagsTypeOK, superVars, turnVars, errorVars
<1>1. CASE BeginTurn
  BY <1>1 DEF BeginTurn
<1>2. CASE SendTurn
  BY <1>2 DEF SendTurn
<1>3. CASE TakeForInject
  BY <1>3 DEF TakeForInject
<1>4. CASE Inject
  BY <1>4 DEF Inject
<1>5. CASE TakeResult
  BY <1>5 DEF TakeResult
<1>6. ASSUME NEW target \in 0..(nextId - 1), SwitchSession(target) PROVE FlagsTypeOK'
  BY <1>6 DEF SwitchSession, Terminate
<1>7. CASE SwitchReturns
  BY <1>7 DEF SwitchReturns
<1>8. CASE SwitchTimesOut
  BY <1>8 DEF SwitchTimesOut
<1>9. CASE ResetSession
  BY <1>9 DEF ResetSession, AbortTurn, Terminate
<1>10. CASE Stop
  BY <1>10 DEF Stop, Terminate
<1>11. CASE CliBegin
  BY <1>11 DEF CliBegin, Emit
<1>12. CASE CliFold
  BY <1>12 DEF CliFold
<1>13. CASE CliToolResult
  BY <1>13 DEF CliToolResult, Emit
<1>14. CASE CliResult
  BY <1>14 DEF CliResult, Emit
<1>15. CASE CliTerminated
  BY <1>15 DEF CliTerminated, ProcessGone, ClassifyExit, ChargeCrash, NoTurn
<1>16. ASSUME NEW rejected \in BOOLEAN, CliCrash(rejected) PROVE FlagsTypeOK'
  BY <1>16 DEF CliCrash, ProcessGone, ClassifyExit, ChargeCrash, NoTurn
<1>17. CASE ReadInit
  BY <1>17 DEF ReadInit, Read
<1>18. CASE ReadDropped
  BY <1>18 DEF ReadDropped, Read
<1>19. CASE ReadToolError
  BY <1>19 DEF ReadToolError, Read, AbortTurn, Terminate, Collecting
<1>20. CASE ReadToolOk
  BY <1>20 DEF ReadToolOk, Read
<1>21. CASE ReadResult
  BY <1>21 DEF ReadResult, Read, Collecting
<1>22. CASE DropStaleSession
  BY <1>22 DEF DropStaleSession
<1>23. CASE BeginSpawn
  BY <1>23 DEF BeginSpawn
<1>24. CASE FinishSpawn
  BY <1>24 DEF FinishSpawn
<1>25. CASE SpawnFails
  BY <1>25 DEF SpawnFails
<1>26. CASE LivenessWedge
  BY <1>26 DEF LivenessWedge, AbortTurn, Terminate
<1>27. CASE ErrorWindowLapses
  BY <1>27 DEF ErrorWindowLapses
<1>28. CASE UNCHANGED vars
  BY <1>28 DEF vars
<1> QED
  BY <1>1, <1>2, <1>3, <1>4, <1>5, <1>6, <1>7, <1>8, <1>9, <1>10, <1>11, <1>12,
     <1>13, <1>14, <1>15, <1>16, <1>17, <1>18, <1>19, <1>20, <1>21, <1>22, <1>23, <1>24,
     <1>25, <1>26, <1>27, <1>28
  DEF Next, Engine, Cli, Reader, Background

\* Every step keeps the types of the process and its supervisor.
LEMMA SupervisorTypeStep ==
    ASSUME SupervisorTypeOK, CliTypeOK, [Next]_vars
    PROVE  SupervisorTypeOK'
<1> USE DEF SupervisorTypeOK, CliTypeOK, superVars, procVars, cliVars
<1>1. CASE BeginTurn
  BY <1>1 DEF BeginTurn
<1>2. CASE SendTurn
  BY <1>2 DEF SendTurn
<1>3. CASE TakeForInject
  BY <1>3 DEF TakeForInject
<1>4. CASE Inject
  BY <1>4 DEF Inject
<1>5. CASE TakeResult
  BY <1>5 DEF TakeResult
<1>6. ASSUME NEW target \in 0..(nextId - 1), SwitchSession(target) PROVE SupervisorTypeOK'
  BY <1>6 DEF SwitchSession, Terminate, Reasons
<1>7. CASE SwitchReturns
  BY <1>7 DEF SwitchReturns
<1>8. CASE SwitchTimesOut
  BY <1>8 DEF SwitchTimesOut
<1>9. CASE ResetSession
  BY <1>9 DEF ResetSession, AbortTurn, Terminate, Reasons
<1>10. CASE Stop
  BY <1>10 DEF Stop, Terminate, Reasons
<1>11. CASE CliBegin
  BY <1>11 DEF CliBegin, Emit
<1>12. CASE CliFold
  BY <1>12 DEF CliFold
<1>13. CASE CliToolResult
  BY <1>13 DEF CliToolResult, Emit
<1>14. CASE CliResult
  BY <1>14 DEF CliResult, Emit
<1>15. CASE CliTerminated
  BY <1>15 DEF CliTerminated, ProcessGone, ClassifyExit, ChargeCrash, NoTurn, Reasons
<1>16. ASSUME NEW rejected \in BOOLEAN, CliCrash(rejected) PROVE SupervisorTypeOK'
  BY <1>16 DEF CliCrash, ProcessGone, ClassifyExit, ChargeCrash, NoTurn, Reasons
<1>17. CASE ReadInit
  BY <1>17 DEF ReadInit, Read
<1>18. CASE ReadDropped
  BY <1>18 DEF ReadDropped, Read
<1>19. CASE ReadToolError
  BY <1>19 DEF ReadToolError, Read, AbortTurn, Terminate, Collecting, Reasons
<1>20. CASE ReadToolOk
  BY <1>20 DEF ReadToolOk, Read
<1>21. CASE ReadResult
  BY <1>21 DEF ReadResult, Read, Collecting, Reasons
<1>22. CASE DropStaleSession
  BY <1>22 DEF DropStaleSession
<1>23. CASE BeginSpawn
  BY <1>23 DEF BeginSpawn
<1>24. CASE FinishSpawn
  BY <1>24 DEF FinishSpawn
<1>25. CASE SpawnFails
  BY <1>25 DEF SpawnFails
<1>26. CASE LivenessWedge
  BY <1>26 DEF LivenessWedge, AbortTurn, Terminate, Reasons
<1>27. CASE ErrorWindowLapses
  BY <1>27 DEF ErrorWindowLapses
<1>28. CASE UNCHANGED vars
  BY <1>28 DEF vars
<1> QED
  BY <1>1, <1>2, <1>3, <1>4, <1>5, <1>6, <1>7, <1>8, <1>9, <1>10, <1>11, <1>12,
     <1>13, <1>14, <1>15, <1>16, <1>17, <1>18, <1>19, <1>20, <1>21, <1>22, <1>23, <1>24,
     <1>25, <1>26, <1>27, <1>28
  DEF Next, Engine, Cli, Reader, Background

\* Every step keeps the types of the turn, its error count and its queues.
LEMMA TurnTypeStep ==
    ASSUME TurnTypeOK, CliTypeOK, EngineTypeOK, [Next]_vars
    PROVE  TurnTypeOK'
<1> USE DEF TurnTypeOK, EngineTypeOK, turnVars, errorVars, engineVars
<1>1. CASE BeginTurn
  BY <1>1 DEF BeginTurn
<1>2. CASE SendTurn
  BY <1>2 DEF SendTurn
<1>3. CASE TakeForInject
  BY <1>3 DEF TakeForInject
<1>4. CASE Inject
  BY <1>4 DEF Inject
<1>5. CASE TakeResult
  BY <1>5 DEF TakeResult
<1>6. ASSUME NEW target \in 0..(nextId - 1), SwitchSession(target) PROVE TurnTypeOK'
  BY <1>6 DEF SwitchSession, Terminate
<1>7. CASE SwitchReturns
  BY <1>7 DEF SwitchReturns
<1>8. CASE SwitchTimesOut
  BY <1>8 DEF SwitchTimesOut
<1>9. CASE ResetSession
  BY <1>9, SentinelType DEF ResetSession, AbortTurn, Terminate
<1>10. CASE Stop
  BY <1>10 DEF Stop, Terminate
<1>11. CASE CliBegin
  BY <1>11 DEF CliBegin, Emit
<1>12. CASE CliFold
  BY <1>12 DEF CliFold
<1>13. CASE CliToolResult
  BY <1>13 DEF CliToolResult, Emit
<1>14. CASE CliResult
  BY <1>14 DEF CliResult, Emit
<1>15. CASE CliTerminated
  BY <1>15 DEF CliTerminated, ProcessGone, ClassifyExit, ChargeCrash, NoTurn
<1>16. ASSUME NEW rejected \in BOOLEAN, CliCrash(rejected) PROVE TurnTypeOK'
  BY <1>16 DEF CliCrash, ProcessGone, ClassifyExit, ChargeCrash, NoTurn
<1>17. CASE ReadInit
  BY <1>17 DEF ReadInit, Read
<1>18. CASE ReadDropped
  BY <1>18 DEF ReadDropped, Read
<1>19. CASE ReadToolError
  <2>1. toolErrors' \in 0..ToolErrorMax /\ fallback' = fallback
    BY <1>19 DEF ReadToolError, Read
  <2>2. CASE UNCHANGED turnVars
    BY <2>1, <2>2
  <2>3. CASE AbortTurn("tool-error-limit")
    BY <1>19, <2>1, <2>3, SentinelType DEF ReadToolError, Collecting, AbortTurn
  <2> QED
    BY <1>19, <2>2, <2>3 DEF ReadToolError
<1>20. CASE ReadToolOk
  BY <1>20 DEF ReadToolOk, Read
<1>21. CASE ReadResult
  <2>1. Head(stdout) \in Events
    BY <1>21, HeadTailType DEF ReadResult, Read, CliTypeOK
  <2>2. Head(stdout).began \in 0..MaxSends
    BY <2>1 DEF Events
  <2> QED
    BY <1>21, <2>2, OutcomeType DEF ReadResult, Read, Collecting
<1>22. CASE DropStaleSession
  BY <1>22 DEF DropStaleSession
<1>23. CASE BeginSpawn
  BY <1>23 DEF BeginSpawn
<1>24. CASE FinishSpawn
  BY <1>24 DEF FinishSpawn
<1>25. CASE SpawnFails
  BY <1>25 DEF SpawnFails
<1>26. CASE LivenessWedge
  BY <1>26, SentinelType DEF LivenessWedge, AbortTurn, Terminate
<1>27. CASE ErrorWindowLapses
  BY <1>27 DEF ErrorWindowLapses
<1>28. CASE UNCHANGED vars
  BY <1>28 DEF vars
<1> QED
  BY <1>1, <1>2, <1>3, <1>4, <1>5, <1>6, <1>7, <1>8, <1>9, <1>10, <1>11, <1>12,
     <1>13, <1>14, <1>15, <1>16, <1>17, <1>18, <1>19, <1>20, <1>21, <1>22, <1>23, <1>24,
     <1>25, <1>26, <1>27, <1>28
  DEF Next, Engine, Cli, Reader, Background

\* Every step keeps the types of the claude process.
LEMMA CliTypeStep ==
    ASSUME SupervisorTypeOK, CliTypeOK, EngineTypeOK, [Next]_vars
    PROVE  CliTypeOK'
<1> USE DEF SupervisorTypeOK, CliTypeOK, EngineTypeOK, procVars, cliVars, engineVars
<1>1. CASE BeginTurn
  BY <1>1 DEF BeginTurn
<1>2. CASE SendTurn
  <2>1. UNCHANGED <<live, nextId, cli, stdout>>
    BY <1>2 DEF SendTurn
  <2>2. CASE proc = "up" /\ sends + 1 \in 1..MaxSends /\ stdin' = Append(stdin, sends + 1)
    <3>1. sends + 1 \in 0..MaxSends
      BY <2>2
    <3>2. stdin' \in Seq(0..MaxSends)
      BY <2>2, <3>1, AppendElements
    <3> QED
      BY <2>1, <3>2
  <2>3. CASE UNCHANGED stdin
    BY <2>1, <2>3
  <2> QED
    BY <1>2, <2>2, <2>3 DEF SendTurn
<1>3. CASE TakeForInject
  BY <1>3 DEF TakeForInject
<1>4. CASE Inject
  <2>1. 0 \in 0..MaxSends
    OBVIOUS
  <2>2. Append(stdin, 0) \in Seq(0..MaxSends)
    BY <2>1
  <2> QED
    BY <1>4, <2>2 DEF Inject
<1>5. CASE TakeResult
  BY <1>5 DEF TakeResult
<1>6. ASSUME NEW target \in 0..(nextId - 1), SwitchSession(target) PROVE CliTypeOK'
  BY <1>6 DEF SwitchSession, Terminate
<1>7. CASE SwitchReturns
  BY <1>7 DEF SwitchReturns
<1>8. CASE SwitchTimesOut
  BY <1>8 DEF SwitchTimesOut
<1>9. CASE ResetSession
  BY <1>9 DEF ResetSession, AbortTurn, Terminate
<1>10. CASE Stop
  BY <1>10 DEF Stop, Terminate
<1>11. CASE CliBegin
  <2>1. Head(stdin) \in 0..MaxSends /\ Tail(stdin) \in Seq(0..MaxSends)
    BY <1>11, HeadTailType DEF CliBegin
  <2>2. cli' = [began |-> sends, read |-> Head(stdin)] /\ cli' \in Turns
    BY <1>11, <2>1 DEF CliBegin, Turns
  <2>3. [type |-> "init", began |-> sends, read |-> 0] \in Events
    BY DEF Events
  <2>4. stdout' \in Seq(Events)
    BY <1>11, <2>3, AppendElements DEF CliBegin, Emit
  <2>5. stdin' = Tail(stdin) /\ live' \in Nat /\ nextId' \in Nat
    BY <1>11 DEF CliBegin
  <2> QED
    BY <2>1, <2>2, <2>4, <2>5
<1>12. CASE CliFold
  <2>1. Head(stdin) \in 0..MaxSends /\ Tail(stdin) \in Seq(0..MaxSends)
    BY <1>12, HeadTailType DEF CliFold
  <2>2. cli' = [cli EXCEPT !.read = IF Head(stdin) = 0 THEN @ ELSE Head(stdin)]
    BY <1>12 DEF CliFold
  <2>3. cli' \in Turns
    <3>1. Head(stdin) \in -1..MaxSends
      BY <2>1
    <3>2. cli \in Turns
      OBVIOUS
    <3> QED
      BY <2>2, <3>1, <3>2 DEF Turns
  <2>4. stdin' = Tail(stdin) /\ UNCHANGED <<live, nextId, stdout>>
    BY <1>12 DEF CliFold
  <2> QED
    BY <2>1, <2>3, <2>4
<1>13. CASE CliToolResult
  <2>1. [type |-> "tool", began |-> cli.began, read |-> 0] \in Events
    BY DEF Events, Turns
  <2>2. stdout' \in Seq(Events)
    BY <1>13, <2>1, AppendElements DEF CliToolResult, Emit
  <2> QED
    BY <1>13, <2>2 DEF CliToolResult
<1>14. CASE CliResult
  <2>1. [type |-> "result", began |-> cli.began, read |-> cli.read] \in Events
    BY DEF Events, Turns
  <2>2. stdout' \in Seq(Events)
    BY <1>14, <2>1, AppendElements DEF CliResult, Emit
  <2>3. cli' \in Turns /\ UNCHANGED <<live, nextId, stdin>>
    BY <1>14 DEF CliResult, Turns, NoTurn, Turns
  <2> QED
    BY <2>2, <2>3
<1>15. CASE CliTerminated
  BY <1>15 DEF CliTerminated, ProcessGone, ClassifyExit, ChargeCrash, NoTurn, Turns
<1>16. ASSUME NEW rejected \in BOOLEAN, CliCrash(rejected) PROVE CliTypeOK'
  BY <1>16 DEF CliCrash, ProcessGone, ClassifyExit, ChargeCrash, NoTurn, Turns
<1>17. CASE ReadInit
  <2>1. stdout' \in Seq(Events)
    BY <1>17, HeadTailType DEF ReadInit, Read
  <2> QED
    BY <1>17, <2>1 DEF ReadInit, Read
<1>18. CASE ReadDropped
  <2>1. stdout # <<>> /\ stdout' = Tail(stdout) /\ UNCHANGED procVars
    BY <1>18 DEF ReadDropped, Read
  <2>2. stdout' \in Seq(Events)
    BY <2>1, HeadTailType
  <2> QED
    BY <2>1, <2>2
<1>19. CASE ReadToolError
  <2>1. stdout' \in Seq(Events)
    BY <1>19, HeadTailType DEF ReadToolError, Read
  <2> QED
    BY <1>19, <2>1 DEF ReadToolError, Read
<1>20. CASE ReadToolOk
  <2>1. stdout' \in Seq(Events)
    BY <1>20, HeadTailType DEF ReadToolOk, Read
  <2> QED
    BY <1>20, <2>1 DEF ReadToolOk, Read
<1>21. CASE ReadResult
  <2>1. stdout' \in Seq(Events)
    BY <1>21, HeadTailType DEF ReadResult, Read
  <2> QED
    BY <1>21, <2>1 DEF ReadResult, Read
<1>22. CASE DropStaleSession
  BY <1>22 DEF DropStaleSession
<1>23. CASE BeginSpawn
  BY <1>23 DEF BeginSpawn
<1>24. CASE FinishSpawn
  BY <1>24 DEF FinishSpawn
<1>25. CASE SpawnFails
  BY <1>25 DEF SpawnFails
<1>26. CASE LivenessWedge
  BY <1>26 DEF LivenessWedge, AbortTurn, Terminate
<1>27. CASE ErrorWindowLapses
  BY <1>27 DEF ErrorWindowLapses
<1>28. CASE UNCHANGED vars
  BY <1>28 DEF vars
<1> QED
  BY <1>1, <1>2, <1>3, <1>4, <1>5, <1>6, <1>7, <1>8, <1>9, <1>10, <1>11, <1>12,
     <1>13, <1>14, <1>15, <1>16, <1>17, <1>18, <1>19, <1>20, <1>21, <1>22, <1>23, <1>24,
     <1>25, <1>26, <1>27, <1>28
  DEF Next, Engine, Cli, Reader, Background

\* Every step keeps the engine's side within its bounds.
LEMMA EngineTypeStep ==
    ASSUME EngineTypeOK, [Next]_vars
    PROVE  EngineTypeOK'
<1> USE DEF EngineTypeOK, engineVars
<1>1. CASE BeginTurn
  BY <1>1 DEF BeginTurn
<1>2. CASE SendTurn
  <2>1. sends' \in 0..MaxSends /\ phase' \in {"refused", "sent"}
        /\ UNCHANGED <<injecting, injects, resets, switches, exits>>
    BY <1>2 DEF SendTurn
  <2>2. overlapped' \subseteq overlapped \cup {sends + 1} /\ sends + 1 \in 1..MaxSends
    BY <1>2 DEF SendTurn
  <2> QED
    BY <2>1, <2>2
<1>3. CASE TakeForInject
  BY <1>3 DEF TakeForInject
<1>4. CASE Inject
  BY <1>4 DEF Inject
<1>5. CASE TakeResult
  BY <1>5 DEF TakeResult
<1>6. ASSUME NEW target \in 0..(nextId - 1), SwitchSession(target) PROVE EngineTypeOK'
  BY <1>6 DEF SwitchSession, Terminate
<1>7. CASE SwitchReturns
  BY <1>7 DEF SwitchReturns
<1>8. CASE SwitchTimesOut
  BY <1>8 DEF SwitchTimesOut
<1>9. CASE ResetSession
  BY <1>9 DEF ResetSession, AbortTurn, Terminate
<1>10. CASE Stop
  BY <1>10 DEF Stop, Terminate
<1>11. CASE CliBegin
  BY <1>11 DEF CliBegin, Emit
<1>12. CASE CliFold
  BY <1>12 DEF CliFold
<1>13. CASE CliToolResult
  BY <1>13 DEF CliToolResult, Emit
<1>14. CASE CliResult
  BY <1>14 DEF CliResult, Emit
<1>15. CASE CliTerminated
  BY <1>15 DEF CliTerminated, ProcessGone, ClassifyExit, ChargeCrash, NoTurn
<1>16. ASSUME NEW rejected \in BOOLEAN, CliCrash(rejected) PROVE EngineTypeOK'
  BY <1>16 DEF CliCrash, ProcessGone, ClassifyExit, ChargeCrash, NoTurn
<1>17. CASE ReadInit
  BY <1>17 DEF ReadInit, Read
<1>18. CASE ReadDropped
  BY <1>18 DEF ReadDropped, Read
<1>19. CASE ReadToolError
  BY <1>19 DEF ReadToolError, Read, AbortTurn, Terminate, Collecting
<1>20. CASE ReadToolOk
  BY <1>20 DEF ReadToolOk, Read
<1>21. CASE ReadResult
  BY <1>21 DEF ReadResult, Read, Collecting
<1>22. CASE DropStaleSession
  BY <1>22 DEF DropStaleSession
<1>23. CASE BeginSpawn
  BY <1>23 DEF BeginSpawn
<1>24. CASE FinishSpawn
  BY <1>24 DEF FinishSpawn
<1>25. CASE SpawnFails
  BY <1>25 DEF SpawnFails
<1>26. CASE LivenessWedge
  BY <1>26 DEF LivenessWedge, AbortTurn, Terminate
<1>27. CASE ErrorWindowLapses
  BY <1>27 DEF ErrorWindowLapses
<1>28. CASE UNCHANGED vars
  BY <1>28 DEF vars
<1> QED
  BY <1>1, <1>2, <1>3, <1>4, <1>5, <1>6, <1>7, <1>8, <1>9, <1>10, <1>11, <1>12,
     <1>13, <1>14, <1>15, <1>16, <1>17, <1>18, <1>19, <1>20, <1>21, <1>22, <1>23, <1>24,
     <1>25, <1>26, <1>27, <1>28
  DEF Next, Engine, Cli, Reader, Background

\* Every step keeps all types.
LEMMA TypeStep ==
    ASSUME TypeOK, [Next]_vars
    PROVE  TypeOK'
BY FlagsTypeStep, SupervisorTypeStep, TurnTypeStep, CliTypeStep, EngineTypeStep
DEF TypeOK

--------------------------------------------------------------------------------
(* One outcome per turn: current and results change together with phase. *)

\* A step that answers the turn in flight leaves exactly that answer.
LEMMA AnswerStep ==
    ASSUME TurnTypeOK, EngineTypeOK, OneOutcomePerTurn, current # 0,
           NEW kind, NEW e, results' = Append(results, Outcome(kind, e)), current' = 0,
           UNCHANGED <<phase, sends>>
    PROVE  OneOutcomePerTurn'
<1>1. phase = "sent" /\ current = sends /\ results = <<>>
  BY DEF OneOutcomePerTurn, TurnTypeOK
<1>2. results' = <<Outcome(kind, e)>> /\ Outcome(kind, e).turn = sends
  BY <1>1 DEF Outcome
<1> QED
  BY <1>1, <1>2 DEF OneOutcomePerTurn

\* Every step keeps one answer per turn.
LEMMA OneOutcomeStep ==
    ASSUME TurnTypeOK, EngineTypeOK, OneOutcomePerTurn, [Next]_vars
    PROVE  OneOutcomePerTurn'
<1> USE DEF TurnTypeOK, EngineTypeOK, OneOutcomePerTurn, turnVars, engineVars
<1>1. CASE BeginTurn
  BY <1>1 DEF BeginTurn
<1>2. CASE SendTurn
  BY <1>2 DEF SendTurn
<1>3. CASE TakeForInject
  BY <1>3 DEF TakeForInject
<1>4. CASE Inject
  BY <1>4 DEF Inject
<1>5. CASE TakeResult
  BY <1>5 DEF TakeResult
<1>6. ASSUME NEW target \in 0..(nextId - 1), SwitchSession(target) PROVE OneOutcomePerTurn'
  BY <1>6 DEF SwitchSession
<1>7. CASE SwitchReturns
  BY <1>7 DEF SwitchReturns
<1>8. CASE SwitchTimesOut
  BY <1>8 DEF SwitchTimesOut
<1>9. CASE ResetSession
  <2>1. CASE current = 0
    BY <1>9, <2>1 DEF ResetSession
  <2>2. CASE current # 0
    BY <1>9, <2>2, AnswerStep DEF ResetSession, AbortTurn
  <2> QED BY <2>1, <2>2
<1>10. CASE Stop
  BY <1>10 DEF Stop
<1>11. CASE CliBegin
  BY <1>11 DEF CliBegin, Emit
<1>12. CASE CliFold
  BY <1>12 DEF CliFold
<1>13. CASE CliToolResult
  BY <1>13 DEF CliToolResult, Emit
<1>14. CASE CliResult
  BY <1>14 DEF CliResult, Emit
<1>15. CASE CliTerminated
  BY <1>15 DEF CliTerminated, ProcessGone
<1>16. ASSUME NEW rejected \in BOOLEAN, CliCrash(rejected) PROVE OneOutcomePerTurn'
  BY <1>16 DEF CliCrash, ProcessGone
<1>17. CASE ReadInit
  BY <1>17 DEF ReadInit, Read
<1>18. CASE ReadDropped
  BY <1>18 DEF ReadDropped, Read
<1>19. CASE ReadToolError
  BY <1>19, AnswerStep DEF ReadToolError, Read, AbortTurn, Collecting
<1>20. CASE ReadToolOk
  BY <1>20 DEF ReadToolOk, Read
<1>21. CASE ReadResult
  BY <1>21, AnswerStep DEF ReadResult, Read, Collecting
<1>22. CASE DropStaleSession
  BY <1>22 DEF DropStaleSession
<1>23. CASE BeginSpawn
  BY <1>23 DEF BeginSpawn
<1>24. CASE FinishSpawn
  BY <1>24 DEF FinishSpawn
<1>25. CASE SpawnFails
  BY <1>25 DEF SpawnFails
<1>26. CASE LivenessWedge
  BY <1>26, AnswerStep DEF LivenessWedge, AbortTurn
<1>27. CASE ErrorWindowLapses
  BY <1>27 DEF ErrorWindowLapses
<1>28. CASE UNCHANGED vars
  BY <1>28 DEF vars
<1> QED
  BY <1>1, <1>2, <1>3, <1>4, <1>5, <1>6, <1>7, <1>8, <1>9, <1>10, <1>11, <1>12,
     <1>13, <1>14, <1>15, <1>16, <1>17, <1>18, <1>19, <1>20, <1>21, <1>22, <1>23, <1>24,
     <1>25, <1>26, <1>27, <1>28
  DEF Next, Engine, Cli, Reader, Background

--------------------------------------------------------------------------------
(* The init gate. *)

\* What the CLI writes comes after all that is in the pipe.
LEMMA PipeEmits ==
    ASSUME CliTypeOK, EngineTypeOK, PipeInOrder, NEW e \in Events,
           stdout' = Append(stdout, e), sends' = sends,
           e.began <= sends, cli'.began <= sends,
           \A i \in DOMAIN stdout : stdout[i].began <= e.began,
           cli' # NoTurn => e.began = cli'.began
    PROVE  PipeInOrder'
<1>1. \A i \in DOMAIN stdout' : \/ i \in DOMAIN stdout /\ stdout'[i] = stdout[i]
                                \/ i = Len(stdout) + 1 /\ stdout'[i] = e
  BY AppendElements DEF CliTypeOK
<1>2. DOMAIN stdout = 1..Len(stdout) /\ Len(stdout) \in Nat
      /\ DOMAIN stdout' = 1..(Len(stdout) + 1)
  BY AppendElements DEF CliTypeOK
<1>0. e.began \in Nat
  BY DEF Events
<1>3. \A i, j \in DOMAIN stdout' : i < j => stdout'[i].began <= stdout'[j].began
  BY <1>0, <1>1, <1>2 DEF PipeInOrder
<1>4. \A i \in DOMAIN stdout' : stdout'[i].began <= sends
                               /\ (cli' # NoTurn => stdout'[i].began <= cli'.began)
  BY <1>0, <1>1, <1>2 DEF PipeInOrder
<1> QED
  BY <1>3, <1>4 DEF PipeInOrder

\* What is read is at its head.
LEMMA PipeReads ==
    ASSUME CliTypeOK, EngineTypeOK, PipeInOrder, stdout # <<>>,
           stdout' = Tail(stdout), UNCHANGED <<sends, cli>>
    PROVE  PipeInOrder'
<1>1. \A i \in DOMAIN stdout' : i + 1 \in DOMAIN stdout /\ stdout'[i] = stdout[i + 1]
  BY TailElements DEF CliTypeOK
<1>2. DOMAIN stdout = 1..Len(stdout) /\ Len(stdout) \in Nat
      /\ DOMAIN stdout' = 1..(Len(stdout) - 1)
  BY TailElements DEF CliTypeOK
<1>3. \A i, j \in DOMAIN stdout' : i < j => stdout'[i].began <= stdout'[j].began
  BY <1>1, <1>2 DEF PipeInOrder
<1>4. \A i \in DOMAIN stdout' : stdout'[i].began <= sends
                               /\ (cli' # NoTurn => stdout'[i].began <= cli'.began)
  BY <1>1 DEF PipeInOrder
<1> QED
  BY <1>3, <1>4 DEF PipeInOrder

\* Every step keeps the pipe in the order of the CLI's turns.
LEMMA PipeStep ==
    ASSUME CliTypeOK, EngineTypeOK, PipeInOrder, [Next]_vars
    PROVE  PipeInOrder'
<1> USE DEF procVars, cliVars, engineVars
<1>1. CASE BeginTurn
  BY <1>1 DEF BeginTurn, PipeInOrder
<1>2. CASE SendTurn
  <2>1. UNCHANGED <<stdout, cli>> /\ sends <= sends'
    BY <1>2 DEF SendTurn, EngineTypeOK
  <2>2. sends \in Nat /\ sends' \in Nat /\ cli.began \in Nat
    BY <1>2 DEF SendTurn, EngineTypeOK, CliTypeOK, Turns
  <2>3. \A i \in DOMAIN stdout : stdout[i].began \in Nat
    BY PipeTypes
  <2> QED
    BY <2>1, <2>2, <2>3 DEF PipeInOrder
<1>3. CASE TakeForInject
  BY <1>3 DEF TakeForInject, PipeInOrder
<1>4. CASE Inject
  BY <1>4 DEF Inject, PipeInOrder
<1>5. CASE TakeResult
  BY <1>5 DEF TakeResult, PipeInOrder
<1>6. ASSUME NEW target \in 0..(nextId - 1), SwitchSession(target) PROVE PipeInOrder'
  BY <1>6 DEF SwitchSession, PipeInOrder
<1>7. CASE SwitchReturns
  BY <1>7 DEF SwitchReturns, PipeInOrder
<1>8. CASE SwitchTimesOut
  BY <1>8 DEF SwitchTimesOut, PipeInOrder
<1>9. CASE ResetSession
  BY <1>9 DEF ResetSession, PipeInOrder
<1>10. CASE Stop
  BY <1>10 DEF Stop, PipeInOrder
<1>11. CASE CliBegin
  <2>1. [type |-> "init", began |-> sends, read |-> 0] \in Events
    BY DEF Events, EngineTypeOK
  <2>2. cli'.began = sends
    BY <1>11 DEF CliBegin
  <2> QED
    <3>1. sends' = sends /\ sends \in Nat /\ stdout' = Append(stdout, [type |-> "init", began |-> sends, read |-> 0])
      BY <1>11 DEF CliBegin, Emit, EngineTypeOK
    <3>2. \A i \in DOMAIN stdout : stdout[i].began <= sends
      BY DEF PipeInOrder
    <3> QED
      BY <2>1, <2>2, <3>1, <3>2, PipeEmits
<1>12. CASE CliFold
  <2>1. cli # NoTurn /\ cli'.began = cli.began /\ UNCHANGED <<stdout, sends>>
    BY <1>12 DEF CliFold, CliTypeOK, Turns
  <2> QED
    BY <2>1 DEF PipeInOrder
<1>13. CASE CliToolResult
  <2>1. [type |-> "tool", began |-> cli.began, read |-> 0] \in Events
    BY DEF Events, CliTypeOK, Turns, EngineTypeOK
  <2> QED
    BY <1>13, <2>1, PipeEmits DEF CliToolResult, Emit, PipeInOrder
<1>14. CASE CliResult
  <2>1. [type |-> "result", began |-> cli.began, read |-> cli.read] \in Events
    BY DEF Events, CliTypeOK, Turns
  <2>2. cli' = NoTurn /\ cli'.began <= sends
    BY <1>14 DEF CliResult, NoTurn, EngineTypeOK
  <2> QED
    BY <1>14, <2>1, <2>2, PipeEmits DEF CliResult, Emit, PipeInOrder
<1>15. CASE CliTerminated
  BY <1>15 DEF CliTerminated, ProcessGone, NoTurn, PipeInOrder, EngineTypeOK
<1>16. ASSUME NEW rejected \in BOOLEAN, CliCrash(rejected) PROVE PipeInOrder'
  BY <1>16 DEF CliCrash, ProcessGone, NoTurn, PipeInOrder, EngineTypeOK
<1>17. CASE ReadInit
  BY <1>17, PipeReads DEF ReadInit, Read
<1>18. CASE ReadDropped
  BY <1>18, PipeReads DEF ReadDropped, Read
<1>19. CASE ReadToolError
  BY <1>19, PipeReads DEF ReadToolError, Read
<1>20. CASE ReadToolOk
  BY <1>20, PipeReads DEF ReadToolOk, Read
<1>21. CASE ReadResult
  BY <1>21, PipeReads DEF ReadResult, Read
<1>22. CASE DropStaleSession
  BY <1>22 DEF DropStaleSession, PipeInOrder
<1>23. CASE BeginSpawn
  BY <1>23 DEF BeginSpawn, PipeInOrder
<1>24. CASE FinishSpawn
  BY <1>24 DEF FinishSpawn, PipeInOrder
<1>25. CASE SpawnFails
  BY <1>25 DEF SpawnFails, PipeInOrder
<1>26. CASE LivenessWedge
  BY <1>26 DEF LivenessWedge, PipeInOrder
<1>27. CASE ErrorWindowLapses
  BY <1>27 DEF ErrorWindowLapses, PipeInOrder
<1>28. CASE UNCHANGED vars
  BY <1>28 DEF vars, PipeInOrder
<1> QED
  BY <1>1, <1>2, <1>3, <1>4, <1>5, <1>6, <1>7, <1>8, <1>9, <1>10, <1>11, <1>12,
     <1>13, <1>14, <1>15, <1>16, <1>17, <1>18, <1>19, <1>20, <1>21, <1>22, <1>23, <1>24,
     <1>25, <1>26, <1>27, <1>28
  DEF Next, Engine, Cli, Reader, Background

\* Every answer queued by an action that answers with a sentinel, or by none, is
\* still behind the gate.
LEMMA GateAnswers ==
    ASSUME GateHolds, results \in Seq(Outcomes), overlapped' = overlapped,
           NEW kind, NEW e, results' = Append(results, Outcome(kind, e)),
           kind = "result" => e.began = current \/ current \in overlapped
    PROVE  GateHolds'
<1>1. \A i \in DOMAIN results' : \/ i \in DOMAIN results /\ results'[i] = results[i]
                                 \/ results'[i] = Outcome(kind, e)
  OBVIOUS
<1> QED
  BY <1>1 DEF GateHolds, Outcome

\* Every step keeps the answers behind the gate.
LEMMA GateStep ==
    ASSUME TurnTypeOK, CliTypeOK, EngineTypeOK, OneOutcomePerTurn, GateHolds,
           GateIsCurrent, [Next]_vars
    PROVE  GateHolds'
<1> USE DEF turnVars, engineVars
<1>0. results \in Seq(Outcomes)
  BY DEF TurnTypeOK
<1>1. CASE BeginTurn
  BY <1>1 DEF BeginTurn, GateHolds
<1>2. CASE SendTurn
  <2>1. results = <<>> \/ UNCHANGED <<results, overlapped>>
    BY <1>2 DEF SendTurn, OneOutcomePerTurn
  <2>2. results' = results
    BY <1>2 DEF SendTurn
  <2> QED
    BY <2>1, <2>2 DEF GateHolds
<1>3. CASE TakeForInject
  BY <1>3 DEF TakeForInject, GateHolds
<1>4. CASE Inject
  BY <1>4 DEF Inject, GateHolds
<1>5. CASE TakeResult
  <2>1. \A i \in DOMAIN results' : i + 1 \in DOMAIN results /\ results'[i] = results[i + 1]
    BY <1>5, <1>0, TailElements DEF TakeResult
  <2> QED
    BY <1>5, <2>1 DEF TakeResult, GateHolds
<1>6. ASSUME NEW target \in 0..(nextId - 1), SwitchSession(target) PROVE GateHolds'
  BY <1>6 DEF SwitchSession, GateHolds
<1>7. CASE SwitchReturns
  BY <1>7 DEF SwitchReturns, GateHolds
<1>8. CASE SwitchTimesOut
  BY <1>8 DEF SwitchTimesOut, GateHolds
<1>9. CASE ResetSession
  <2>1. CASE current = 0
    BY <1>9, <2>1 DEF ResetSession, GateHolds
  <2>2. CASE current # 0
    BY <1>9, <1>0, <2>2, GateAnswers DEF ResetSession, AbortTurn
  <2> QED BY <2>1, <2>2
<1>10. CASE Stop
  BY <1>10 DEF Stop, GateHolds
<1>11. CASE CliBegin
  BY <1>11 DEF CliBegin, Emit, GateHolds
<1>12. CASE CliFold
  BY <1>12 DEF CliFold, GateHolds
<1>13. CASE CliToolResult
  BY <1>13 DEF CliToolResult, Emit, GateHolds
<1>14. CASE CliResult
  BY <1>14 DEF CliResult, Emit, GateHolds
<1>15. CASE CliTerminated
  BY <1>15 DEF CliTerminated, ProcessGone, GateHolds
<1>16. ASSUME NEW rejected \in BOOLEAN, CliCrash(rejected) PROVE GateHolds'
  BY <1>16 DEF CliCrash, ProcessGone, GateHolds
<1>17. CASE ReadInit
  BY <1>17 DEF ReadInit, Read, GateHolds
<1>18. CASE ReadDropped
  BY <1>18 DEF ReadDropped, Read, GateHolds
<1>19. CASE ReadToolError
  <2>1. CASE UNCHANGED turnVars
    BY <1>19, <2>1 DEF ReadToolError, Read, GateHolds
  <2>2. CASE AbortTurn("tool-error-limit")
    BY <1>19, <1>0, <2>2, GateAnswers DEF ReadToolError, Read, AbortTurn
  <2> QED BY <1>19, <2>1, <2>2 DEF ReadToolError
<1>20. CASE ReadToolOk
  BY <1>20 DEF ReadToolOk, Read, GateHolds
<1>21. CASE ReadResult
  <2>1. current # 0 /\ ~awaitingInit /\ stdout # <<>>
    BY <1>21 DEF ReadResult, Read, Collecting
  <2>2. Head(stdout) = stdout[1] /\ 1 \in DOMAIN stdout
    BY <2>1, TailElements DEF CliTypeOK
  <2>3. Head(stdout).began = current \/ current \in overlapped
    BY <2>1, <2>2 DEF GateIsCurrent
  <2> QED
    BY <1>21, <1>0, <2>3, GateAnswers DEF ReadResult, Read
<1>22. CASE DropStaleSession
  BY <1>22 DEF DropStaleSession, GateHolds
<1>23. CASE BeginSpawn
  BY <1>23 DEF BeginSpawn, GateHolds
<1>24. CASE FinishSpawn
  BY <1>24 DEF FinishSpawn, GateHolds
<1>25. CASE SpawnFails
  BY <1>25 DEF SpawnFails, GateHolds
<1>26. CASE LivenessWedge
  BY <1>26, <1>0, GateAnswers DEF LivenessWedge, AbortTurn
<1>27. CASE ErrorWindowLapses
  BY <1>27 DEF ErrorWindowLapses, GateHolds
<1>28. CASE UNCHANGED vars
  BY <1>28 DEF vars, GateHolds
<1> QED
  BY <1>1, <1>2, <1>3, <1>4, <1>5, <1>6, <1>7, <1>8, <1>9, <1>10, <1>11, <1>12,
     <1>13, <1>14, <1>15, <1>16, <1>17, <1>18, <1>19, <1>20, <1>21, <1>22, <1>23, <1>24,
     <1>25, <1>26, <1>27, <1>28
  DEF Next, Engine, Cli, Reader, Background

\* A turn in flight is the last one sent.
LEMMA CurrentIsLast ==
    ASSUME TurnTypeOK, EngineTypeOK, OneOutcomePerTurn, current # 0
    PROVE  current = sends /\ phase = "sent"
BY DEF TurnTypeOK, EngineTypeOK, OneOutcomePerTurn

\* An action that only takes from the pipe keeps the gate current.
LEMMA CurrentReads ==
    ASSUME CliTypeOK, GateIsCurrent, stdout # <<>>, stdout' = Tail(stdout),
           UNCHANGED <<current, awaitingInit, overlapped, cli>>
    PROVE  GateIsCurrent'
<1>1. \A i \in DOMAIN stdout' : i + 1 \in DOMAIN stdout /\ stdout'[i] = stdout[i + 1]
  BY TailElements DEF CliTypeOK
<1> QED
  BY <1>1 DEF GateIsCurrent

\* An action that writes an event of the running turn, or the init of a turn begun
\* after the last send, keeps it too.
LEMMA CurrentEmits ==
    ASSUME CliTypeOK, GateIsCurrent, NEW e \in Events, stdout' = Append(stdout, e),
           UNCHANGED <<current, awaitingInit, overlapped>>,
           current # 0 /\ current \notin overlapped =>
               /\ e.type = "init" \/ ~awaitingInit => e.began = current
               /\ ~awaitingInit => cli' = NoTurn \/ cli'.began = current
    PROVE  GateIsCurrent'
<1>1. \A i \in DOMAIN stdout' : \/ i \in DOMAIN stdout /\ stdout'[i] = stdout[i]
                                \/ stdout'[i] = e
  BY AppendElements DEF CliTypeOK
<1> QED
  BY <1>1 DEF GateIsCurrent

\* Every step keeps the gate current.
LEMMA GateCurrentStep ==
    ASSUME TurnTypeOK, CliTypeOK, EngineTypeOK, OneOutcomePerTurn, PipeInOrder,
           GateIsCurrent, [Next]_vars
    PROVE  GateIsCurrent'
<1> USE DEF turnVars, procVars, cliVars, engineVars
<1>1. CASE BeginTurn
  BY <1>1 DEF BeginTurn, GateIsCurrent
<1>2. CASE SendTurn
  <2>1. CASE proc = "none"
    BY <1>2, <2>1 DEF SendTurn, GateIsCurrent
  <2>2. CASE proc # "none"
    <3>1. current' = sends + 1 /\ awaitingInit' /\ stdout' = stdout
      BY <1>2, <2>2 DEF SendTurn
    <3>2. current' \notin overlapped' => ~InitUnread
      BY <1>2, <2>2, <3>1 DEF SendTurn
    <3> QED
      BY <3>1, <3>2 DEF GateIsCurrent, InitUnread
  <2> QED BY <2>1, <2>2
<1>3. CASE TakeForInject
  BY <1>3 DEF TakeForInject, GateIsCurrent
<1>4. CASE Inject
  BY <1>4 DEF Inject, GateIsCurrent
<1>5. CASE TakeResult
  BY <1>5 DEF TakeResult, GateIsCurrent
<1>6. ASSUME NEW target \in 0..(nextId - 1), SwitchSession(target) PROVE GateIsCurrent'
  BY <1>6 DEF SwitchSession, GateIsCurrent
<1>7. CASE SwitchReturns
  BY <1>7 DEF SwitchReturns, GateIsCurrent
<1>8. CASE SwitchTimesOut
  BY <1>8 DEF SwitchTimesOut, GateIsCurrent
<1>9. CASE ResetSession
  <2>1. current' = 0
    BY <1>9 DEF ResetSession, AbortTurn
  <2> QED
    BY <2>1 DEF GateIsCurrent
<1>10. CASE Stop
  BY <1>10 DEF Stop, GateIsCurrent
<1>11. CASE CliBegin
  <2>1. [type |-> "init", began |-> sends, read |-> 0] \in Events
    BY DEF Events, EngineTypeOK
  <2>2. cli'.began = sends
    BY <1>11 DEF CliBegin
  <2>3. current # 0 => current = sends
    BY CurrentIsLast
  <2> QED
    BY <1>11, <2>1, <2>2, <2>3, CurrentEmits DEF CliBegin, Emit
<1>12. CASE CliFold
  <2>1. cli # NoTurn /\ cli'.began = cli.began
        /\ UNCHANGED <<stdout, current, awaitingInit, overlapped>>
    BY <1>12 DEF CliFold, CliTypeOK, Turns
  <2> QED
    BY <2>1 DEF GateIsCurrent
<1>13. CASE CliToolResult
  <2>1. [type |-> "tool", began |-> cli.began, read |-> 0] \in Events
    BY DEF Events, CliTypeOK, Turns
  <2>2. cli # NoTurn /\ cli' = cli
    BY <1>13 DEF CliToolResult
  <2>3. current # 0 /\ current \notin overlapped /\ ~awaitingInit => cli.began = current
    BY <2>2 DEF GateIsCurrent
  <2> QED
    BY <1>13, <2>1, <2>2, <2>3, CurrentEmits DEF CliToolResult, Emit
<1>14. CASE CliResult
  <2>1. [type |-> "result", began |-> cli.began, read |-> cli.read] \in Events
    BY DEF Events, CliTypeOK, Turns
  <2>2. cli # NoTurn /\ cli' = NoTurn
    BY <1>14 DEF CliResult
  <2>3. current # 0 /\ current \notin overlapped /\ ~awaitingInit => cli.began = current
    BY <2>2 DEF GateIsCurrent
  <2> QED
    BY <1>14, <2>1, <2>2, <2>3, CurrentEmits DEF CliResult, Emit
<1>15. CASE CliTerminated
  BY <1>15 DEF CliTerminated, ProcessGone, GateIsCurrent
<1>16. ASSUME NEW rejected \in BOOLEAN, CliCrash(rejected) PROVE GateIsCurrent'
  BY <1>16 DEF CliCrash, ProcessGone, GateIsCurrent
<1>17. CASE ReadInit
  <2>1. stdout # <<>> /\ stdout' = Tail(stdout) /\ Head(stdout).type = "init" /\ ~awaitingInit'
        /\ UNCHANGED <<current, overlapped, cli>>
    BY <1>17 DEF ReadInit, Read
  <2>2. /\ Head(stdout) = stdout[1] /\ 1 \in DOMAIN stdout
        /\ \A i \in DOMAIN stdout' : i + 1 \in DOMAIN stdout /\ stdout'[i] = stdout[i + 1]
        /\ DOMAIN stdout' = 1..(Len(stdout) - 1)
    BY <2>1, TailElements DEF CliTypeOK
  <2> SUFFICES ASSUME current # 0, current \notin overlapped
               PROVE  /\ \A i \in DOMAIN stdout' : stdout'[i].began = current
                      /\ cli # NoTurn => cli.began = current
    BY <2>1 DEF GateIsCurrent
  <2>3. current = sends /\ sends \in Nat
    BY CurrentIsLast DEF EngineTypeOK
  <2>4. stdout[1].began = current
    BY <2>1, <2>2 DEF GateIsCurrent
  <2>5. \A i \in DOMAIN stdout : stdout[i].began \in Nat /\ stdout[i].began <= sends
    BY PipeTypes DEF PipeInOrder
  <2>6. \A i \in DOMAIN stdout' : stdout[1].began <= stdout'[i].began
    BY <2>2 DEF PipeInOrder
  <2>7. \A i \in DOMAIN stdout' : stdout'[i].began = current
    BY <2>2, <2>3, <2>4, <2>5, <2>6
  <2>8. cli # NoTurn => cli.began = current
    BY <2>2, <2>3, <2>4 DEF PipeInOrder, CliTypeOK, Turns
  <2> QED BY <2>7, <2>8
<1>18. CASE ReadDropped
  BY <1>18, CurrentReads DEF ReadDropped, Read
<1>19. CASE ReadToolError
  <2>1. CASE UNCHANGED turnVars
    BY <1>19, <2>1, CurrentReads DEF ReadToolError, Read
  <2>2. CASE AbortTurn("tool-error-limit")
    BY <2>2 DEF AbortTurn, GateIsCurrent
  <2> QED BY <1>19, <2>1, <2>2 DEF ReadToolError
<1>20. CASE ReadToolOk
  BY <1>20, CurrentReads DEF ReadToolOk, Read
<1>21. CASE ReadResult
  BY <1>21 DEF ReadResult, GateIsCurrent
<1>22. CASE DropStaleSession
  BY <1>22 DEF DropStaleSession, GateIsCurrent
<1>23. CASE BeginSpawn
  BY <1>23 DEF BeginSpawn, GateIsCurrent
<1>24. CASE FinishSpawn
  BY <1>24 DEF FinishSpawn, GateIsCurrent
<1>25. CASE SpawnFails
  BY <1>25 DEF SpawnFails, GateIsCurrent
<1>26. CASE LivenessWedge
  BY <1>26 DEF LivenessWedge, AbortTurn, GateIsCurrent
<1>27. CASE ErrorWindowLapses
  BY <1>27 DEF ErrorWindowLapses, GateIsCurrent
<1>28. CASE UNCHANGED vars
  BY <1>28 DEF vars, GateIsCurrent
<1> QED
  BY <1>1, <1>2, <1>3, <1>4, <1>5, <1>6, <1>7, <1>8, <1>9, <1>10, <1>11, <1>12,
     <1>13, <1>14, <1>15, <1>16, <1>17, <1>18, <1>19, <1>20, <1>21, <1>22, <1>23, <1>24,
     <1>25, <1>26, <1>27, <1>28
  DEF Next, Engine, Cli, Reader, Background

--------------------------------------------------------------------------------
(* The supervisor: every exit is seen, counted once, and known when planned. *)

\* Every step keeps the exit watched, the budget and the reasons for kills.
LEMMA SupervisorStep ==
    ASSUME SupervisorTypeOK, ProcessIsWatched, BudgetIsKept, KillsHaveReasons, [Next]_vars
    PROVE  ProcessIsWatched' /\ BudgetIsKept' /\ KillsHaveReasons'
<1> USE DEF SupervisorTypeOK, ProcessIsWatched, BudgetIsKept, KillsHaveReasons, superVars
<1>1. CASE BeginTurn
  BY <1>1 DEF BeginTurn
<1>2. CASE SendTurn
  BY <1>2 DEF SendTurn
<1>3. CASE TakeForInject
  BY <1>3 DEF TakeForInject
<1>4. CASE Inject
  BY <1>4 DEF Inject
<1>5. CASE TakeResult
  BY <1>5 DEF TakeResult
<1>6. ASSUME NEW target \in 0..(nextId - 1), SwitchSession(target)
      PROVE ProcessIsWatched' /\ BudgetIsKept' /\ KillsHaveReasons'
  BY <1>6 DEF SwitchSession, Terminate
<1>7. CASE SwitchReturns
  BY <1>7 DEF SwitchReturns
<1>8. CASE SwitchTimesOut
  BY <1>8 DEF SwitchTimesOut
<1>9. CASE ResetSession
  BY <1>9 DEF ResetSession, Terminate
<1>10. CASE Stop
  BY <1>10 DEF Stop, Terminate
<1>11. CASE CliBegin
  BY <1>11 DEF CliBegin, Emit
<1>12. CASE CliFold
  BY <1>12 DEF CliFold
<1>13. CASE CliToolResult
  BY <1>13 DEF CliToolResult, Emit
<1>14. CASE CliResult
  BY <1>14 DEF CliResult, Emit
<1>15. CASE CliTerminated
  BY <1>15 DEF CliTerminated, ProcessGone, ClassifyExit, ChargeCrash
<1>16. ASSUME NEW rejected \in BOOLEAN, CliCrash(rejected)
      PROVE ProcessIsWatched' /\ BudgetIsKept' /\ KillsHaveReasons'
  BY <1>16 DEF CliCrash, ProcessGone, ClassifyExit, ChargeCrash
<1>17. CASE ReadInit
  BY <1>17 DEF ReadInit, Read
<1>18. CASE ReadDropped
  BY <1>18 DEF ReadDropped, Read
<1>19. CASE ReadToolError
  BY <1>19 DEF ReadToolError, Read, Terminate
<1>20. CASE ReadToolOk
  BY <1>20 DEF ReadToolOk, Read
<1>21. CASE ReadResult
  BY <1>21 DEF ReadResult, Read
<1>22. CASE DropStaleSession
  BY <1>22 DEF DropStaleSession
<1>23. CASE BeginSpawn
  BY <1>23 DEF BeginSpawn
<1>24. CASE FinishSpawn
  BY <1>24 DEF FinishSpawn
<1>25. CASE SpawnFails
  BY <1>25 DEF SpawnFails
<1>26. CASE LivenessWedge
  BY <1>26 DEF LivenessWedge, Terminate
<1>27. CASE ErrorWindowLapses
  BY <1>27 DEF ErrorWindowLapses
<1>28. CASE UNCHANGED vars
  BY <1>28 DEF vars
<1> QED
  BY <1>1, <1>2, <1>3, <1>4, <1>5, <1>6, <1>7, <1>8, <1>9, <1>10, <1>11, <1>12,
     <1>13, <1>14, <1>15, <1>16, <1>17, <1>18, <1>19, <1>20, <1>21, <1>22, <1>23, <1>24,
     <1>25, <1>26, <1>27, <1>28
  DEF Next, Engine, Cli, Reader, Background

--------------------------------------------------------------------------------
(* The theorems. *)

\* The inductive invariant holds initially,
LEMMA InvariantInit == Init => IInv
<1>1. Init => OneOutcomePerTurn
  BY DEF Init, OneOutcomePerTurn
<1>2. Init => GateHolds /\ PipeInOrder /\ GateIsCurrent
  BY DEF Init, GateHolds, GateIsCurrent, PipeInOrder, NoTurn
<1>3. Init => ProcessIsWatched /\ BudgetIsKept /\ KillsHaveReasons
  BY DEF Init, ProcessIsWatched, BudgetIsKept, KillsHaveReasons
<1> QED
  BY <1>1, <1>2, <1>3, TypeInit DEF IInv

\* is kept by every step,
LEMMA InvariantStep == IInv /\ [Next]_vars => IInv'
BY TypeStep, OneOutcomeStep, PipeStep, GateStep, GateCurrentStep, SupervisorStep DEF IInv, TypeOK

\* and so holds always.
LEMMA Invariant == Spec => []IInv
BY InvariantInit, InvariantStep, PTL DEF Spec

\* Every variable keeps its type.
THEOREM TypeCorrect == Spec => []TypeOK
<1>1. IInv => TypeOK
  BY DEF IInv
<1> QED
  BY <1>1, Invariant, PTL

\* Aborts, resets, wedges and results never give a send two answers, nor the
\* engine an answer it did not ask for.
THEOREM OneOutcome == Spec => []OneOutcomePerTurn
<1>1. IInv => OneOutcomePerTurn
  BY DEF IInv
<1> QED
  BY <1>1, Invariant, PTL

\* A result delivered to the engine is from a CLI turn begun after the send.
THEOREM Gate == Spec => []GateHolds
<1>1. IInv => GateHolds
  BY DEF IInv
<1> QED
  BY <1>1, Invariant, PTL

\* An exit the worker caused itself is never charged to the crash budget.
THEOREM PlannedExits == Spec => PlannedExitsAreFree
<1>1. ASSUME IInv, [Next]_vars
      PROVE  [terminating # {} => crashes' = crashes]_vars
  <2> SUFFICES ASSUME terminating # {}
               PROVE  crashes' = crashes
    OBVIOUS
  <2>1. supervisor = "stopped" \/ reason # "none"
    BY <1>1 DEF IInv, KillsHaveReasons
  <2>2. CASE CliTerminated
    BY <2>1, <2>2 DEF CliTerminated, ClassifyExit
  <2>3. ASSUME NEW rejected \in BOOLEAN, CliCrash(rejected) PROVE crashes' = crashes
    BY <2>1, <2>3 DEF CliCrash, ClassifyExit
  <2>4. CASE ~CliTerminated /\ ~\E rejected \in BOOLEAN : CliCrash(rejected)
    BY <1>1, <2>4 DEF Next, Engine, Cli, Reader, Background, vars, superVars, BeginTurn, SendTurn,
       TakeForInject, Inject, TakeResult, SwitchSession, SwitchReturns,
       SwitchTimesOut, ResetSession, Stop, CliBegin, CliFold, CliToolResult,
       CliResult, Emit, Read, ReadInit, ReadDropped, ReadToolError, ReadToolOk,
       ReadResult, DropStaleSession, BeginSpawn, FinishSpawn, SpawnFails,
       LivenessWedge, ErrorWindowLapses
  <2> QED
    BY <2>2, <2>3, <2>4
<1> QED
  BY <1>1, Invariant, PTL DEF Spec, PlannedExitsAreFree

--------------------------------------------------------------------------------
(* The worker implements the turn channel. *)

\* Every step is a step of the channel or leaves it alone.
LEMMA ChannelStep ==
    ASSUME TurnTypeOK, EngineTypeOK, OneOutcomePerTurn, [Next]_vars
    PROVE  [Channel!Next]_Channel!chanVars
<1> USE DEF TurnTypeOK, EngineTypeOK, OneOutcomePerTurn, ChannelState, turnVars, engineVars,
           Channel!Next, Channel!chanVars, Channel!Open, Channel!Refuse, Channel!Answer,
           Channel!Take
<1>1. CASE BeginTurn
  BY <1>1 DEF BeginTurn
<1>2. CASE SendTurn
  BY <1>2 DEF SendTurn
<1>3. CASE TakeForInject
  BY <1>3 DEF TakeForInject
<1>4. CASE Inject
  BY <1>4 DEF Inject
<1>5. CASE TakeResult
  BY <1>5 DEF TakeResult
<1>6. ASSUME NEW target \in 0..(nextId - 1), SwitchSession(target)
      PROVE [Channel!Next]_Channel!chanVars
  BY <1>6 DEF SwitchSession
<1>7. CASE SwitchReturns
  BY <1>7 DEF SwitchReturns
<1>8. CASE SwitchTimesOut
  BY <1>8 DEF SwitchTimesOut
<1>9. CASE ResetSession
  BY <1>9 DEF ResetSession, AbortTurn, Outcome
<1>10. CASE Stop
  BY <1>10 DEF Stop
<1>11. CASE CliBegin
  BY <1>11 DEF CliBegin, Emit
<1>12. CASE CliFold
  BY <1>12 DEF CliFold
<1>13. CASE CliToolResult
  BY <1>13 DEF CliToolResult, Emit
<1>14. CASE CliResult
  BY <1>14 DEF CliResult, Emit
<1>15. CASE CliTerminated
  BY <1>15 DEF CliTerminated, ProcessGone
<1>16. ASSUME NEW rejected \in BOOLEAN, CliCrash(rejected)
      PROVE [Channel!Next]_Channel!chanVars
  BY <1>16 DEF CliCrash, ProcessGone
<1>17. CASE ReadInit
  BY <1>17 DEF ReadInit, Read
<1>18. CASE ReadDropped
  BY <1>18 DEF ReadDropped, Read
<1>19. CASE ReadToolError
  BY <1>19 DEF ReadToolError, Read, AbortTurn, Collecting, Outcome
<1>20. CASE ReadToolOk
  BY <1>20 DEF ReadToolOk, Read
<1>21. CASE ReadResult
  BY <1>21 DEF ReadResult, Read, Collecting, Outcome
<1>22. CASE DropStaleSession
  BY <1>22 DEF DropStaleSession
<1>23. CASE BeginSpawn
  BY <1>23 DEF BeginSpawn
<1>24. CASE FinishSpawn
  BY <1>24 DEF FinishSpawn
<1>25. CASE SpawnFails
  BY <1>25 DEF SpawnFails
<1>26. CASE LivenessWedge
  BY <1>26 DEF LivenessWedge, AbortTurn, Outcome
<1>27. CASE ErrorWindowLapses
  BY <1>27 DEF ErrorWindowLapses
<1>28. CASE UNCHANGED vars
  BY <1>28 DEF vars
<1> QED
  BY <1>1, <1>2, <1>3, <1>4, <1>5, <1>6, <1>7, <1>8, <1>9, <1>10, <1>11, <1>12,
     <1>13, <1>14, <1>15, <1>16, <1>17, <1>18, <1>19, <1>20, <1>21, <1>22, <1>23, <1>24,
     <1>25, <1>26, <1>27, <1>28
  DEF Next, Engine, Cli, Reader, Background

\* The worker implements the abstract turn channel: sends, answers and takes
\* alternate, and a refused send is never answered.
THEOREM Refinement == Spec => ImplementsChannel
<1>1. Init => Channel!Init
  BY DEF Init, Channel!Init, ChannelState
<1>2. IInv /\ [Next]_vars => [Channel!Next]_Channel!chanVars
  BY ChannelStep DEF IInv, TypeOK
<1> QED
  BY <1>1, <1>2, Invariant, PTL DEF Spec, ImplementsChannel, Channel!Spec
================================================================================
