---------------------------- MODULE Sessions_proofs ----------------------------
(***************************************************************************)
(* The invariants of Sessions hold of every reachable state, for any       *)
(* number of private chats, turns, calls, resets and faults.  First what   *)
(* the operators do to the saved ids and the conversations, then one lemma *)
(* per part of the inductive invariant, each with a step per action.       *)
(***************************************************************************)
EXTENDS Sessions, TLAPS

ConversationIds == 0..Len(made)

(* What operators do *)

\* A private chat's key is not the shared session's, and nobody's is no key.
LEMMA KeysDiffer == Shared \notin Chats /\ Nobody \notin Keys /\ Shared # Nobody
BY SessionsAssumption DEF Keys, Shared, Nobody

\* Remember changes the current key only, to the worker's id.
LEMMA RememberEffect ==
    ASSUME TypeOK, NEW saved \in BOOLEAN, Remember(saved)
    PROVE  /\ sharedId' \in ConversationIds
           /\ ids' \in [Chats -> ConversationIds] /\ file' \in [Chats -> ConversationIds]
           /\ sharedId' = IF current = Shared THEN sid ELSE sharedId
           /\ \A k \in Chats : ids'[k] = IF k = current THEN sid ELSE ids[k]
           /\ file' \in {file, ids'}
           /\ saved /\ current # Shared => file' = ids'
           /\ current = Shared => file' = file /\ ids' = ids
<1>1. /\ sharedId \in ConversationIds /\ sid \in ConversationIds
      /\ ids \in [Chats -> ConversationIds] /\ file \in [Chats -> ConversationIds]
      /\ current \in Chats \/ current = Shared
    BY DEF TypeOK, ConversationIds, Keys
<1>2. CASE current = Shared
    BY <1>1, <1>2, KeysDiffer DEF Remember
<1>3. CASE current # Shared
  <2>1. ids' = [ids EXCEPT ![current] = sid] /\ file' = (IF saved THEN ids' ELSE file) /\ sharedId' = sharedId
      BY <1>3 DEF Remember
  <2> QED  BY <1>1, <1>3, <2>1
<1> QED  BY <1>2, <1>3

\* A session that lost its id, and one that has nothing to go on with.
LEMMA NoIdTypes ==
    ASSUME TypeOK
    PROVE  /\ None \in ConversationIds /\ Len(made) \in Nat
           /\ SessionOfSpec \in Keys
           /\ [spec EXCEPT !.sid = None] \in [private : BOOLEAN, sid : ConversationIds]
           /\ [spec EXCEPT !.sid = None].sid = None
           /\ [spec EXCEPT !.sid = None].private = spec.private
           /\ \A k \in Keys : [kept EXCEPT ![k] = None] \in [Keys -> ConversationIds]
<1>1. Len(made) \in Nat /\ None \in ConversationIds
    BY DEF TypeOK, ConversationIds, None
<1>2. SessionOfSpec \in Keys /\ kept \in [Keys -> ConversationIds]
      /\ spec \in [private : BOOLEAN, sid : ConversationIds]
    BY DEF TypeOK, ConversationIds, SessionOfSpec
<1> QED  BY <1>1, <1>2

\* A conversation that begins leaves the earlier ones as they are.
LEMMA BegunEffect ==
    ASSUME TypeOK, NEW k \in Keys, Begun(k)
    PROVE  /\ made' \in Seq(Keys) /\ ConversationIds \subseteq ConversationIds'
           /\ \A c \in ConversationIds : c # None => made'[c] = made[c]
           /\ sid' \in ConversationIds' /\ sid' # None
           /\ live' = [live EXCEPT !.sid = sid', !.turn = k]
           /\ live'.sid = sid' /\ live'.turn = k /\ live'.private = live.private
           /\ kept' = [kept EXCEPT ![k] = sid']
           /\ kept'[k] = sid' /\ \A j \in Keys : j # k => kept'[j] = kept[j]
           /\ live.sid # None => sid' = live.sid
           /\ live.sid = None => sid' = Len(made) + 1 /\ made'[sid'] = k
<1>1. /\ made \in Seq(Keys) /\ Len(made) \in Nat /\ live.sid \in ConversationIds
    BY DEF TypeOK, ConversationIds
<1>4. /\ live' = [live EXCEPT !.sid = sid', !.turn = k] /\ kept' = [kept EXCEPT ![k] = sid']
    BY DEF Begun
<1>5. /\ live'.sid = sid' /\ live'.turn = k /\ live'.private = live.private
      /\ kept'[k] = sid' /\ \A j \in Keys : j # k => kept'[j] = kept[j]
    BY <1>4 DEF TypeOK
<1>2. CASE live.sid = None
  <2>1. sid' = Len(made) + 1 /\ made' = Append(made, k)  BY <1>1, <1>2 DEF Begun
  <2>2. Len(made') = Len(made) + 1 /\ made' \in Seq(Keys)  BY <1>1, <2>1
  <2>3. \A d \in 1..Len(made) : made'[d] = made[d]  BY <1>1, <2>1
  <2>4. made'[sid'] = k  BY <1>1, <2>1
  <2> QED  BY <1>1, <1>2, <1>4, <1>5, <2>1, <2>2, <2>3, <2>4 DEF ConversationIds, None
<1>3. CASE live.sid # None
  <2>1. sid' = live.sid /\ made' = made  BY <1>1, <1>3 DEF Begun, ConversationIds
  <2> QED  BY <1>1, <1>3, <1>4, <1>5, <2>1 DEF ConversationIds, None
<1> QED  BY <1>2, <1>3

--------------------------------------------------------------------------------
(* Types *)

LEMMA TypeStep == ASSUME TypeOK, [Next]_vars PROVE TypeOK'
<1>1. ASSUME NEW k \in Keys, EnterSame(k)  PROVE TypeOK'
  BY <1>1 DEF EnterSame, Batch, TypeOK, ConversationIds, engine, switcher, disk, worker, history
<1>2. ASSUME NEW k \in Keys, BeginSwitch(k)  PROVE TypeOK'
  <2>1. /\ sharedId' \in ConversationIds
        /\ ids' \in [Chats -> ConversationIds] /\ file' \in [Chats -> ConversationIds]
    BY <1>2, RememberEffect DEF BeginSwitch
  <2>2. spec' \in [private : BOOLEAN, sid : ConversationIds]
    <3>1. spec' = [private |-> k # Shared, sid |-> IF k = Shared THEN sharedId' ELSE ids[k]]
      BY <1>2 DEF BeginSwitch, SpecFor
    <3>2. ids \in [Chats -> ConversationIds]  BY DEF TypeOK, ConversationIds
    <3> QED  BY <1>2, <2>1, <3>1, <3>2 DEF Keys
  <2>3. spec'.sid \in ConversationIds  BY <2>2
  <2>4. proc' \in {proc, "killed"}  BY <1>2 DEF BeginSwitch, Terminate
  <2> QED  BY <1>2, <2>1, <2>2, <2>3, <2>4 DEF BeginSwitch, Batch, Overtake, SlipIf, TypeOK, ConversationIds
<1>3. ASSUME NEW k \in Keys, SaveFails(k)  PROVE TypeOK'
  <2>1. /\ sharedId' \in ConversationIds
        /\ ids' \in [Chats -> ConversationIds] /\ file' \in [Chats -> ConversationIds]
    BY <1>3, RememberEffect DEF SaveFails
  <2>2. UNCHANGED <<spec, sid, proc, live, lateInit, made, dropped, kept, overtaken, slipped>>
    BY <1>3 DEF SaveFails, worker, history
  <2>3. UNCHANGED <<phase, finishing, current, sharedFile, turnOf, calls>> /\ want' = k /\ front' = k
    BY <1>3 DEF SaveFails, Batch
  <2> QED  BY <2>1, <2>2, <2>3, SMTT(30) DEF TypeOK, ConversationIds
<1>4. CASE SwitchReturns
  BY <1>4 DEF SwitchReturns, TypeOK, ConversationIds, engine, switcher, disk, worker, history
<1>5. CASE SwitchTimesOut
  BY <1>5 DEF SwitchTimesOut, Slip, Fault, TypeOK, ConversationIds, engine, switcher, disk, worker, history
<1>6. CASE Send
  BY <1>6 DEF Send, TypeOK, ConversationIds, engine, switcher, disk, worker, history
<1>7. CASE SendRaises
  BY <1>7 DEF SendRaises, TypeOK, ConversationIds, engine, switcher, disk, worker, history
<1>8. CASE TurnBegins
  <2>0. want \in Keys /\ Begun(want)  BY <1>8 DEF TurnBegins, TypeOK
  <2>1. /\ made' \in Seq(Keys) /\ ConversationIds \subseteq ConversationIds'
        /\ sid' \in ConversationIds' /\ live' = [live EXCEPT !.sid = sid', !.turn = want]
        /\ kept' = [kept EXCEPT ![want] = sid']
    BY <2>0, BegunEffect
  <2>2. live' \in [private : BOOLEAN, sid : ConversationIds', turn : Keys \cup {Nobody}]
    BY <2>1 DEF TypeOK, ConversationIds
  <2>3. kept' \in [Keys -> ConversationIds']
    BY <2>1 DEF TypeOK, ConversationIds
  <2>4. /\ ids' \in [Chats -> ConversationIds'] /\ file' \in [Chats -> ConversationIds']
        /\ {sharedId', sharedFile'} \subseteq ConversationIds' /\ dropped' \subseteq ConversationIds'
    BY <1>8, <2>1 DEF TurnBegins, switcher, disk, TypeOK, ConversationIds
  <2>5. spec' \in [private : BOOLEAN, sid : ConversationIds']
    BY <1>8, <2>1 DEF TurnBegins, TypeOK, ConversationIds
  <2> QED  BY <1>8, <2>1, <2>2, <2>3, <2>4, <2>5 DEF TurnBegins, switcher, TypeOK, ConversationIds
<1>9. CASE TurnEnds
  BY <1>9 DEF TurnEnds, TypeOK, ConversationIds, engine, switcher, disk, worker, history
<1>10. CASE LateInit
  <2>0. current \in Keys /\ Begun(current)  BY <1>10 DEF LateInit, TypeOK
  <2>2. /\ made' \in Seq(Keys) /\ ConversationIds \subseteq ConversationIds'
        /\ sid' \in ConversationIds' /\ live' = [live EXCEPT !.sid = sid', !.turn = current]
        /\ kept' = [kept EXCEPT ![current] = sid']
    BY <2>0, BegunEffect
  <2>3. live' \in [private : BOOLEAN, sid : ConversationIds', turn : Keys \cup {Nobody}]
    BY <2>0, <2>2 DEF TypeOK, ConversationIds
  <2>4. kept' \in [Keys -> ConversationIds']
    BY <2>0, <2>2 DEF TypeOK, ConversationIds
  <2>5. /\ ids' \in [Chats -> ConversationIds'] /\ file' \in [Chats -> ConversationIds']
        /\ {sharedId', sharedFile'} \subseteq ConversationIds' /\ dropped' \subseteq ConversationIds'
    BY <1>10, <2>2 DEF LateInit, switcher, disk, TypeOK, ConversationIds
  <2>6. spec' \in [private : BOOLEAN, sid : ConversationIds']
    BY <1>10, <2>2 DEF LateInit, TypeOK, ConversationIds
  <2> QED  BY <1>10, <2>2, <2>3, <2>4, <2>5, <2>6
           DEF LateInit, SlipIf, engine, switcher, TypeOK, ConversationIds
<1>11. CASE Abort
  BY <1>11 DEF Abort, Unread, Fault, TypeOK, ConversationIds, engine, switcher, disk, worker, history
<1>12. CASE ProcessExits
  BY <1>12 DEF ProcessExits, Gone, TypeOK, ConversationIds, engine, switcher, disk, worker, history
<1>13. CASE Crash
  BY <1>13 DEF Crash, Gone, Fault, TypeOK, ConversationIds, engine, switcher, disk, worker, history
<1>14. CASE StaleExit
  BY <1>14, NoIdTypes DEF StaleExit, switcher, history, TypeOK, ConversationIds
<1>15. CASE StaleDrop
  <2>1. /\ spec' \in [private : BOOLEAN, sid : ConversationIds] /\ sid' \in ConversationIds
        /\ kept' \in [Keys -> ConversationIds] /\ proc' = "down"
    BY <1>15, NoIdTypes DEF StaleDrop, Forget
  <2>2. UNCHANGED <<phase, want, front, current, sharedId, ids, file, sharedFile, live, lateInit,
                    turnOf, calls, made, dropped, finishing, overtaken, slipped>>
    BY <1>15 DEF StaleDrop, engine, switcher, disk
  <2> QED  BY <2>1, <2>2 DEF TypeOK, ConversationIds
<1>16. CASE BeginSpawn
  BY <1>16 DEF BeginSpawn, Resumed, Forget, TypeOK, ConversationIds, engine, switcher, disk, worker, history
<1>17. CASE ResetSession
  BY <1>17, NoIdTypes DEF ResetSession, Unread, Forget, Terminate, SlipIf, TypeOK, ConversationIds, switcher
<1>18. ASSUME NEW chat \in Keys, NEW audience \in Audiences, CallBegins(chat, audience)  PROVE TypeOK'
  BY <1>18, SMTT(30) DEF CallBegins, Refused, TypeOK, ConversationIds, engine, switcher, disk, worker, history
<1>19. ASSUME NEW c \in calls, CallRecords(c)  PROVE TypeOK'
  BY <1>19, SMTT(30) DEF CallRecords, TypeOK, ConversationIds, engine, switcher, disk, worker, history
<1>20. CASE Stop
  <2>1. /\ sharedId' \in ConversationIds
        /\ ids' \in [Chats -> ConversationIds] /\ file' \in [Chats -> ConversationIds]
    BY <1>20, RememberEffect DEF Stop
  <2> QED  BY <1>20, <2>1 DEF Stop, SlipIf, TypeOK, ConversationIds
<1>21. CASE Kill
  <2>1. kept' \in [Keys -> ConversationIds]
    BY <1>21 DEF Kill, TypeOK, ConversationIds, Keys
  <2> QED  BY <1>21, <2>1 DEF Kill, TypeOK, ConversationIds, engine, switcher, disk
<1>22. CASE Boot
  BY <1>22 DEF Boot, TypeOK, ConversationIds, Keys, disk, history
<1>23. CASE UNCHANGED vars
  BY <1>23 DEF vars, TypeOK, ConversationIds, engine, switcher, disk, worker, history
<1>24. CASE FinishTurn
  <2>1. /\ sharedId' \in ConversationIds
        /\ ids' \in [Chats -> ConversationIds] /\ file' \in [Chats -> ConversationIds]
    BY <1>24, RememberEffect DEF FinishTurn
  <2> QED  BY <1>24, <2>1 DEF FinishTurn, SlipIf, TypeOK, ConversationIds, worker
<1>25. CASE FinishSpawn
  BY <1>25 DEF FinishSpawn, TypeOK, ConversationIds, engine, switcher, disk, history
<1> QED
  BY <1>1, <1>2, <1>3, <1>4, <1>5, <1>6, <1>7, <1>8, <1>9, <1>10, <1>11, <1>12, <1>13, <1>14, <1>15, <1>16, <1>17, <1>18, <1>19, <1>20, <1>21, <1>22, <1>23, <1>24, <1>25 DEF Next

--------------------------------------------------------------------------------
(* The profile of the running process *)

LEMMA SpecStep == ASSUME TypeOK, SpecIsOfSession, [Next]_vars PROVE SpecIsOfSession'
<1> USE KeysDiffer DEF SpecIsOfSession
<1>1. ASSUME NEW k \in Keys, EnterSame(k)  PROVE SpecIsOfSession'
  BY <1>1 DEF EnterSame, Batch, engine, switcher, disk, worker, history
<1>2. ASSUME NEW k \in Keys, BeginSwitch(k)  PROVE SpecIsOfSession'
  <2>1. spec'.private = (k # Shared)  BY <1>2 DEF BeginSwitch, SpecFor
  <2>2. proc' # "up" /\ (proc' = "spawning" => overtaken')
    BY <1>2 DEF BeginSwitch, Terminate, Overtake
  <2> QED  BY <1>2, <2>1, <2>2 DEF BeginSwitch, Batch
<1>3. ASSUME NEW k \in Keys, SaveFails(k)  PROVE SpecIsOfSession'
  BY <1>3 DEF SaveFails, Batch, Fault, Remember, engine, switcher, disk, worker, history
<1>4. CASE SwitchReturns
  BY <1>4 DEF SwitchReturns, engine, switcher, disk, worker, history
<1>5. CASE SwitchTimesOut
  BY <1>5 DEF SwitchTimesOut, switcher, worker, TypeOK
<1>6. CASE Send
  BY <1>6 DEF Send, engine, switcher, disk, worker, history
<1>7. CASE SendRaises
  BY <1>7 DEF SendRaises, engine, switcher, disk, worker, history
<1>8. CASE TurnBegins
  <2>0. want \in Keys /\ Begun(want)  BY <1>8 DEF TurnBegins, TypeOK
  <2>1. live'.private = live.private  BY <2>0, BegunEffect
  <2> QED  BY <1>8, <2>1 DEF TurnBegins, switcher
<1>9. CASE TurnEnds
  <2>1. live'.private = live.private  BY <1>9 DEF TurnEnds, TypeOK
  <2> QED  BY <1>9, <2>1 DEF TurnEnds, switcher, history
<1>10. CASE LateInit
  <2>0. current \in Keys /\ Begun(current)  BY <1>10 DEF LateInit, TypeOK
  <2>1. live'.private = live.private  BY <2>0, BegunEffect
  <2> QED  BY <1>10, <2>1 DEF LateInit, engine, switcher
<1>11. CASE Abort
  BY <1>11 DEF Abort, Unread, Fault, engine, switcher, disk, worker, history
<1>12. CASE ProcessExits
  BY <1>12 DEF ProcessExits, Gone, engine, switcher, disk, worker, history
<1>13. CASE Crash
  BY <1>13 DEF Crash, Gone, Fault, engine, switcher, disk, worker, history
<1>14. CASE StaleExit
  BY <1>14 DEF StaleExit, Fault, engine, switcher, disk, worker, history
<1>15. CASE StaleDrop
  BY <1>15, NoIdTypes DEF StaleDrop, engine, switcher
<1>16. CASE BeginSpawn
  BY <1>16 DEF BeginSpawn, Resumed, Forget, engine, switcher, disk, worker, history
<1>17. CASE ResetSession
  BY <1>17, NoIdTypes DEF ResetSession, Unread, Terminate, switcher, TypeOK
<1>18. ASSUME NEW chat \in Keys, NEW audience \in Audiences, CallBegins(chat, audience)  PROVE SpecIsOfSession'
  BY <1>18 DEF CallBegins, Refused, engine, switcher, disk, worker, history
<1>19. ASSUME NEW c \in calls, CallRecords(c)  PROVE SpecIsOfSession'
  BY <1>19 DEF CallRecords, engine, switcher, disk, worker, history
<1>20. CASE Stop
  BY <1>20 DEF Stop, SlipIf, Fault, Remember, engine, switcher, disk, worker, history
<1>21. CASE Kill
  BY <1>21 DEF Kill, Fault, engine, switcher, disk, worker, history
<1>22. CASE Boot
  BY <1>22 DEF Boot, engine, switcher, disk, worker, history
<1>23. CASE UNCHANGED vars
  BY <1>23 DEF vars, engine, switcher, disk, worker, history
<1>24. CASE FinishTurn
  BY <1>24 DEF FinishTurn, worker
<1>25. CASE FinishSpawn
  BY <1>25 DEF FinishSpawn, engine, switcher, disk, history
<1> QED
  BY <1>1, <1>2, <1>3, <1>4, <1>5, <1>6, <1>7, <1>8, <1>9, <1>10, <1>11, <1>12, <1>13, <1>14, <1>15, <1>16, <1>17, <1>18, <1>19, <1>20, <1>21, <1>22, <1>23, <1>24, <1>25 DEF Next

--------------------------------------------------------------------------------
(* Whose turn the tools believe it is *)

LEMMA TurnStep ==
    ASSUME TypeOK, SpecIsOfSession, TurnIsBound, [Next]_vars PROVE TurnIsBound'
<1> USE KeysDiffer DEF TurnIsBound
<1>1. ASSUME NEW k \in Keys, EnterSame(k)  PROVE TurnIsBound'
  BY <1>1 DEF EnterSame, Batch, engine, switcher, disk, worker, history
<1>2. ASSUME NEW k \in Keys, BeginSwitch(k)  PROVE TurnIsBound'
  BY <1>2 DEF BeginSwitch, Terminate
<1>3. ASSUME NEW k \in Keys, SaveFails(k)  PROVE TurnIsBound'
  BY <1>3 DEF SaveFails, Batch, Fault, Remember, engine, switcher, disk, worker, history
<1>4. CASE SwitchReturns
  BY <1>4 DEF SwitchReturns, engine, switcher, disk, worker, history
<1>5. CASE SwitchTimesOut
  BY <1>5 DEF SwitchTimesOut, Slip, Fault, engine, switcher, disk, worker, history
<1>6. CASE Send
  BY <1>6 DEF Send, engine, switcher, disk, worker, history
<1>7. CASE SendRaises
  BY <1>7 DEF SendRaises, engine, switcher, disk, worker, history
<1>8. CASE TurnBegins
  <2>0. want \in Keys /\ Begun(want)  BY <1>8 DEF TurnBegins, TypeOK
  <2>1. live'.turn = want  BY <2>0, BegunEffect
  <2> QED  BY <1>8, <2>1 DEF TurnBegins, switcher, SpecIsOfSession
<1>9. CASE TurnEnds
  <2>1. live'.turn = Nobody  BY <1>9 DEF TurnEnds, TypeOK
  <2> QED  BY <1>9, <2>1 DEF TurnEnds, switcher
<1>10. CASE LateInit
  <2>0. current \in Keys /\ Begun(current)  BY <1>10 DEF LateInit, TypeOK
  <2>1. live'.turn = current  BY <2>0, BegunEffect
  <2> QED  BY <1>10, <2>1 DEF LateInit, engine, switcher
<1>11. CASE Abort
  BY <1>11 DEF Abort, Unread, Fault, engine, switcher, disk, worker, history
<1>12. CASE ProcessExits
  BY <1>12 DEF ProcessExits, Gone, engine, switcher, disk, worker, history
<1>13. CASE Crash
  BY <1>13 DEF Crash, Gone, Fault, engine, switcher, disk, worker, history
<1>14. CASE StaleExit
  BY <1>14 DEF StaleExit, Fault, engine, switcher, disk, worker, history
<1>15. CASE StaleDrop
  BY <1>15 DEF StaleDrop, Forget, engine, switcher, disk, worker, history
<1>16. CASE BeginSpawn
  BY <1>16 DEF BeginSpawn, Resumed, Forget, engine, switcher, disk, worker, history
<1>17. CASE ResetSession
  BY <1>17 DEF ResetSession, Unread, Forget, Terminate, engine, switcher, disk, worker, history
<1>18. ASSUME NEW chat \in Keys, NEW audience \in Audiences, CallBegins(chat, audience)  PROVE TurnIsBound'
  BY <1>18 DEF CallBegins, Refused, engine, switcher, disk, worker, history
<1>19. ASSUME NEW c \in calls, CallRecords(c)  PROVE TurnIsBound'
  BY <1>19 DEF CallRecords, engine, switcher, disk, worker, history
<1>20. CASE Stop
  BY <1>20 DEF Stop, SlipIf, Fault, Remember, engine, switcher, disk, worker, history
<1>21. CASE Kill
  BY <1>21 DEF Kill, Fault, engine, switcher, disk, worker, history
<1>22. CASE Boot
  BY <1>22 DEF Boot, engine, switcher, disk, worker, history
<1>23. CASE UNCHANGED vars
  BY <1>23 DEF vars, engine, switcher, disk, worker, history
<1>24. CASE FinishTurn
  BY <1>24 DEF FinishTurn, worker
<1>25. CASE FinishSpawn
  BY <1>25 DEF FinishSpawn, engine, switcher, disk, history
<1> QED
  BY <1>1, <1>2, <1>3, <1>4, <1>5, <1>6, <1>7, <1>8, <1>9, <1>10, <1>11, <1>12, <1>13, <1>14, <1>15, <1>16, <1>17, <1>18, <1>19, <1>20, <1>21, <1>22, <1>23, <1>24, <1>25 DEF Next

\* A call is judged in the turn of the process that makes it.
LEMMA CallsStep ==
    ASSUME TypeOK, TurnIsBound, PrivateCallsStayHome, [Next]_vars PROVE PrivateCallsStayHome'
<1>1. ASSUME NEW chat \in Keys, NEW audience \in Audiences, CallBegins(chat, audience)
      PROVE  PrivateCallsStayHome'
  <2>1. live.turn = turnOf  BY <1>1 DEF CallBegins, TurnIsBound
  <2>2. PICK c : /\ c = [from |-> turnOf, chat |-> chat, audience |-> audience]
                 /\ calls' = calls \cup {c}
      BY <1>1, <2>1 DEF CallBegins
  <2>3. IF c.from = Shared THEN c.audience # "private"
                           ELSE c.chat = c.from /\ c.audience # "shared"
      BY <1>1, <2>2 DEF CallBegins, Refused
  <2> QED  BY <2>2, <2>3 DEF PrivateCallsStayHome
<1>2. CASE calls' \subseteq calls
    BY <1>2 DEF PrivateCallsStayHome
<1>3. calls' \subseteq calls \/ \E chat \in Keys, audience \in Audiences : CallBegins(chat, audience)
    BY DEF Next, EnterSame, BeginSwitch, SaveFails, SwitchReturns, SwitchTimesOut, Send, SendRaises,
           TurnBegins, TurnEnds, FinishTurn, LateInit, Abort, ProcessExits, Crash, StaleExit, StaleDrop, BeginSpawn, FinishSpawn,
           ResetSession, CallRecords, Stop, Kill, Boot, vars
<1> QED  BY <1>1, <1>2, <1>3


--------------------------------------------------------------------------------
(* Whose conversation an id names *)

LEMMA HomeStep ==
    ASSUME TypeOK, SpecIsOfSession, TurnIsBound, IdsStayHome, WorkerStaysHome, [Next]_vars
    PROVE  IdsStayHome' /\ WorkerStaysHome'
<1> USE KeysDiffer DEF IdsStayHome, WorkerStaysHome, Home, SessionOfSpec
<1>1. ASSUME NEW k \in Keys, EnterSame(k)  PROVE (IdsStayHome /\ WorkerStaysHome)'
  BY <1>1 DEF EnterSame, Batch, engine, switcher, disk, worker, history
<1>2. ASSUME NEW k \in Keys, BeginSwitch(k)  PROVE (IdsStayHome /\ WorkerStaysHome)'
  <2>1. /\ proc' # "up" /\ phase = "idle" /\ k # current
        /\ phase' = "switching" /\ want' = k /\ current' = current
        /\ made' = made /\ sharedFile' = sharedFile
        /\ ~slipped' => ~slipped /\ proc' # "spawning"
    BY <1>2 DEF BeginSwitch, Batch, Terminate, Overtake, SlipIf
  <2>2. spec'.sid = (IF k = Shared THEN sharedId' ELSE ids[k]) /\ sid' = spec'.sid
    BY <1>2 DEF BeginSwitch, SpecFor
  <2>3. /\ sharedId' = IF current = Shared THEN sid ELSE sharedId
        /\ \A c \in Chats : ids'[c] = IF c = current THEN sid ELSE ids[c]
        /\ file' \in {file, ids'}
    BY <1>2, RememberEffect DEF BeginSwitch
  <2>4. ~slipped => \A c \in Chats : Home(ids[c], c) /\ Home(ids'[c], c) /\ Home(file'[c], c)
    BY <2>1, <2>3
  <2>5. ~slipped => Home(sharedId', Shared)
    BY <2>1, <2>3
  <2>6. ~slipped => Home(spec'.sid, k)
    BY <2>2, <2>4, <2>5 DEF Keys
  <2> QED  BY <2>1, <2>2, <2>4, <2>5, <2>6
<1>3. ASSUME NEW k \in Keys, SaveFails(k)  PROVE (IdsStayHome /\ WorkerStaysHome)'
  <2>1. /\ sharedId' = IF current = Shared THEN sid ELSE sharedId
        /\ \A c \in Chats : ids'[c] = IF c = current THEN sid ELSE ids[c]
        /\ file' = file /\ current # Shared
    BY <1>3 DEF SaveFails, Remember, TypeOK
  <2> QED  BY <1>3, <2>1 DEF SaveFails, Batch, worker, history
<1>4. CASE SwitchReturns
  BY <1>4 DEF SwitchReturns, engine, switcher, disk, worker, history
<1>5. CASE SwitchTimesOut
  BY <1>5 DEF SwitchTimesOut, Slip
<1>6. CASE Send
  BY <1>6 DEF Send, engine, switcher, disk, worker, history
<1>7. CASE SendRaises
  BY <1>7 DEF SendRaises, engine, switcher, disk, worker, history
<1>8. CASE TurnBegins
  <2>0. want \in Keys /\ Begun(want)  BY <1>8 DEF TurnBegins, TypeOK
  <2>1. /\ want = current /\ phase = "sent" /\ phase' = "turn" /\ proc = "up"
        /\ UNCHANGED <<want, current, sharedId, ids, file, sharedFile, spec, slipped>>
    BY <1>8 DEF TurnBegins, switcher, disk, SpecIsOfSession
  <2>2. /\ spec.sid \in ConversationIds /\ sharedId \in ConversationIds /\ sharedFile \in ConversationIds
        /\ live.sid \in ConversationIds
        /\ \A k \in Chats : ids[k] \in ConversationIds /\ file[k] \in ConversationIds
    BY DEF TypeOK, ConversationIds
  <2>3. \A c \in ConversationIds : c # None => made'[c] = made[c]
    BY <2>0, BegunEffect
  <2>4. live'.sid = sid'
    BY <2>0, BegunEffect
  <2>5. ~slipped => sid' = None \/ made'[sid'] = current
    BY <2>0, <2>1, <2>2, <2>3, BegunEffect
  <2> QED  BY <2>1, <2>2, <2>3, <2>4, <2>5
<1>9. CASE TurnEnds
  <2>1. live'.sid = live.sid  BY <1>9 DEF TurnEnds, TypeOK
  <2> QED  BY <1>9, <2>1 DEF TurnEnds, switcher, disk, history
<1>10. CASE LateInit
  <2>0. current \in Keys /\ Begun(current)  BY <1>10 DEF LateInit, TypeOK
  <2>1. /\ proc \in {"up", "killed"} /\ slipped' = (slipped \/ proc = "killed")
        /\ UNCHANGED <<phase, want, current, sharedId, ids, file, sharedFile, spec, proc>>
    BY <1>10 DEF LateInit, SlipIf, engine, switcher, disk
  <2>2. phase # "switching" \/ proc = "killed"
    BY <1>10 DEF LateInit, TurnIsBound
  <2>3. /\ spec.sid \in ConversationIds /\ sharedId \in ConversationIds /\ sharedFile \in ConversationIds
        /\ live.sid \in ConversationIds
        /\ \A k \in Chats : ids[k] \in ConversationIds /\ file[k] \in ConversationIds
    BY DEF TypeOK, ConversationIds
  <2>4. \A c \in ConversationIds : c # None => made'[c] = made[c]
    BY <2>0, BegunEffect
  <2>5. live'.sid = sid'
    BY <2>0, BegunEffect
  <2>6. ~slipped' => sid' = None \/ made'[sid'] = current
    BY <2>0, <2>1, <2>2, <2>3, <2>4, BegunEffect
  <2> QED  BY <2>1, <2>2, <2>3, <2>4, <2>5, <2>6
<1>11. CASE Abort
  BY <1>11 DEF Abort, Unread, Fault, engine, switcher, disk, worker, history
<1>12. CASE ProcessExits
  BY <1>12 DEF ProcessExits, Gone, engine, switcher, disk, worker, history
<1>13. CASE Crash
  BY <1>13 DEF Crash, Gone, Fault, engine, switcher, disk, worker, history
<1>14. CASE StaleExit
  BY <1>14 DEF StaleExit, switcher, history
<1>15. CASE StaleDrop
  BY <1>15, NoIdTypes DEF StaleDrop, engine, switcher, disk
<1>16. CASE BeginSpawn
  BY <1>16 DEF BeginSpawn, Resumed, Forget, engine, switcher, disk, worker, history
<1>17. CASE ResetSession
  BY <1>17, NoIdTypes DEF ResetSession, Unread, Terminate, SlipIf, switcher
<1>18. ASSUME NEW chat \in Keys, NEW audience \in Audiences, CallBegins(chat, audience)  PROVE (IdsStayHome /\ WorkerStaysHome)'
  BY <1>18 DEF CallBegins, Refused, engine, switcher, disk, worker, history
<1>19. ASSUME NEW c \in calls, CallRecords(c)  PROVE (IdsStayHome /\ WorkerStaysHome)'
  BY <1>19 DEF CallRecords, engine, switcher, disk, worker, history
<1>20. CASE Stop
  <2>1. /\ sharedId' = IF current = Shared THEN sid ELSE sharedId
        /\ \A c \in Chats : ids'[c] = IF c = current THEN sid ELSE ids[c]
        /\ file' \in {file, ids'}
    BY <1>20, RememberEffect DEF Stop
  <2>2. /\ slipped' = (slipped \/ phase = "switching") /\ proc' = "off"
        /\ sharedFile' \in {sharedId', sharedFile}
        /\ UNCHANGED <<phase, want, current, spec, sid, live, made>>
    BY <1>20 DEF Stop, SlipIf
  <2> QED  BY <2>1, <2>2
<1>21. CASE Kill
  BY <1>21 DEF Kill, Fault, engine, switcher, disk, worker, history
<1>22. CASE Boot
  BY <1>22 DEF Boot, engine, switcher, disk, worker, history
<1>23. CASE UNCHANGED vars
  BY <1>23 DEF vars, engine, switcher, disk, worker, history
<1>24. CASE FinishTurn
  <2>1. /\ sharedId' = IF current = Shared THEN sid ELSE sharedId
        /\ \A c \in Chats : ids'[c] = IF c = current THEN sid ELSE ids[c]
        /\ file' \in {file, ids'}
    BY <1>24, RememberEffect DEF FinishTurn
  <2>2. /\ slipped' = (slipped \/ phase = "switching")
        /\ UNCHANGED <<phase, want, current, sharedFile, spec, sid, proc, live, made>>
    BY <1>24 DEF FinishTurn, SlipIf, worker
  <2> QED  BY <2>1, <2>2
<1>25. CASE FinishSpawn
  BY <1>25 DEF FinishSpawn, engine, switcher, disk, history
<1> QED
  BY <1>1, <1>2, <1>3, <1>4, <1>5, <1>6, <1>7, <1>8, <1>9, <1>10, <1>11, <1>12, <1>13, <1>14, <1>15, <1>16, <1>17, <1>18, <1>19, <1>20, <1>21, <1>22, <1>23, <1>24, <1>25 DEF Next

--------------------------------------------------------------------------------
(* Conversations a reset gave up *)

LEMMA DroppedStep ==
    ASSUME TypeOK, SpecIsOfSession, IdsStayHome, WorkerStaysHome, DroppedIsGone, [Next]_vars
    PROVE  DroppedIsGone'
<1> USE KeysDiffer DEF DroppedIsGone, SessionOfSpec
<1>1. ASSUME NEW k \in Keys, EnterSame(k)  PROVE DroppedIsGone'
  BY <1>1 DEF EnterSame, Batch, engine, switcher, disk, worker, history
<1>2. ASSUME NEW k \in Keys, BeginSwitch(k)  PROVE DroppedIsGone'
  <2>1. /\ proc' # "up" /\ proc' # "off" /\ phase = "idle" /\ k # current
        /\ phase' = "switching" /\ want' = k /\ current' = current
        /\ dropped' = dropped /\ sharedFile' = sharedFile
        /\ ~slipped' => ~slipped /\ proc' # "spawning"
    BY <1>2 DEF BeginSwitch, Batch, Terminate, Overtake, SlipIf
  <2>2. spec'.sid = (IF k = Shared THEN sharedId' ELSE ids[k]) /\ sid' = spec'.sid
    BY <1>2 DEF BeginSwitch, SpecFor
  <2>3. /\ sharedId' = IF current = Shared THEN sid ELSE sharedId
        /\ \A c \in Chats : ids'[c] = IF c = current THEN sid ELSE ids[c]
        /\ current # Shared => file' = ids'
        /\ current = Shared => file' = file
    BY <1>2, RememberEffect DEF BeginSwitch
  <2>4. ~slipped => sid' \notin dropped
    BY <2>1, <2>2, <2>3 DEF Keys
  <2>5. ~slipped => \A c \in Chats : c # k => {ids'[c], file'[c]} \cap dropped = {}
    BY <2>1, <2>3
  <2>6. ~slipped /\ k # Shared => sharedId' \notin dropped
    BY <2>1, <2>3
  <2> QED  BY <2>1, <2>2, <2>4, <2>5, <2>6
<1>3. ASSUME NEW k \in Keys, SaveFails(k)  PROVE DroppedIsGone'
  <2>1. /\ sharedId' = IF current = Shared THEN sid ELSE sharedId
        /\ \A c \in Chats : ids'[c] = IF c = current THEN sid ELSE ids[c]
        /\ file' = file /\ current # Shared
    BY <1>3 DEF SaveFails, Remember, TypeOK
  <2>2. phase = "idle" /\ phase' = "idle" /\ current' = current /\ sharedFile' = sharedFile
        /\ UNCHANGED <<spec, sid, proc, live, dropped, slipped>> /\ proc # "off"
    BY <1>3 DEF SaveFails, Batch, worker, history
  <2> QED  BY <2>1, <2>2
<1>4. CASE SwitchReturns
  BY <1>4 DEF SwitchReturns, engine, switcher, disk, worker, history
<1>5. CASE SwitchTimesOut
  BY <1>5 DEF SwitchTimesOut, Slip
<1>6. CASE Send
  BY <1>6 DEF Send, engine, switcher, disk, worker, history
<1>7. CASE SendRaises
  BY <1>7 DEF SendRaises, engine, switcher, disk, worker, history
<1>8. CASE TurnBegins
  <2>0. want \in Keys /\ Begun(want)  BY <1>8 DEF TurnBegins, TypeOK
  <2>1. /\ want = current /\ phase = "sent" /\ phase' = "turn" /\ proc = "up" /\ proc' = "up"
        /\ UNCHANGED <<want, current, sharedId, ids, file, sharedFile, spec, dropped, slipped>>
    BY <1>8 DEF TurnBegins, switcher, disk, SpecIsOfSession
  <2>2. live'.sid = sid'
    BY <2>0, BegunEffect
  <2>3. Len(made) + 1 \notin dropped
    BY NoIdTypes DEF TypeOK
  <2>4. ~slipped => sid' \notin dropped
    BY <2>0, <2>1, <2>3, BegunEffect
  <2> QED  BY <2>1, <2>2, <2>4
<1>9. CASE TurnEnds
  <2>1. live'.sid = live.sid  BY <1>9 DEF TurnEnds, TypeOK
  <2> QED  BY <1>9, <2>1 DEF TurnEnds, switcher, disk, history
<1>10. CASE LateInit
  <2>0. current \in Keys /\ Begun(current)  BY <1>10 DEF LateInit, TypeOK
  <2>1. /\ proc \in {"up", "killed"} /\ slipped' = (slipped \/ proc = "killed")
        /\ UNCHANGED <<phase, want, current, sharedId, ids, file, sharedFile, spec, proc, dropped>>
    BY <1>10 DEF LateInit, SlipIf, engine, switcher, disk
  <2>2. live'.sid = sid'
    BY <2>0, BegunEffect
  <2>3. Len(made) + 1 \notin dropped
    BY NoIdTypes DEF TypeOK
  <2>4. ~slipped' => sid' \notin dropped
    BY <2>0, <2>1, <2>3, BegunEffect
  <2> QED  BY <2>1, <2>2, <2>4
<1>11. CASE Abort
  BY <1>11 DEF Abort, Unread, Fault, engine, switcher, disk, worker, history
<1>12. CASE ProcessExits
  BY <1>12 DEF ProcessExits, Gone, engine, switcher, disk, worker, history
<1>13. CASE Crash
  BY <1>13 DEF Crash, Gone, Fault, engine, switcher, disk, worker, history
<1>14. CASE StaleExit
  BY <1>14 DEF StaleExit, switcher, history
<1>15. CASE StaleDrop
  BY <1>15, NoIdTypes DEF StaleDrop, engine, switcher, disk
<1>16. CASE BeginSpawn
  BY <1>16 DEF BeginSpawn, Resumed, Forget, engine, switcher, disk, worker, history
<1>17. CASE ResetSession
  <2>1. /\ UNCHANGED <<want, current, sharedId, ids, file>>
        /\ dropped' = dropped \cup ({sid} \ {None}) /\ sharedFile' = None
        /\ sid' = None /\ spec'.sid = None /\ proc' # "up" /\ proc # "off" /\ proc' # "off"
        /\ SessionOfSpec' = SessionOfSpec
        /\ ~slipped' => ~slipped /\ (proc' = "spawning" => live'.sid = None)
    BY <1>17, NoIdTypes DEF ResetSession, Unread, Terminate, SlipIf, switcher, TypeOK
  <2>2. ~slipped => \A k \in Chats : k # SessionOfSpec /\ sid # None => ids[k] # sid /\ file[k] # sid
    BY DEF IdsStayHome, WorkerStaysHome, Home
  <2>3. ~slipped /\ SessionOfSpec # Shared /\ sid # None => sharedId # sid
    BY DEF IdsStayHome, WorkerStaysHome, Home
  <2> HIDE DEF SessionOfSpec
  <2> QED  BY <2>1, <2>2, <2>3
<1>18. ASSUME NEW chat \in Keys, NEW audience \in Audiences, CallBegins(chat, audience)  PROVE DroppedIsGone'
  BY <1>18 DEF CallBegins, Refused, engine, switcher, disk, worker, history
<1>19. ASSUME NEW c \in calls, CallRecords(c)  PROVE DroppedIsGone'
  BY <1>19 DEF CallRecords, engine, switcher, disk, worker, history
<1>20. CASE Stop
  <2>3. /\ sharedId' = IF current = Shared THEN sid ELSE sharedId
        /\ \A c \in Chats : ids'[c] = IF c = current THEN sid ELSE ids[c]
        /\ current # Shared => file' = ids'
        /\ current = Shared => file' = file
    BY <1>20, RememberEffect DEF Stop
  <2>4. /\ slipped' = (slipped \/ phase = "switching") /\ proc' = "off"
        /\ sharedFile' \in {sharedId', sharedFile}
        /\ UNCHANGED <<phase, want, current, spec, sid, live, dropped>>
    BY <1>20 DEF Stop, SlipIf
  <2> QED  BY <2>3, <2>4
<1>21. CASE Kill
  BY <1>21 DEF Kill, Fault, engine, switcher, disk, worker, history
<1>22. CASE Boot
  BY <1>22 DEF Boot, engine, switcher, disk, worker, history
<1>23. CASE UNCHANGED vars
  BY <1>23 DEF vars, engine, switcher, disk, worker, history
<1>24. CASE FinishTurn
  <2>1. /\ sharedId' = IF current = Shared THEN sid ELSE sharedId
        /\ \A c \in Chats : ids'[c] = IF c = current THEN sid ELSE ids[c]
        /\ current # Shared => file' = ids'
        /\ current = Shared => file' = file
    BY <1>24, RememberEffect DEF FinishTurn
  <2>2. /\ slipped' = (slipped \/ phase = "switching")
        /\ UNCHANGED <<phase, want, current, sharedFile, spec, sid, proc, live, dropped>>
    BY <1>24 DEF FinishTurn, SlipIf, worker
  <2> QED  BY <2>1, <2>2
<1>25. CASE FinishSpawn
  BY <1>25 DEF FinishSpawn, engine, switcher, disk, history
<1> QED
  BY <1>1, <1>2, <1>3, <1>4, <1>5, <1>6, <1>7, <1>8, <1>9, <1>10, <1>11, <1>12, <1>13, <1>14, <1>15, <1>16, <1>17, <1>18, <1>19, <1>20, <1>21, <1>22, <1>23, <1>24, <1>25 DEF Next

--------------------------------------------------------------------------------
(* Conversations that go on *)

LEMMA KeptStep ==
    ASSUME TypeOK, SpecIsOfSession, TurnIsBound, KeptIsSaved, [Next]_vars PROVE KeptIsSaved'
<1> USE KeysDiffer DEF KeptIsSaved, SessionOfSpec
<1>1. ASSUME NEW k \in Keys, EnterSame(k)  PROVE KeptIsSaved'
  BY <1>1 DEF EnterSame, Batch, engine, switcher, disk, worker, history
<1>2. ASSUME NEW k \in Keys, BeginSwitch(k)  PROVE KeptIsSaved'
  <2>1. /\ proc' # "up" /\ proc # "off" /\ proc' # "off" /\ phase = "idle" /\ k # current
        /\ phase' = "switching" /\ want' = k /\ current' = current
        /\ kept' = kept /\ sharedFile' = sharedFile
        /\ ~slipped' => ~slipped /\ proc' # "spawning"
    BY <1>2 DEF BeginSwitch, Batch, Terminate, Overtake, SlipIf
  <2>2. spec'.sid = (IF k = Shared THEN sharedId' ELSE ids[k]) /\ sid' = spec'.sid
    BY <1>2 DEF BeginSwitch, SpecFor
  <2>3. /\ sharedId' = IF current = Shared THEN sid ELSE sharedId
        /\ \A c \in Chats : ids'[c] = IF c = current THEN sid ELSE ids[c]
        /\ current # Shared => file' = ids'
        /\ current = Shared => file' = file
    BY <1>2, RememberEffect DEF BeginSwitch
  <2>4. ~slipped /\ kept[k] # None => sid' = kept[k]
    BY <2>1, <2>2, <2>3 DEF Keys
  <2>5. ~slipped => \A c \in Chats \ {k} : kept[c] # None => ids'[c] = kept[c] /\ file'[c] = kept[c]
    BY <2>1, <2>3
  <2>6. ~slipped /\ k # Shared /\ kept[Shared] # None => sharedId' = kept[Shared]
    BY <2>1, <2>3
  <2> QED  BY <2>1, <2>2, <2>4, <2>5, <2>6
<1>3. ASSUME NEW k \in Keys, SaveFails(k)  PROVE KeptIsSaved'
  <2>1. /\ sharedId' = IF current = Shared THEN sid ELSE sharedId
        /\ \A c \in Chats : ids'[c] = IF c = current THEN sid ELSE ids[c]
        /\ file' = file /\ current # Shared
    BY <1>3 DEF SaveFails, Remember, TypeOK
  <2>2. phase = "idle" /\ phase' = "idle" /\ current' = current /\ sharedFile' = sharedFile
        /\ UNCHANGED <<spec, sid, proc, live, kept, slipped>> /\ proc # "off"
    BY <1>3 DEF SaveFails, Batch, worker, history
  <2> QED  BY <2>1, <2>2
<1>4. CASE SwitchReturns
  BY <1>4 DEF SwitchReturns, engine, switcher, disk, worker, history
<1>5. CASE SwitchTimesOut
  BY <1>5 DEF SwitchTimesOut, Slip
<1>6. CASE Send
  BY <1>6 DEF Send, engine, switcher, disk, worker, history
<1>7. CASE SendRaises
  BY <1>7 DEF SendRaises, engine, switcher, disk, worker, history
<1>8. CASE TurnBegins
  <2>0. want \in Keys /\ Begun(want)  BY <1>8 DEF TurnBegins, TypeOK
  <2>1. /\ want = current /\ phase = "sent" /\ phase' = "turn" /\ proc = "up" /\ proc' = "up"
        /\ UNCHANGED <<want, current, sharedId, ids, file, sharedFile, spec, slipped>>
    BY <1>8 DEF TurnBegins, switcher, disk, SpecIsOfSession
  <2>2. live'.sid = sid' /\ (live.sid # None => sid' = live.sid)
    BY <2>0, BegunEffect
  <2>3. kept'[current] = sid' /\ \A k \in Keys : k # current => kept'[k] = kept[k]
    BY <2>0, <2>1, BegunEffect
  <2> QED  BY <2>1, <2>2, <2>3 DEF Keys
<1>9. CASE TurnEnds
  <2>1. live'.sid = live.sid  BY <1>9 DEF TurnEnds, TypeOK
  <2> QED  BY <1>9, <2>1 DEF TurnEnds, switcher, disk, history
<1>10. CASE LateInit
  <2>0. current \in Keys /\ Begun(current)  BY <1>10 DEF LateInit, TypeOK
  <2>1. /\ proc \in {"up", "killed"} /\ slipped' = (slipped \/ proc = "killed")
        /\ UNCHANGED <<phase, want, current, sharedId, ids, file, sharedFile, spec, proc>>
    BY <1>10 DEF LateInit, SlipIf, engine, switcher, disk
  <2>2. phase # "switching" \/ proc = "killed"
    BY <1>10 DEF LateInit, TurnIsBound
  <2>3. live'.sid = sid' /\ (live.sid # None => sid' = live.sid)
    BY <2>0, BegunEffect
  <2>4. kept'[current] = sid' /\ \A k \in Keys : k # current => kept'[k] = kept[k]
    BY <2>0, BegunEffect
  <2> QED  BY <2>1, <2>2, <2>3, <2>4 DEF Keys
<1>11. CASE Abort
  BY <1>11 DEF Abort, Unread, Fault, engine, switcher, disk, worker, history
<1>12. CASE ProcessExits
  BY <1>12 DEF ProcessExits, Gone, engine, switcher, disk, worker, history
<1>13. CASE Crash
  BY <1>13 DEF Crash, Gone, Fault, engine, switcher, disk, worker, history
<1>14. CASE StaleExit
  BY <1>14 DEF StaleExit, switcher, history, SpecIsOfSession, TypeOK
<1>15. CASE StaleDrop
  <2>1. kept'[SessionOfSpec] = None /\ \A k \in Keys : k # SessionOfSpec => kept'[k] = kept[k]
    BY <1>15, NoIdTypes DEF StaleDrop, Forget, TypeOK
  <2>2. spec'.sid = None /\ sid' = None /\ proc = "stale" /\ proc' = "down"
        /\ UNCHANGED <<phase, want, current, sharedId, ids, file, slipped>>
    BY <1>15, NoIdTypes DEF StaleDrop, engine, switcher, disk
  <2> QED  BY <2>1, <2>2 DEF Keys
<1>16. CASE BeginSpawn
  <2>1. live'.sid = spec.sid /\ proc = "down" /\ proc' = "spawning"
        /\ UNCHANGED <<phase, want, current, sharedId, ids, file, slipped, spec, sid>>
    BY <1>16 DEF BeginSpawn, Resumed, engine, switcher, disk
  <2>2. CASE phase # "switching" /\ spec.sid = None
    <3>1. kept'[current] = None /\ \A k \in Keys : k # current => kept'[k] = kept[k]
      BY <1>16, <2>2 DEF BeginSpawn, Forget, TypeOK
    <3> QED  BY <2>1, <2>2, <3>1 DEF Keys
  <2>3. CASE ~(phase # "switching" /\ spec.sid = None)
    <3>1. kept' = kept  BY <1>16, <2>3 DEF BeginSpawn
    <3> QED  BY <2>1, <2>3, <3>1
  <2> QED  BY <2>2, <2>3
<1>17. CASE ResetSession
  <2>1. kept'[SessionOfSpec] = None /\ \A k \in Keys : k # SessionOfSpec => kept'[k] = kept[k]
    BY <1>17, NoIdTypes DEF ResetSession, Unread, Forget, TypeOK
  <2>2. /\ UNCHANGED <<want, current, sharedId, ids, file>>
        /\ sid' = None /\ spec'.sid = None /\ proc' # "up" /\ proc # "off" /\ proc' # "off"
        /\ SessionOfSpec' = SessionOfSpec
        /\ ~slipped' => ~slipped /\ (proc' = "spawning" => live'.sid = None)
    BY <1>17, NoIdTypes DEF ResetSession, Unread, Terminate, SlipIf, switcher, TypeOK
  <2> HIDE DEF SessionOfSpec
  <2> QED  BY <2>1, <2>2 DEF Keys
<1>18. ASSUME NEW chat \in Keys, NEW audience \in Audiences, CallBegins(chat, audience)  PROVE KeptIsSaved'
  BY <1>18 DEF CallBegins, Refused, engine, switcher, disk, worker, history
<1>19. ASSUME NEW c \in calls, CallRecords(c)  PROVE KeptIsSaved'
  BY <1>19 DEF CallRecords, engine, switcher, disk, worker, history
<1>20. CASE Stop
  <2>3. /\ sharedId' = IF current = Shared THEN sid ELSE sharedId
        /\ \A c \in Chats : ids'[c] = IF c = current THEN sid ELSE ids[c]
        /\ current # Shared => file' = ids'
        /\ current = Shared => file' = file
    BY <1>20, RememberEffect DEF Stop
  <2>4. /\ slipped' = (slipped \/ phase = "switching") /\ proc' = "off" /\ proc # "off"
        /\ sharedFile' = IF sharedId' # None THEN sharedId' ELSE sharedFile
        /\ UNCHANGED <<phase, want, current, spec, sid, live, kept>>
    BY <1>20 DEF Stop, SlipIf
  <2> QED  BY <2>3, <2>4
<1>21. CASE Kill
  <2>1. kept'[Shared] = sharedFile /\ \A k \in Chats : kept'[k] = file[k]
    BY <1>21 DEF Kill, Keys
  <2> QED  BY <1>21, <2>1 DEF Kill, disk, switcher
<1>22. CASE Boot
  BY <1>22 DEF Boot, engine, switcher, disk, worker, history
<1>23. CASE UNCHANGED vars
  BY <1>23 DEF vars, engine, switcher, disk, worker, history
<1>24. CASE FinishTurn
  <2>1. /\ sharedId' = IF current = Shared THEN sid ELSE sharedId
        /\ \A c \in Chats : ids'[c] = IF c = current THEN sid ELSE ids[c]
        /\ current # Shared => file' = ids'
        /\ current = Shared => file' = file
    BY <1>24, RememberEffect DEF FinishTurn
  <2>2. /\ slipped' = (slipped \/ phase = "switching")
        /\ UNCHANGED <<phase, want, current, sharedFile, spec, sid, proc, live, kept>> /\ proc # "off"
    BY <1>24 DEF FinishTurn, SlipIf, worker
  <2> QED  BY <2>1, <2>2
<1>25. CASE FinishSpawn
  BY <1>25 DEF FinishSpawn, engine, switcher, disk, history
<1> QED
  BY <1>1, <1>2, <1>3, <1>4, <1>5, <1>6, <1>7, <1>8, <1>9, <1>10, <1>11, <1>12, <1>13, <1>14, <1>15, <1>16, <1>17, <1>18, <1>19, <1>20, <1>21, <1>22, <1>23, <1>24, <1>25 DEF Next

--------------------------------------------------------------------------------
(* The theorems *)

\* The inductive invariant holds always.
LEMMA Invariant == Spec => []IInv
<1>1. Init => IInv
  <2> SUFFICES ASSUME Init PROVE IInv
    OBVIOUS
  <2>1. 0..Len(made) = {None} /\ made \in Seq(Keys)  BY DEF Init, None
  <2>2. /\ ids \in [Chats -> {None}] /\ file \in [Chats -> {None}] /\ kept \in [Keys -> {None}]
        /\ spec \in [private : BOOLEAN, sid : {None}]
        /\ live \in [private : BOOLEAN, sid : {None}, turn : Keys \cup {Nobody}]
    BY DEF Init
  <2>3. TypeOK  BY <2>1, <2>2 DEF Init, TypeOK, Keys
  <2>4. SpecIsOfSession /\ TurnIsBound /\ PrivateCallsStayHome
    BY KeysDiffer DEF Init, SpecIsOfSession, TurnIsBound, PrivateCallsStayHome
  <2>5. IdsStayHome /\ WorkerStaysHome
    BY <2>2 DEF Init, IdsStayHome, WorkerStaysHome, Home
  <2>6. DroppedIsGone  BY <2>2 DEF Init, DroppedIsGone, SessionOfSpec
  <2>7. KeptIsSaved  BY <2>2 DEF Init, KeptIsSaved, SessionOfSpec, Keys
  <2> QED  BY <2>3, <2>4, <2>5, <2>6, <2>7 DEF IInv
<1>2. IInv /\ [Next]_vars => IInv'
  BY TypeStep, SpecStep, TurnStep, CallsStep, HomeStep, DroppedStep, KeptStep DEF IInv
<1> QED  BY <1>1, <1>2, PTL DEF Spec

\* A turn that begins is the step of its init event.
LEMMA TurnBeginsOnly ==
    ASSUME [Next]_vars, phase = "sent", phase' = "turn"
    PROVE  TurnBegins
BY DEF Next, EnterSame, BeginSwitch, SaveFails, Batch, SwitchReturns, SwitchTimesOut, Send, SendRaises,
       TurnEnds, FinishTurn, LateInit, Abort, ProcessExits, Crash, StaleExit, StaleDrop, BeginSpawn, FinishSpawn, ResetSession,
       CallBegins, CallRecords, Stop, Kill, Boot, vars, engine

\* Switcher, store, worker and tools keep their types; every saved session id is
\* one claude has given out.
THEOREM TypeCorrect == Spec => []TypeOK
<1>1. IInv => TypeOK  BY DEF IInv
<1> QED  BY <1>1, Invariant, PTL

\* Whatever switch timed out, crashed or was reset on the way, a turn runs with
\* the tool profile of its session, unless its process was overtaken by the switch.
THEOREM Tools == Spec => []TurnHasItsTools
<1>1. IInv => TurnHasItsTools  BY DEF IInv, SpecIsOfSession, TurnHasItsTools
<1> QED  BY <1>1, Invariant, PTL

\* SessionSwitcher.remember and the worker never save an id under the key of
\* another session, up to the five events named at Slip.
THEOREM SavedHome == Spec => []IdsStayHome
<1>1. IInv => IdsStayHome  BY DEF IInv
<1> QED  BY <1>1, Invariant, PTL

\* call_refusal and reply_refusal keep a private turn's calls in its chat.
THEOREM Calls == Spec => []PrivateCallsStayHome
<1>1. IInv => PrivateCallsStayHome  BY DEF IInv
<1> QED  BY <1>1, Invariant, PTL

\* The conversation of a session goes on in its next turn, through switches and
\* restarts.
THEOREM GoesOn == Spec => ConversationGoesOn
<1>1. IInv /\ [Next]_vars =>
        [phase = "sent" /\ phase' = "turn" /\ ~slipped /\ kept[want] # None
          => live'.sid = kept[want]]_vars
  <2> SUFFICES ASSUME IInv, [Next]_vars, phase = "sent", phase' = "turn", ~slipped, kept[want] # None
               PROVE  live'.sid = kept[want]
    OBVIOUS
  <2>1. TurnBegins  BY TurnBeginsOnly
  <2>2. TypeOK /\ want = current /\ proc = "up"
    BY <2>1 DEF IInv, SpecIsOfSession, TurnBegins
  <2>3. live.sid = kept[want]  BY <2>2 DEF IInv, KeptIsSaved, SessionOfSpec
  <2>4. live'.sid = live.sid  BY <2>1, <2>2, <2>3, BegunEffect DEF TurnBegins, TypeOK
  <2> QED  BY <2>3, <2>4
<1> QED  BY <1>1, Invariant, PTL DEF Spec, ConversationGoesOn

\* A conversation that /reset_session gave up is not resumed by the same run of
\* the bot.
THEOREM Final == Spec => ResetIsFinal
<1>1. IInv /\ [Next]_vars =>
        [phase = "sent" /\ phase' = "turn" /\ ~slipped => live'.sid \notin dropped]_vars
  <2> SUFFICES ASSUME IInv, [Next]_vars, phase = "sent", phase' = "turn", ~slipped
               PROVE  live'.sid \notin dropped
    OBVIOUS
  <2>1. TurnBegins  BY TurnBeginsOnly
  <2>2. proc' = "up" /\ slipped' = slipped /\ dropped' = dropped  BY <2>1 DEF TurnBegins
  <2>3. DroppedIsGone'  BY DroppedStep DEF IInv
  <2> QED  BY <2>2, <2>3 DEF DroppedIsGone
<1> QED  BY <1>1, Invariant, PTL DEF Spec, ResetIsFinal
================================================================================
