----------------------------- MODULE MCWeb_proofs -----------------------------
(***************************************************************************)
(* Proofs about the web channel (WebChannel, as the part "web" of          *)
(* MCMessages), for any requests, streams, chats and bounds.  They close   *)
(* the composition: its types hold whichever part a behaviour is of.       *)
(***************************************************************************)
EXTENDS MCInbound_proofs, FiniteSetTheorems, WellFoundedInduction

-----------------------------------------------------------------------------
(* The highest stored id, and counting *)

LEMMA SameCardinality == \A S : Web!Cardinality(S) = Cardinality(S)
  BY DEF Cardinality, Web!Cardinality

LEMMA LessOnNat == \A i, j \in Nat : i < j => <<i, j>> \in OpToRel(<, Nat)
<1>1. OpToRel(<, Nat) = {ss \in Nat \X Nat : ss[1] < ss[2]}
  BY DEF OpToRel
<1>2. QED
  BY <1>1

\* A set of numbers with a bound has a highest one: its least upper bound is in it.
LEMMA Highest ==
  ASSUME NEW n \in Nat, NEW S \in SUBSET (0 .. n), S # {}
  PROVE  Web!Max(S) \in S /\ \A y \in S : Web!Max(S) >= y
<1> DEFINE Bounds == {k \in Nat : \A y \in S : y <= k}
<1>1. Bounds \subseteq Nat /\ n \in Bounds
  OBVIOUS
<1>2. PICK m \in Bounds : \A k \in Bounds : <<k, m>> \notin OpToRel(<, Nat)
  <2> HIDE DEF Bounds
  <2>1. QED
    BY <1>1, NatLessThanWellFounded, WFMin
<1>3. \A k \in Bounds : m <= k
  <2>1. ASSUME NEW k \in Bounds, k < m
        PROVE  FALSE
    BY <1>2, <2>1, LessOnNat
  <2>2. QED
    BY <2>1
<1>4. m \in S
  <2>1. CASE m = 0
    <3>1. \A y \in S : y = 0
      BY <2>1
    <3>2. QED
      BY <3>1, <2>1
  <2>2. CASE m # 0 /\ m \notin S
    <3>1. m - 1 \in Bounds
      BY <2>2
    <3>2. QED
      BY <3>1, <1>3
  <2>3. QED
    BY <2>1, <2>2
<1>5. \E x \in S : \A y \in S : x >= y
  BY <1>4
<1>6. QED
  BY <1>5 DEF Web!Max

\* The highest stored id of a chat bounds the ids of its rows, and is one of them or 0.
LEMMA MaxStoredFacts ==
  ASSUME NEW n \in Nat, \A r \in table : r.id \in 0 .. n, NEW c
  PROVE  /\ Web!MaxStored(c) \in 0 .. n
         /\ \A r \in table : r.chat = c => r.id <= Web!MaxStored(c)
<1> DEFINE S == {0} \cup {r.id : r \in {x \in table : x.chat = c}}
<1>1. S \in SUBSET (0 .. n) /\ S # {}
  OBVIOUS
<1>2. \A r \in table : r.chat = c => r.id \in S
  OBVIOUS
<1>3. Web!MaxStored(c) = Web!Max(S)
  BY DEF Web!MaxStored
<1> HIDE DEF S
<1>4. Web!Max(S) \in S /\ \A y \in S : Web!Max(S) >= y
  BY <1>1, Highest
<1>5. QED
  BY <1>1, <1>2, <1>3, <1>4

-----------------------------------------------------------------------------
(* Tasks *)

LEMMA TasksAreFinite ==
  /\ IsFiniteSet(Web!Tasks) /\ Web!Free \notin Web!Tasks
  /\ Limit \in Nat /\ MaxMessages \in Nat /\ MaxEvents \in Nat /\ "none" \notin WebChats
  BY MessagesAssumption DEF Web!Tasks, Web!Free

LEMMA TaskFields ==
  ASSUME NEW s \in Web!TaskStates
  PROVE  /\ s # Web!Rest /\ s.pc \in Web!Points /\ s.pc # "rest" /\ s.chat \in WebChats
         /\ s.id \in 0 .. MaxMessages /\ s.token \in Web!Tokens /\ s.bucket \in 0 .. clock
         /\ s.known \in BOOLEAN /\ s.recorded \in BOOLEAN
  BY DEF Web!TaskStates, Web!Rest, Web!Points

LEMMA TaskFacts ==
  ASSUME Web!TypeOK, NEW t \in Web!Tasks
  PROVE  /\ task[t] \in Web!TaskStates \/ task[t] = Web!Rest
         /\ task[t].pc = "rest" <=> task[t] = Web!Rest
         /\ task[t] # Web!Rest <=> task[t] \in Web!TaskStates
  BY TaskFields DEF Web!TypeOK, Web!Rest

\* A task at a later point of its way.
LEMMA TaskMoves ==
  ASSUME NEW s \in Web!TaskStates, NEW p \in Web!Points
  PROVE  /\ [s EXCEPT !.pc = p] \in Web!TaskStates
         /\ [s EXCEPT !.pc = p].pc = p
         /\ [s EXCEPT !.pc = p].chat = s.chat /\ [s EXCEPT !.pc = p].token = s.token
         /\ [s EXCEPT !.pc = p].id = s.id
  BY DEF Web!TaskStates

LEMMA TaskGetsId ==
  ASSUME NEW s \in Web!TaskStates, NEW i \in 0 .. MaxMessages
  PROVE  /\ [s EXCEPT !.id = i] \in Web!TaskStates
         /\ [s EXCEPT !.id = i].chat = s.chat /\ [s EXCEPT !.id = i].token = s.token
         /\ [s EXCEPT !.id = i].id = i /\ [s EXCEPT !.id = i].recorded = s.recorded
  BY DEF Web!TaskStates

-----------------------------------------------------------------------------
(* What each action does to the tasks *)

Others(t) == \A s \in Web!Tasks : s # t => task'[s] = task[s]

Begins(t) ==
    /\ task[t] = Web!Rest /\ Others(t)
    /\ task'[t] \in Web!TaskStates
    /\ task'[t].pc = "id" \/ (task'[t].pc = "over" /\ t \in Posts)
    /\ task'[t].id = 0 /\ task'[t].token = messages + 1
    /\ messages < MaxMessages /\ messages' = messages + 1

\* Task t goes from one point to another, with the same chat, token and id.
Goes(t, from, to) ==
    /\ task[t] \in Web!TaskStates /\ task[t].pc = from /\ Others(t)
    /\ task'[t] \in Web!TaskStates /\ task'[t].pc = to
    /\ task'[t].chat = task[t].chat /\ task'[t].token = task[t].token
    /\ task'[t].id = task[t].id
    /\ messages' = messages

Ends(t, from) ==
    /\ task[t] \in Web!TaskStates /\ task[t].pc = from /\ Others(t)
    /\ task'[t] = Web!Rest
    /\ messages' = messages

LEMMA PostFacts ==
  ASSUME Web!TypeOK, NEW t \in Posts, NEW c \in WebChats, Web!Post(t, c)
  PROVE  t \in Web!Tasks /\ running /\ Begins(t) /\ task'[t].chat = c
<1> DEFINE over == Web!Over(Web!Count(quota, <<c, clock>>), <<c, clock>>)
           new == [pc |-> IF over THEN "over" ELSE "id", chat |-> c, id |-> 0,
                   token |-> messages', bucket |-> clock, known |-> FALSE, recorded |-> TRUE]
<1>1. /\ running /\ task[t] = Web!Rest /\ messages < MaxMessages /\ messages' = messages + 1
      /\ task' = [task EXCEPT ![t] = new]
  BY DEF Web!Post, Web!Fresh
<1>2. messages' \in Web!Tokens /\ clock \in 0 .. clock /\ t \in Web!Tasks
  BY <1>1, TasksAreFinite DEF Web!TypeOK, Web!Tokens, Web!Tasks
<1>3. /\ new \in Web!TaskStates /\ new.pc \in {"over", "id"} /\ new.id = 0
      /\ new.token = messages' /\ new.chat = c
  BY <1>2, TasksAreFinite DEF Web!TaskStates, Web!Points
<1> HIDE DEF new
<1>4. QED
  BY <1>1, <1>2, <1>3 DEF Web!TypeOK, Begins, Others

LEMMA SendFacts ==
  ASSUME Web!TypeOK, NEW t \in Sends, NEW c \in WebChats, NEW recorded \in BOOLEAN,
         Web!Send(t, c, recorded)
  PROVE  t \in Web!Tasks /\ running /\ Begins(t) /\ task'[t].chat = c /\ task'[t].pc = "id"
<1> DEFINE new == [pc |-> "id", chat |-> c, id |-> 0, token |-> messages', bucket |-> clock,
                   known |-> FALSE, recorded |-> recorded]
<1>1. /\ running /\ task[t] = Web!Rest /\ messages < MaxMessages /\ messages' = messages + 1
      /\ task' = [task EXCEPT ![t] = new]
  BY DEF Web!Send, Web!Fresh
<1>2. messages' \in Web!Tokens /\ clock \in 0 .. clock /\ t \in Web!Tasks
  BY <1>1, TasksAreFinite DEF Web!TypeOK, Web!Tokens, Web!Tasks
<1>3. /\ new \in Web!TaskStates /\ new.pc = "id" /\ new.id = 0
      /\ new.token = messages' /\ new.chat = c
  BY <1>2, TasksAreFinite DEF Web!TaskStates, Web!Points
<1> HIDE DEF new
<1>4. QED
  BY <1>1, <1>2, <1>3 DEF Web!TypeOK, Begins, Others

LEMMA OverLimitFacts ==
  ASSUME Web!TypeOK, NEW t \in Web!Tasks, Web!OverLimit(t)
  PROVE  Ends(t, "over")
  BY TaskFacts DEF Web!OverLimit, Web!At, Web!Done, Web!TypeOK, Ends, Others, Web!Rest

LEMMA SubmitFacts ==
  ASSUME Web!TypeOK, NEW t \in Web!Tasks, Web!Submit(t)
  PROVE  Ends(t, "submit") /\ submitted' = submitted \cup {task[t].token}
  BY TaskFacts DEF Web!Submit, Web!At, Web!Done, Web!TypeOK, Ends, Others, Web!Rest

\* A statement that stores a message: its row takes the place of one with the same id.
StoresRow(t, out) ==
    /\ table' = {r \in table : r.chat # task[t].chat \/ r.id # task[t].id}
                \cup {[chat |-> task[t].chat, id |-> task[t].id, token |-> task[t].token,
                       out |-> out]}
    /\ stored' = stored \cup {task[t].token}

LEMMA InsertFacts ==
  ASSUME Web!TypeOK, NEW t \in Web!Tasks, Web!InsertMessage(t)
  PROVE  Goes(t, "insert", "user") /\ StoresRow(t, FALSE)
<1>1. /\ task[t].pc = "insert" /\ task' = [task EXCEPT ![t].pc = "user"] /\ messages' = messages
      /\ StoresRow(t, FALSE)
  BY DEF Web!InsertMessage, Web!At, Web!Goto, StoresRow
<1>2. task[t] \in Web!TaskStates
  BY <1>1, TaskFacts
<1>3. task'[t] = [task[t] EXCEPT !.pc = "user"] /\ Others(t)
  BY <1>1 DEF Web!TypeOK, Others
<1>4. "user" \in Web!Points
  BY DEF Web!Points
<1>5. /\ task'[t] \in Web!TaskStates /\ task'[t].pc = "user" /\ task'[t].id = task[t].id
      /\ task'[t].chat = task[t].chat /\ task'[t].token = task[t].token
  BY <1>2, <1>3, <1>4, TaskMoves
<1>6. QED
  BY <1>1, <1>2, <1>3, <1>5 DEF Goes

LEMMA RecordFacts ==
  ASSUME Web!TypeOK, NEW t \in Web!Tasks, Web!RecordOutbound(t)
  PROVE  Ends(t, "record") /\ StoresRow(t, TRUE)
<1>1. /\ task[t].pc = "record" /\ task' = [task EXCEPT ![t] = Web!Rest] /\ messages' = messages
      /\ StoresRow(t, TRUE)
  BY DEF Web!RecordOutbound, Web!At, Web!Done, StoresRow
<1>2. QED
  BY <1>1, TaskFacts DEF Web!TypeOK, Ends, Others

LEMMA ReadUserFacts ==
  ASSUME Web!TypeOK, NEW t \in Web!Tasks, Web!ReadUser(t)
  PROVE  Goes(t, "user", "upsert")
<1> DEFINE k == task[t].chat \in users
<1>1. /\ task[t].pc = "user" /\ messages' = messages
      /\ task' = [task EXCEPT ![t] = [@ EXCEPT !.pc = "upsert", !.known = k]]
  BY DEF Web!ReadUser, Web!At
<1>2. task[t] \in Web!TaskStates
  BY <1>1, TaskFacts
<1>3. task'[t] = [task[t] EXCEPT !.pc = "upsert", !.known = k] /\ Others(t) /\ k \in BOOLEAN
  BY <1>1 DEF Web!TypeOK, Others
<1> HIDE DEF k
<1>4. /\ task'[t] \in Web!TaskStates /\ task'[t].pc = "upsert" /\ task'[t].id = task[t].id
      /\ task'[t].chat = task[t].chat /\ task'[t].token = task[t].token
  BY <1>2, <1>3 DEF Web!TaskStates, Web!Points
<1>5. QED
  BY <1>1, <1>2, <1>3, <1>4 DEF Goes

LEMMA UpsertFacts ==
  ASSUME Web!TypeOK, NEW t \in Web!Tasks, Web!UpsertUser(t)
  PROVE  \/ Ends(t, "upsert") /\ raced' = raced \cup {task[t].token} /\ users' = users
         \/ Goes(t, "upsert", "submit") /\ raced' = raced /\ users' = users \cup {task[t].chat}
<1> DEFINE Fails == /\ task' = [task EXCEPT ![t] = Web!Rest]
                    /\ raced' = raced \cup {task[t].token} /\ users' = users
           Writes == /\ task' = [task EXCEPT ![t].pc = "submit"]
                     /\ users' = users \cup {task[t].chat} /\ raced' = raced
<1>1. task[t].pc = "upsert" /\ messages' = messages /\ (Fails \/ Writes)
  BY DEF Web!UpsertUser, Web!At, Web!Goto, Web!Done
<1>2. task[t] \in Web!TaskStates
  BY <1>1, TaskFacts
<1>3. CASE Fails
  BY <1>1, <1>2, <1>3 DEF Web!TypeOK, Ends, Others
<1>4. CASE Writes
  <2>1. task'[t] = [task[t] EXCEPT !.pc = "submit"] /\ Others(t)
    BY <1>4 DEF Web!TypeOK, Others
  <2>2. "submit" \in Web!Points
    BY DEF Web!Points
  <2>3. /\ task'[t] \in Web!TaskStates /\ task'[t].pc = "submit" /\ task'[t].id = task[t].id
        /\ task'[t].chat = task[t].chat /\ task'[t].token = task[t].token
    BY <1>2, <2>1, <2>2, TaskMoves
  <2>4. QED
    BY <1>1, <1>2, <1>4, <2>1, <2>3 DEF Goes
<1>5. QED
  BY <1>1, <1>3, <1>4

\* The load of a chat's highest id.
LEMMA LoadFacts ==
  ASSUME Web!TypeOK, NEW t \in Web!Tasks, Web!LoadIds(t),
         \A r \in table : r.id \in 0 .. MaxMessages
  PROVE  /\ task[t] \in Web!TaskStates /\ task[t].pc = "id" /\ Others(t)
         /\ task'[t] \in Web!TaskStates /\ task'[t].pc = "assign"
         /\ task'[t].chat = task[t].chat /\ task'[t].token = task[t].token
         /\ task'[t].id = Web!MaxStored(task[t].chat)
         /\ messages' = messages
         /\ idLock = Web!Free /\ idLock' = t /\ lastIds[task[t].chat] = Web!Unloaded
<1> DEFINE i == Web!MaxStored(task[t].chat)
<1>1. /\ task[t].pc = "id" /\ messages' = messages
      /\ task' = [task EXCEPT ![t] = [@ EXCEPT !.pc = "assign", !.id = i]]
      /\ idLock = Web!Free /\ idLock' = t /\ lastIds[task[t].chat] = Web!Unloaded
  BY DEF Web!LoadIds, Web!At
<1>2. task[t] \in Web!TaskStates
  BY <1>1, TaskFacts
<1>3. i \in 0 .. MaxMessages
  BY MaxStoredFacts, TasksAreFinite
<1> HIDE DEF i
<1>4. task'[t] = [task[t] EXCEPT !.pc = "assign", !.id = i] /\ Others(t)
  BY <1>1 DEF Web!TypeOK, Others
<1>5. /\ task'[t] \in Web!TaskStates /\ task'[t].pc = "assign" /\ task'[t].id = i
      /\ task'[t].chat = task[t].chat /\ task'[t].token = task[t].token
  BY <1>2, <1>3, <1>4 DEF Web!TaskStates, Web!Points
<1>6. QED
  BY <1>1, <1>2, <1>4, <1>5 DEF i

\* The id that AssignId gives.
LastOf(t) == IF Web!At(t, "assign") THEN task[t].id + 1 ELSE lastIds[task[t].chat]

\* A task takes the id and goes on to store its message, or is through.
LEMMA AssignFacts ==
  ASSUME Web!TypeOK, NEW t \in Web!Tasks, Web!AssignId(t), LastOf(t) \in 0 .. MaxMessages
  PROVE  /\ task[t] \in Web!TaskStates /\ Others(t) /\ messages' = messages
         /\ \/ task[t].pc = "assign"
            \/ task[t].pc = "id" /\ idLock = Web!Free /\ lastIds[task[t].chat] # Web!Unloaded
         /\ \/ /\ task'[t] \in Web!TaskStates
               /\ task'[t].chat = task[t].chat /\ task'[t].token = task[t].token
               /\ task'[t].id = LastOf(t)
               /\ \/ t \in Posts /\ task'[t].pc = "insert" /\ stream' = stream
                  \/ t \notin Posts /\ task'[t].pc = "record"
                     /\ Web!Publish(task[t].chat, task[t].token)
            \/ /\ task'[t] = Web!Rest /\ t \notin Posts
               /\ Web!Publish(task[t].chat, task[t].token)
         /\ lastIds' = [lastIds EXCEPT ![task[t].chat] = LastOf(t) + 1]
         /\ idLock' = IF task[t].pc = "assign" THEN Web!Free ELSE idLock
<1> DEFINE m == [task[t] EXCEPT !.id = LastOf(t)]
           Gate == \/ task[t].pc = "assign"
                   \/ task[t].pc = "id" /\ idLock = Web!Free
                      /\ lastIds[task[t].chat] # Web!Unloaded
<1>1. /\ Gate /\ messages' = messages
      /\ lastIds' = [lastIds EXCEPT ![task[t].chat] = LastOf(t) + 1]
      /\ idLock' = IF task[t].pc = "assign" THEN Web!Free ELSE idLock
      /\ IF t \in Posts
         THEN task' = [task EXCEPT ![t] = [m EXCEPT !.pc = "insert"]] /\ stream' = stream
         ELSE /\ task' = [task EXCEPT ![t] = IF m.recorded THEN [m EXCEPT !.pc = "record"]
                                             ELSE Web!Rest]
              /\ Web!Publish(task[t].chat, m.token)
  BY DEF Web!AssignId, Web!At, LastOf, Web!Advanced
<1>2. task[t] \in Web!TaskStates
  BY <1>1, TaskFacts
<1>3. /\ m \in Web!TaskStates /\ m.chat = task[t].chat /\ m.token = task[t].token
      /\ m.id = LastOf(t)
  BY <1>2, TaskGetsId
<1> HIDE DEF m, Gate
<1>4. "insert" \in Web!Points /\ "record" \in Web!Points
  BY DEF Web!Points
<1>5. CASE t \in Posts
  <2>1. task'[t] = [m EXCEPT !.pc = "insert"] /\ Others(t)
    BY <1>1, <1>5 DEF Web!TypeOK, Others
  <2>2. /\ task'[t] \in Web!TaskStates /\ task'[t].pc = "insert" /\ task'[t].id = m.id
        /\ task'[t].chat = m.chat /\ task'[t].token = m.token
    BY <1>3, <1>4, <2>1, TaskMoves
  <2>3. QED
    BY <1>1, <1>2, <1>3, <1>5, <2>1, <2>2 DEF Gate
<1>6. CASE t \notin Posts /\ m.recorded
  <2>1. task'[t] = [m EXCEPT !.pc = "record"] /\ Others(t)
    BY <1>1, <1>6 DEF Web!TypeOK, Others
  <2>2. /\ task'[t] \in Web!TaskStates /\ task'[t].pc = "record" /\ task'[t].id = m.id
        /\ task'[t].chat = m.chat /\ task'[t].token = m.token
    BY <1>3, <1>4, <2>1, TaskMoves
  <2>3. QED
    BY <1>1, <1>2, <1>3, <1>6, <2>1, <2>2 DEF Gate
<1>7. CASE t \notin Posts /\ ~m.recorded
  <2>1. task'[t] = Web!Rest /\ Others(t)
    BY <1>1, <1>7 DEF Web!TypeOK, Others
  <2>2. QED
    BY <1>1, <1>2, <1>3, <1>7, <2>1 DEF Gate
<1>8. QED
  BY <1>5, <1>6, <1>7

LEMMA DieFacts ==
  ASSUME Web!Die
  PROVE  /\ \A t \in Web!Tasks : task'[t] = Web!Rest
         /\ \A c \in WebChats : lastIds'[c] = Web!Unloaded /\ subs'[c] = {}
         /\ \A q \in Streams : stream'[q] = Web!Closed
         /\ running' = FALSE /\ idLock' = Web!Free /\ messages' = messages
         /\ table' = table /\ stored' = stored
  BY DEF Web!Die, Web!db, Web!history

\* The actions that leave the tasks as they are.
LEMMA TasksStay ==
  ASSUME \/ \E q \in Streams : \/ Web!History(q) \/ Web!Unsubscribe(q)
                               \/ \E c \in WebChats : Web!Subscribe(q, c)
         \/ Web!Tick \/ Web!Boot \/ UNCHANGED webVars
  PROVE  /\ task' = task /\ messages' = messages /\ table' = table /\ stored' = stored
         /\ lastIds' = lastIds /\ idLock' = idLock /\ quota' = quota /\ passed' = passed
         /\ notices' = notices /\ users' = users /\ raced' = raced
  BY DEF Web!History, Web!Unsubscribe, Web!Subscribe, Web!Tick, Web!Boot, webVars, Web!db,
         Web!hub, Web!history

-----------------------------------------------------------------------------
(* What a step does to the tasks *)

\* How many messages have got an id, or lost their way before.
Given == messages - Cardinality(Web!Waiting)

LEMMA WaitingIsFinite ==
  /\ IsFiniteSet(Web!Waiting) /\ Cardinality(Web!Waiting) \in Nat
  /\ Web!Waiting \subseteq Web!Tasks
<1>1. Web!Waiting \in SUBSET Web!Tasks
  BY DEF Web!Waiting
<1>2. IsFiniteSet(Web!Waiting)
  BY <1>1, TasksAreFinite, FS_Subset
<1>3. QED
  BY <1>1, <1>2, FS_CardinalityType

LEMMA FewIds ==
  Web!IdsAreFew <=>
      /\ Given >= 0
      /\ \A c \in WebChats : lastIds[c] <= Given + 1
      /\ \A r \in table : r.id <= Given
      /\ \A t \in Web!Tasks : task[t] # Web!Rest => task[t].id <= Given
  BY SameCardinality DEF Web!IdsAreFew, Given

LEMMA RowsOfTable ==
  ASSUME Web!TypeOK, NEW r \in table
  PROVE  /\ r.chat \in WebChats /\ r.id \in Web!Tokens /\ r.token \in Web!Tokens
         /\ r.out \in BOOLEAN /\ r.id \in 0 .. MaxMessages
  BY TasksAreFinite DEF Web!TypeOK, Web!Row, Web!Tokens

\* A task without an id leaves room for one.
LEMMA IdsFit ==
  ASSUME Web!TypeOK, Web!IdsAreFew, NEW t \in Web!Tasks, task[t].pc \in {"id", "assign"}
  PROVE  /\ Given \in Nat /\ Given + 1 <= messages /\ LastOf(t) \in 0 .. MaxMessages
         /\ LastOf(t) <= Given + 1
<1>1. t \in Web!Waiting /\ task[t] \in Web!TaskStates
  BY TaskFacts DEF Web!Waiting
<1>2. Cardinality(Web!Waiting) # 0
  BY <1>1, WaitingIsFinite, FS_EmptySet
<1>3. messages \in 0 .. MaxMessages
  BY DEF Web!TypeOK
<1>4. Given \in Nat /\ Given + 1 <= messages
  BY <1>2, <1>3, WaitingIsFinite, FewIds, TasksAreFinite DEF Given
<1>5. /\ task[t].id \in 0 .. MaxMessages /\ task[t].id <= Given
      /\ lastIds[task[t].chat] \in 0 .. MaxMessages + 1 /\ lastIds[task[t].chat] <= Given + 1
  BY <1>1, FewIds, TaskFields DEF Web!TypeOK
<1>6. QED
  BY <1>3, <1>4, <1>5, TasksAreFinite DEF LastOf

Moves(t) ==
    /\ task[t] \in Web!TaskStates /\ task'[t] \in Web!TaskStates /\ Others(t)
    /\ task'[t].chat = task[t].chat /\ task'[t].token = task[t].token
    /\ messages' = messages
    /\ \/ task[t].pc = "id" /\ task'[t].pc = "assign"
       \/ task[t].pc \in {"id", "assign"} /\ task'[t].pc = "insert" /\ t \in Posts
       \/ task[t].pc \in {"id", "assign"} /\ task'[t].pc = "record" /\ t \notin Posts
       \/ task[t].pc = "insert" /\ task'[t].pc = "user"
       \/ task[t].pc = "user" /\ task'[t].pc = "upsert"
       \/ task[t].pc = "upsert" /\ task'[t].pc = "submit"

Leaves(t) ==
    \/ \E from \in {"over", "upsert", "submit", "record"} : Ends(t, from)
    \/ t \notin Posts /\ \E from \in {"id", "assign"} : Ends(t, from)

Stay == task' = task /\ messages' = messages

AllEnd == (\A t \in Web!Tasks : task'[t] = Web!Rest) /\ messages' = messages

LEMMA TasksAfter ==
  ASSUME Web!TypeOK, Web!IdsAreFew, Web!Next
  PROVE  Stay \/ AllEnd \/ \E t \in Web!Tasks : Begins(t) \/ Moves(t) \/ Leaves(t)
<1>1. ASSUME NEW t \in Posts, NEW c \in WebChats, Web!Post(t, c) PROVE t \in Web!Tasks /\ Begins(t)
  BY <1>1, PostFacts
<1>2. ASSUME NEW t \in Sends, NEW c \in WebChats, NEW recorded \in BOOLEAN, Web!Send(t, c, recorded)
      PROVE  t \in Web!Tasks /\ Begins(t)
  BY <1>2, SendFacts
<1>3. ASSUME NEW t \in Web!Tasks, Web!Step(t) PROVE Moves(t) \/ Leaves(t)
  <2>1. CASE Web!OverLimit(t)
    BY <2>1, OverLimitFacts DEF Leaves
  <2>2. CASE Web!LoadIds(t)
    BY <2>2, LoadFacts, RowsOfTable DEF Moves
  <2>3. CASE Web!AssignId(t)
    <3>1. task[t].pc \in {"id", "assign"}
      BY <2>3 DEF Web!AssignId, Web!At
    <3>2. LastOf(t) \in 0 .. MaxMessages
      BY <3>1, IdsFit
    <3>3. QED
      BY <2>3, <3>1, <3>2, AssignFacts DEF Moves, Leaves, Ends
  <2>4. CASE Web!InsertMessage(t)
    BY <2>4, InsertFacts DEF Moves, Goes
  <2>5. CASE Web!ReadUser(t)
    BY <2>5, ReadUserFacts DEF Moves, Goes
  <2>6. CASE Web!UpsertUser(t)
    BY <2>6, UpsertFacts DEF Moves, Leaves, Goes
  <2>7. CASE Web!Submit(t)
    BY <2>7, SubmitFacts DEF Leaves
  <2>8. CASE Web!RecordOutbound(t)
    BY <2>8, RecordFacts DEF Leaves
  <2>9. QED
    BY <1>3, <2>1, <2>2, <2>3, <2>4, <2>5, <2>6, <2>7, <2>8 DEF Web!Step
<1>4. CASE Web!Die
  BY <1>4, DieFacts DEF AllEnd
<1>5. CASE \/ \E q \in Streams : \/ Web!History(q) \/ Web!Unsubscribe(q)
                                \/ \E c \in WebChats : Web!Subscribe(q, c)
           \/ Web!Tick \/ Web!Boot
  BY <1>5, TasksStay DEF Stay
<1>6. QED
  BY <1>1, <1>2, <1>3, <1>4, <1>5 DEF Web!Next

\* Posts and sends keep to their own points.
LEMMA KindStep ==
  ASSUME Web!TypeOK, Web!IdsAreFew, Web!TasksKeepKind, Web!Next
  PROVE  Web!TasksKeepKind'
<1>1. CASE Stay
  BY <1>1 DEF Stay, Web!TasksKeepKind
<1>2. CASE AllEnd
  BY <1>2 DEF AllEnd, Web!TasksKeepKind, Web!Rest
<1>3. ASSUME NEW t \in Web!Tasks, Leaves(t) PROVE Web!TasksKeepKind'
  BY <1>3 DEF Leaves, Ends, Others, Web!TasksKeepKind, Web!Rest
<1>4. ASSUME NEW t \in Web!Tasks, Moves(t) PROVE Web!TasksKeepKind'
  BY <1>4 DEF Moves, Others, Web!TasksKeepKind
<1>5. ASSUME NEW t \in Web!Tasks, Begins(t) PROVE Web!TasksKeepKind'
  BY <1>5 DEF Begins, Others, Web!TasksKeepKind
<1>6. QED
  BY <1>1, <1>2, <1>3, <1>4, <1>5, TasksAfter

\* The row a task writes, sent by the bot or not.
RowOf(t, out) ==
    [chat |-> task[t].chat, id |-> task[t].id, token |-> task[t].token, out |-> out]

\* Rows are stored from tasks: which step stores which row.
Stores(t) ==
    /\ task[t] \in Web!TaskStates /\ Others(t) /\ messages' = messages /\ stream' = stream
    /\ stored' = stored \cup {task[t].token}
    /\ \/ /\ task[t].pc = "insert" /\ table' = table \cup {RowOf(t, FALSE)}
          /\ task'[t] \in Web!TaskStates /\ task'[t].pc = "user"
          /\ task'[t].token = task[t].token
       \/ /\ task[t].pc = "record" /\ table' = table \cup {RowOf(t, TRUE)}
          /\ task'[t] = Web!Rest

LEMMA RowsAdded ==
  ASSUME NEW t, Stores(t), NEW r \in table'
  PROVE  \/ r \in table
         \/ /\ r.chat = task[t].chat /\ r.id = task[t].id /\ r.token = task[t].token
            /\ task[t].pc = "insert" /\ r.out = FALSE
         \/ /\ r.chat = task[t].chat /\ r.id = task[t].id /\ r.token = task[t].token
            /\ task[t].pc = "record" /\ r.out = TRUE
  BY DEF Stores, RowOf

\* No row has the id of a message on its way, so nothing is replaced.
LEMMA NothingReplaced ==
  ASSUME Web!TypeOK, Web!IdsAreBelow, NEW t \in Web!Tasks, NEW out \in BOOLEAN,
         task[t].pc \in {"insert", "record"}, StoresRow(t, out)
  PROVE  table' = table \cup {RowOf(t, out)} /\ stored' = stored \cup {task[t].token}
<1>1. \A r \in table : r.chat # task[t].chat \/ r.id # task[t].id
  BY DEF Web!IdsAreBelow, Web!Inserting
<1>2. QED
  BY <1>1 DEF StoresRow, RowOf

LEMMA TableAfter ==
  ASSUME Web!TypeOK, Web!IdsAreBelow, Web!Next
  PROVE  (table' = table /\ stored' = stored) \/ \E t \in Web!Tasks : Stores(t)
<1>1. ASSUME NEW t \in Web!Tasks, Web!InsertMessage(t) PROVE Stores(t)
  <2>1. Goes(t, "insert", "user") /\ StoresRow(t, FALSE)
    BY <1>1, InsertFacts
  <2>2. table' = table \cup {RowOf(t, FALSE)} /\ stored' = stored \cup {task[t].token}
    BY <2>1, NothingReplaced DEF Goes
  <2>3. task[t].pc = "insert" /\ stream' = stream
    BY <1>1, <2>1 DEF Goes, Web!InsertMessage
  <2>4. QED
    BY <2>1, <2>2, <2>3 DEF Stores, Goes
<1>2. ASSUME NEW t \in Web!Tasks, Web!RecordOutbound(t) PROVE Stores(t)
  <2>1. Ends(t, "record") /\ StoresRow(t, TRUE)
    BY <1>2, RecordFacts
  <2>2. table' = table \cup {RowOf(t, TRUE)} /\ stored' = stored \cup {task[t].token}
    BY <2>1, NothingReplaced DEF Ends
  <2>3. task[t].pc = "record" /\ stream' = stream
    BY <1>2, <2>1 DEF Ends, Web!RecordOutbound
  <2>4. QED
    BY <2>1, <2>2, <2>3 DEF Stores, Ends
<1>3. ASSUME NEW t, \/ Web!OverLimit(t) \/ Web!LoadIds(t) \/ Web!AssignId(t) \/ Web!ReadUser(t)
                    \/ Web!UpsertUser(t) \/ Web!Submit(t)
      PROVE  table' = table /\ stored' = stored
  BY <1>3 DEF Web!OverLimit, Web!LoadIds, Web!AssignId, Web!ReadUser, Web!UpsertUser, Web!Submit,
              Web!db, Web!history
<1>4. ASSUME NEW t, NEW c, NEW recorded, Web!Post(t, c) \/ Web!Send(t, c, recorded)
      PROVE  table' = table /\ stored' = stored
  BY <1>4 DEF Web!Post, Web!Send, Web!db, Web!history
<1>5. QED
  BY <1>1, <1>2, <1>3, <1>4, DieFacts, TasksStay DEF Web!Next, Web!Step

\* Tokens are new when they are given, and go into the table once.
LEMMA TokensStep ==
  ASSUME Web!TypeOK, Web!IdsAreFew, Web!IdsAreBelow, Web!TokensApart, Web!Next
  PROVE  Web!TokensApart'
<1> DEFINE Known(tk, n) == \A t \in Web!Tasks : tk[t] # Web!Rest => tk[t].token <= n
           Apart(tk) == \A s, t \in Web!Tasks :
                            s # t /\ tk[s] # Web!Rest /\ tk[t] # Web!Rest => tk[s].token # tk[t].token
<1>1. Known(task', messages') /\ Apart(task')
  <2>0. /\ messages \in Nat /\ Known(task, messages) /\ Apart(task)
        /\ \A t \in Web!Tasks : task[t] # Web!Rest => task[t].token \in Nat
    BY TasksAreFinite, TaskFacts, TaskFields DEF Web!TokensApart, Web!TypeOK, Web!Tokens
  <2>1. CASE Stay
    BY <2>0, <2>1 DEF Stay
  <2>2. CASE AllEnd
    BY <2>2 DEF AllEnd
  <2>3. ASSUME NEW t \in Web!Tasks, Leaves(t) PROVE Known(task', messages') /\ Apart(task')
    BY <2>0, <2>3 DEF Leaves, Ends, Others
  <2>4. ASSUME NEW t \in Web!Tasks, Moves(t) PROVE Known(task', messages') /\ Apart(task')
    BY <2>0, <2>4, TaskFields DEF Moves, Others
  <2>5. ASSUME NEW t \in Web!Tasks, Begins(t) PROVE Known(task', messages') /\ Apart(task')
    BY <2>0, <2>5 DEF Begins, Others
  <2>6. QED
    BY <2>1, <2>2, <2>3, <2>4, <2>5, TasksAfter
<1>2. messages \in Nat /\ messages' \in Nat /\ messages <= messages'
  <2>1. messages \in Nat
    BY TasksAreFinite DEF Web!TypeOK
  <2>2. messages' = messages \/ messages' = messages + 1
    BY TasksAfter DEF Stay, AllEnd, Begins, Moves, Leaves, Ends
  <2>3. QED
    BY <2>1, <2>2
<1>3. \A r \in table' : r.token <= messages'
  <2>1. \A r \in table : r.token <= messages'
    <3>1. ASSUME NEW r \in table PROVE r.token <= messages'
      BY <1>2, RowsOfTable, TasksAreFinite DEF Web!TokensApart, Web!Tokens
    <3>2. QED
      BY <3>1
  <2>2. ASSUME NEW t \in Web!Tasks, Stores(t) PROVE \A r \in table' : r.token <= messages'
    <3>1. task[t].token <= messages'
      BY <2>2, TaskFacts DEF Stores, Web!TokensApart
    <3>2. QED
      BY <2>1, <2>2, <3>1, RowsAdded
  <2>3. QED
    BY <2>1, <2>2, TableAfter
<1>4. \A t \in (Web!Waiting \cup Web!Inserting)' :
          \/ t \in Web!Waiting \cup Web!Inserting /\ task'[t].token = task[t].token
          \/ task'[t].token = messages + 1
  <2>1. CASE Stay
    BY <2>1 DEF Stay, Web!Waiting, Web!Inserting
  <2>2. CASE AllEnd
    BY <2>2 DEF AllEnd, Web!Waiting, Web!Inserting, Web!Rest
  <2>3. ASSUME NEW u \in Web!Tasks, Leaves(u) PROVE <1>4!:
    BY <2>3 DEF Leaves, Ends, Others, Web!Waiting, Web!Inserting, Web!Rest
  <2>4. ASSUME NEW u \in Web!Tasks, Moves(u) PROVE <1>4!:
    BY <2>4 DEF Moves, Others, Web!Waiting, Web!Inserting
  <2>5. ASSUME NEW u \in Web!Tasks, Begins(u) PROVE <1>4!:
    BY <2>5 DEF Begins, Others, Web!Waiting, Web!Inserting
  <2>6. QED
    BY <2>1, <2>2, <2>3, <2>4, <2>5, TasksAfter
<1>5. \A t \in (Web!Waiting \cup Web!Inserting)', r \in table' : task'[t].token # r.token
  <2>0. /\ \A r \in table : r.token # messages + 1
        /\ \A t \in Web!Waiting \cup Web!Inserting, r \in table : task[t].token # r.token
    BY <1>2, RowsOfTable DEF Web!TokensApart, Web!Tokens
  <2>1. CASE table' = table
    BY <2>0, <2>1, <1>4
  <2>2. ASSUME NEW u \in Web!Tasks, Stores(u) PROVE <1>5!:
    <3>1. ASSUME NEW t \in (Web!Waiting \cup Web!Inserting)', NEW r \in table'
          PROVE  task'[t].token # r.token
      <4>1. t \in Web!Tasks /\ t # u /\ task'[t] = task[t] /\ t \in Web!Waiting \cup Web!Inserting
        <5>1. t \in Web!Tasks /\ task'[t].pc \in {"over", "id", "assign", "insert", "record"}
          BY DEF Web!Waiting, Web!Inserting
        <5>2. t # u
          <6>1. task'[u].pc = "user" \/ task'[u].pc = "rest"
            BY <2>2 DEF Stores, RowOf, Web!Rest
          <6>2. QED
            BY <5>1, <6>1
        <5>3. task'[t] = task[t]
          BY <2>2, <5>1, <5>2 DEF Stores, Others
        <5>4. QED
          BY <5>1, <5>2, <5>3 DEF Web!Waiting, Web!Inserting
      <4>2. task[t] # Web!Rest /\ task[u] # Web!Rest
        BY <4>1, <2>2, TaskFields DEF Stores, Web!Waiting, Web!Inserting, Web!Rest
      <4>3. task[t].token # task[u].token
        BY <4>1, <4>2 DEF Web!TokensApart
      <4>4. r \in table \/ r.token = task[u].token
        BY <2>2, RowsAdded
      <4>5. QED
        BY <2>0, <4>1, <4>3, <4>4
    <3>2. QED
      BY <3>1
  <2>3. QED
    BY <2>1, <2>2, TableAfter
<1>6. QED
  BY <1>1, <1>3, <1>5 DEF Web!TokensApart

-----------------------------------------------------------------------------
(* Ids *)

LEMMA WaitingCounts ==
  ASSUME NEW t
  PROVE  /\ t \in Web!Waiting => Cardinality(Web!Waiting \ {t}) = Cardinality(Web!Waiting) - 1
         /\ t \notin Web!Waiting => Cardinality(Web!Waiting \ {t}) = Cardinality(Web!Waiting)
         /\ t \notin Web!Waiting => Cardinality(Web!Waiting \cup {t}) = Cardinality(Web!Waiting) + 1
  BY WaitingIsFinite, FS_AddElement, FS_RemoveElement

\* The number of messages that have got their id never falls, and grows with every id.
LEMMA GivenAfter ==
  ASSUME Web!TypeOK, Web!IdsAreFew, Web!Next
  PROVE  /\ Given \in Nat /\ Given' \in Nat /\ Given <= Given' /\ Given' <= messages'
         /\ messages' \in 0 .. MaxMessages
         /\ \A t \in Web!Tasks : Web!AssignId(t) => Given' = Given + 1
<1>1. messages \in 0 .. MaxMessages /\ Given \in Int /\ Given >= 0 /\ Given \in Nat
  BY WaitingIsFinite, FewIds, TasksAreFinite DEF Web!TypeOK, Given
<1> DEFINE Goal == Given' \in Nat /\ Given <= Given' /\ Given' <= messages'
                   /\ messages' \in 0 .. MaxMessages
<1>2. ASSUME Stay PROVE Goal
  <2>1. Web!Waiting' = Web!Waiting /\ messages' = messages
    BY <1>2 DEF Stay, Web!Waiting
  <2> DEFINE N == Cardinality(Web!Waiting)
  <2>2. N' = N
    BY <2>1
  <2>3. N \in Nat /\ messages \in Nat /\ Given = messages - N /\ Given' = messages' - N'
    BY <1>1, WaitingIsFinite, TasksAreFinite DEF Given
  <2> HIDE DEF N
  <2>4. QED
    BY <1>1, <2>1, <2>2, <2>3, TasksAreFinite
<1>3. ASSUME AllEnd PROVE Goal
  <2>1. Web!Waiting' = {} /\ messages' = messages
    BY <1>3 DEF AllEnd, Web!Waiting, Web!Rest
  <2> DEFINE N == Cardinality(Web!Waiting)
  <2>2. N' = 0
    BY <2>1, FS_EmptySet
  <2>3. N \in Nat /\ messages \in Nat /\ Given = messages - N /\ Given' = messages' - N'
    BY <1>1, WaitingIsFinite, TasksAreFinite DEF Given
  <2> HIDE DEF N
  <2>4. QED
    BY <1>1, <2>1, <2>2, <2>3, TasksAreFinite
<1>4. ASSUME NEW t \in Web!Tasks, Leaves(t) PROVE Goal
  <2>1. Web!Waiting' = Web!Waiting \ {t} /\ messages' = messages
    BY <1>4 DEF Leaves, Ends, Others, Web!Waiting, Web!Rest
  <2> DEFINE N == Cardinality(Web!Waiting)
  <2>6. N' = N \/ (t \in Web!Waiting /\ N' = N - 1)
    BY <2>1, WaitingCounts
  <2>7. N \in Nat /\ messages \in Nat /\ Given = messages - N /\ Given' = messages' - N'
    BY <1>1, WaitingIsFinite, TasksAreFinite DEF Given
  <2> HIDE DEF N
  <2>2. Given' = Given \/ (t \in Web!Waiting /\ Given' = Given + 1)
    BY <2>1, <2>6, <2>7
  <2>3. t \in Web!Waiting => Given + 1 <= messages
    BY <1>1, WaitingIsFinite, FS_EmptySet, TasksAreFinite DEF Given
  <2>4. Given <= messages
    BY <1>1, WaitingIsFinite, TasksAreFinite DEF Given
  <2>5. QED
    BY <1>1, <2>1, <2>2, <2>3, <2>4, TasksAreFinite
<1>5. ASSUME NEW t \in Web!Tasks, Moves(t) PROVE Goal
  <2>1. messages' = messages /\ (Web!Waiting' = Web!Waiting \/ Web!Waiting' = Web!Waiting \ {t})
    BY <1>5 DEF Moves, Others, Web!Waiting
  <2> DEFINE N == Cardinality(Web!Waiting)
  <2>6. N' = N \/ (t \in Web!Waiting /\ N' = N - 1)
    BY <2>1, WaitingCounts
  <2>7. N \in Nat /\ messages \in Nat /\ Given = messages - N /\ Given' = messages' - N'
    BY <1>1, WaitingIsFinite, TasksAreFinite DEF Given
  <2> HIDE DEF N
  <2>2. Given' = Given \/ (t \in Web!Waiting /\ Given' = Given + 1)
    BY <2>1, <2>6, <2>7
  <2>3. t \in Web!Waiting => Given + 1 <= messages
    BY <1>1, WaitingIsFinite, FS_EmptySet, TasksAreFinite DEF Given
  <2>4. Given <= messages
    BY <1>1, WaitingIsFinite, TasksAreFinite DEF Given
  <2>5. QED
    BY <1>1, <2>1, <2>2, <2>3, <2>4, TasksAreFinite
<1>6. ASSUME NEW t \in Web!Tasks, Begins(t) PROVE Goal
  <2>1. Web!Waiting' = Web!Waiting \cup {t} /\ t \notin Web!Waiting
    BY <1>6 DEF Begins, Others, Web!Waiting, Web!Rest
  <2>2. messages' = messages + 1 /\ messages < MaxMessages
    BY <1>6 DEF Begins
  <2>3. Given' = Given
    BY <1>1, <2>1, <2>2, WaitingCounts, WaitingIsFinite, TasksAreFinite DEF Given
  <2>4. QED
    BY <1>1, <2>2, <2>3, WaitingIsFinite, TasksAreFinite DEF Given
<1>7. Goal
  BY <1>2, <1>3, <1>4, <1>5, <1>6, TasksAfter
<1>8. ASSUME NEW t \in Web!Tasks, Web!AssignId(t) PROVE Given' = Given + 1
  <2>1. task[t].pc \in {"id", "assign"}
    BY <1>8 DEF Web!AssignId, Web!At
  <2>2. LastOf(t) \in 0 .. MaxMessages
    BY <2>1, IdsFit
  <2>3. /\ Others(t) /\ messages' = messages
        /\ task'[t] = Web!Rest \/ task'[t].pc \in {"insert", "record"}
    BY <1>8, <2>2, AssignFacts
  <2>4. Web!Waiting' = Web!Waiting \ {t} /\ t \in Web!Waiting
    BY <2>1, <2>3 DEF Others, Web!Waiting, Web!Rest
  <2>5. QED
    BY <1>1, <2>3, <2>4, WaitingCounts, WaitingIsFinite, TasksAreFinite DEF Given
<1>9. QED
  BY <1>1, <1>7, <1>8

\* What an id can be afterwards, and who keeps the counter of a chat.
LEMMA LastIdsAfter ==
  ASSUME Web!TypeOK, Web!IdsAreFew, Web!Next
  PROVE  \/ lastIds' = lastIds
         \/ Web!Die
         \/ \E t \in Web!Tasks : /\ Web!AssignId(t)
                                 /\ lastIds' = [lastIds EXCEPT ![task[t].chat] = LastOf(t) + 1]
<1>1. ASSUME NEW t \in Web!Tasks, Web!AssignId(t)
      PROVE  lastIds' = [lastIds EXCEPT ![task[t].chat] = LastOf(t) + 1]
  BY <1>1 DEF Web!AssignId, Web!At, LastOf, Web!Advanced
<1>2. ASSUME NEW t, \/ Web!OverLimit(t) \/ Web!LoadIds(t) \/ Web!InsertMessage(t)
                    \/ Web!ReadUser(t) \/ Web!UpsertUser(t) \/ Web!Submit(t)
                    \/ Web!RecordOutbound(t)
      PROVE  lastIds' = lastIds
  BY <1>2 DEF Web!OverLimit, Web!LoadIds, Web!InsertMessage, Web!ReadUser, Web!UpsertUser,
              Web!Submit, Web!RecordOutbound, Web!hub
<1>3. ASSUME NEW t, NEW c, NEW recorded, Web!Post(t, c) \/ Web!Send(t, c, recorded)
      PROVE  lastIds' = lastIds
  BY <1>3 DEF Web!Post, Web!Send, Web!hub
<1>4. QED
  BY <1>1, <1>2, <1>3, TasksStay DEF Web!Next, Web!Step

\* Where the id of a task comes from.
IdAfter(s) ==
    \/ task[s] # Web!Rest /\ task'[s] = task[s]
    \/ /\ task[s] # Web!Rest /\ task'[s].pc \in {"user", "upsert", "submit"}
       /\ task'[s].id = task[s].id /\ task'[s].chat = task[s].chat
    \/ task'[s].id = 0 /\ task'[s].pc \in {"over", "id"}
    \/ /\ Web!LoadIds(s) /\ task[s] # Web!Rest /\ task'[s].pc = "assign"
       /\ task'[s].id = Web!MaxStored(task[s].chat) /\ task'[s].chat = task[s].chat
       /\ task[s].pc = "id"
    \/ /\ Web!AssignId(s) /\ task[s] # Web!Rest /\ task'[s].pc \in {"insert", "record"}
       /\ task'[s].id = LastOf(s) /\ task'[s].chat = task[s].chat
       /\ task[s].pc \in {"id", "assign"}

LEMMA IdsAfter ==
  ASSUME Web!TypeOK, Web!IdsAreFew, Web!Next, NEW s \in Web!Tasks, task'[s] # Web!Rest
  PROVE  IdAfter(s)
<1>0. ASSUME NEW t \in Web!Tasks, Others(t), t # s PROVE IdAfter(s)
  BY <1>0 DEF Others, IdAfter
<1>1. ASSUME NEW t \in Posts, NEW c \in WebChats, Web!Post(t, c) PROVE IdAfter(s)
  BY <1>0, <1>1, PostFacts DEF Begins, IdAfter
<1>2. ASSUME NEW t \in Sends, NEW c \in WebChats, NEW recorded \in BOOLEAN, Web!Send(t, c, recorded)
      PROVE  IdAfter(s)
  BY <1>0, <1>2, SendFacts DEF Begins, IdAfter
<1>3. ASSUME NEW t \in Web!Tasks, Web!OverLimit(t) \/ Web!Submit(t) \/ Web!RecordOutbound(t)
      PROVE  IdAfter(s)
  BY <1>0, <1>3, OverLimitFacts, SubmitFacts, RecordFacts DEF Ends
<1>4. ASSUME NEW t \in Web!Tasks, Web!InsertMessage(t) \/ Web!ReadUser(t) \/ Web!UpsertUser(t)
      PROVE  IdAfter(s)
  <2>1. \/ Ends(t, "upsert")
        \/ Goes(t, "insert", "user") \/ Goes(t, "user", "upsert") \/ Goes(t, "upsert", "submit")
    BY <1>4, InsertFacts, ReadUserFacts, UpsertFacts
  <2>2. QED
    BY <1>0, <2>1, TaskFields DEF Goes, Ends, IdAfter
<1>5. ASSUME NEW t \in Web!Tasks, Web!LoadIds(t) PROVE IdAfter(s)
  BY <1>0, <1>5, LoadFacts, RowsOfTable, TaskFields DEF IdAfter
<1>6. ASSUME NEW t \in Web!Tasks, Web!AssignId(t) PROVE IdAfter(s)
  <2>1. task[t].pc \in {"id", "assign"}
    BY <1>6 DEF Web!AssignId, Web!At
  <2>2. LastOf(t) \in 0 .. MaxMessages
    BY <2>1, IdsFit
  <2>3. QED
    BY <1>0, <1>6, <2>1, <2>2, AssignFacts, TaskFields DEF IdAfter
<1>7. ASSUME task' = task PROVE IdAfter(s)
  BY <1>7 DEF IdAfter
<1>8. ASSUME Web!Die PROVE IdAfter(s)
  BY <1>8, DieFacts
<1>9. QED
  BY <1>1, <1>2, <1>3, <1>4, <1>5, <1>6, <1>7, <1>8, TasksStay DEF Web!Next, Web!Step

\* No more ids than messages that got one.
LEMMA FewStep ==
  ASSUME Web!TypeOK, Web!IdsAreFew, Web!IdsAreBelow, Web!Next
  PROVE  Web!IdsAreFew'
<1>1. /\ Given \in Nat /\ Given' \in Nat /\ Given <= Given'
      /\ \A t \in Web!Tasks : Web!AssignId(t) => Given' = Given + 1
  BY GivenAfter
<1>2. ASSUME NEW t \in Web!Tasks, Web!AssignId(t)
      PROVE  /\ LastOf(t) <= Given' /\ LastOf(t) \in Nat /\ task[t].chat \in WebChats
  <2>1. task[t].pc \in {"id", "assign"}
    BY <1>2 DEF Web!AssignId, Web!At
  <2>2. QED
    BY <1>1, <1>2, <2>1, IdsFit, TaskFacts, TaskFields
<1>3. ASSUME NEW c \in WebChats PROVE lastIds'[c] <= Given' + 1
  <2>1. lastIds[c] \in Nat /\ lastIds[c] <= Given + 1
    BY FewIds, TasksAreFinite DEF Web!TypeOK
  <2>2. CASE lastIds' = lastIds
    BY <1>1, <2>1, <2>2
  <2>3. CASE Web!Die
    BY <1>1, <2>3, DieFacts DEF Web!Unloaded
  <2>4. ASSUME NEW t \in Web!Tasks, Web!AssignId(t),
               lastIds' = [lastIds EXCEPT ![task[t].chat] = LastOf(t) + 1]
        PROVE  lastIds'[c] <= Given' + 1
    <3>1. lastIds'[c] = lastIds[c] \/ lastIds'[c] = LastOf(t) + 1
      BY <2>4 DEF Web!TypeOK
    <3>2. QED
      BY <1>1, <1>2, <2>1, <2>4, <3>1
  <2>5. QED
    BY <2>2, <2>3, <2>4, LastIdsAfter
<1>4. ASSUME NEW r \in table' PROVE r.id <= Given'
  <2>1. CASE r \in table
    <3>1. r.id \in Nat /\ r.id <= Given
      BY <2>1, FewIds, RowsOfTable, TasksAreFinite DEF Web!Tokens
    <3>2. QED
      BY <1>1, <3>1
  <2>2. ASSUME NEW t \in Web!Tasks, Stores(t), r \notin table PROVE r.id <= Given'
    <3>1. r.id = task[t].id /\ task[t] \in Web!TaskStates
      BY <2>2, RowsAdded DEF Stores
    <3>2. task[t].id \in Nat /\ task[t].id <= Given
      BY <3>1, FewIds, TaskFields, TasksAreFinite
    <3>3. QED
      BY <1>1, <3>1, <3>2
  <2>3. QED
    BY <2>1, <2>2, TableAfter
<1>5. ASSUME NEW s \in Web!Tasks, task'[s] # Web!Rest PROVE task'[s].id <= Given'
  <2>1. IdAfter(s)
    BY <1>5, IdsAfter
  <2>2. task[s] # Web!Rest => task[s].id \in Nat /\ task[s].id <= Given
    BY FewIds, TaskFacts, TaskFields, TasksAreFinite
  <2>3. Web!MaxStored(task[s].chat) \in 0 .. Given
    <3>1. \A r \in table : r.id \in 0 .. Given
      BY <1>1, FewIds, RowsOfTable, TasksAreFinite DEF Web!Tokens
    <3>2. QED
      BY <1>1, <3>1, MaxStoredFacts
  <2>4. QED
    BY <1>1, <1>2, <2>1, <2>2, <2>3 DEF IdAfter
<1>6. QED
  BY <1>1, <1>3, <1>4, <1>5, SameCardinality DEF Web!IdsAreFew, Given

\* The id that is given is above every id of the chat.
LEMMA IdIsNew ==
  ASSUME Web!TypeOK, Web!IdsAreFew, Web!IdsAreBelow, Web!LoadsAreLocked, Web!Next,
         NEW t \in Web!Tasks, Web!AssignId(t)
  PROVE  /\ LastOf(t) \in Nat /\ LastOf(t) > 0 /\ task[t].chat \in WebChats
         /\ \A r \in table : r.chat = task[t].chat => r.id < LastOf(t)
         /\ \A s \in Web!Inserting : task[s].chat = task[t].chat => task[s].id < LastOf(t)
         /\ lastIds' = [lastIds EXCEPT ![task[t].chat] = LastOf(t) + 1]
         /\ Others(t) /\ table' = table
         /\ task'[t] = Web!Rest \/ task'[t].pc \in {"insert", "record"}
<1>1. task[t].pc \in {"id", "assign"}
  BY DEF Web!AssignId, Web!At
<1>2. LastOf(t) \in 0 .. MaxMessages /\ LastOf(t) \in Nat
  BY <1>1, IdsFit, TasksAreFinite
<1>3. /\ task[t] \in Web!TaskStates /\ task[t].chat \in WebChats /\ task[t].id \in Nat
      /\ Others(t)
      /\ \/ task[t].pc = "assign"
         \/ task[t].pc = "id" /\ lastIds[task[t].chat] # Web!Unloaded
      /\ lastIds' = [lastIds EXCEPT ![task[t].chat] = LastOf(t) + 1]
      /\ task'[t] = Web!Rest \/ task'[t].pc \in {"insert", "record"}
  BY <1>2, AssignFacts, TaskFields, TasksAreFinite
<1>4. table' = table
  BY DEF Web!AssignId, Web!db
<1>5. \A r \in table : r.id \in Nat
  BY RowsOfTable, TasksAreFinite
<1>6. CASE task[t].pc = "assign"
  <2>1. LastOf(t) = task[t].id + 1 /\ lastIds[task[t].chat] = 0
    BY <1>6 DEF LastOf, Web!At, Web!LoadsAreLocked, Web!Unloaded
  <2>2. \A r \in table : r.chat = task[t].chat => r.id < LastOf(t)
    BY <1>3, <1>5, <1>6, <2>1 DEF Web!LoadsAreLocked, Web!At
  <2>3. ASSUME NEW s \in Web!Inserting, task[s].chat = task[t].chat PROVE FALSE
    <3>1. 0 < task[s].id /\ task[s].id < 0 /\ task[s].id \in Nat
      BY <2>1, <2>3, TaskFacts, TaskFields, TasksAreFinite DEF Web!IdsAreBelow, Web!Inserting
    <3>2. QED
      BY <3>1
  <2>4. QED
    BY <1>2, <1>3, <1>4, <2>1, <2>2, <2>3
<1>7. CASE task[t].pc = "id" /\ lastIds[task[t].chat] # Web!Unloaded
  <2>1. LastOf(t) = lastIds[task[t].chat] /\ LastOf(t) # 0
    BY <1>7 DEF LastOf, Web!At, Web!Unloaded
  <2>2. QED
    BY <1>2, <1>3, <1>4, <1>7, <2>1 DEF Web!IdsAreBelow
<1>8. QED
  BY <1>3, <1>6, <1>7

\* Two messages on their way to the table never have the same id, and none the id of a row.
LEMMA BelowStep ==
  ASSUME Web!TypeOK, Web!IdsAreFew, Web!IdsAreBelow, Web!LoadsAreLocked, Web!IdsIdentify,
         Web!Next
  PROVE  Web!IdsAreBelow' /\ Web!IdsIdentify'
<1>1. ASSUME NEW c \in WebChats
      PROVE  lastIds[c] \in Nat
  BY TasksAreFinite DEF Web!TypeOK
<1>2. ASSUME NEW s \in Web!Inserting
      PROVE  /\ s \in Web!Tasks /\ task[s] \in Web!TaskStates /\ task[s].chat \in WebChats
             /\ task[s].id \in Nat
  BY TaskFacts, TaskFields, TasksAreFinite DEF Web!Inserting
<1>3. ASSUME NEW s \in Web!Inserting'
      PROVE  /\ s \in Web!Tasks
             /\ (s \in Web!Inserting /\ task'[s] = task[s])
                \/ (Web!AssignId(s) /\ task'[s].id = LastOf(s) /\ task'[s].chat = task[s].chat)
  <2>1. s \in Web!Tasks /\ task'[s].pc \in {"insert", "record"} /\ task'[s] # Web!Rest
    BY DEF Web!Inserting, Web!Rest
  <2>2. IdAfter(s)
    BY <2>1, IdsAfter
  <2>3. QED
    BY <2>1, <2>2 DEF IdAfter, Web!Inserting
<1>4. ASSUME NEW c \in WebChats, NEW r \in table', lastIds'[c] # Web!Unloaded, r.chat = c
      PROVE  r.id < lastIds'[c]
  <2>1. CASE lastIds' = lastIds
    <3>1. CASE r \in table
      BY <1>4, <2>1, <3>1 DEF Web!IdsAreBelow
    <3>2. ASSUME NEW u \in Web!Tasks, Stores(u), r \notin table PROVE r.id < lastIds[c]
      <4>1. u \in Web!Inserting /\ r.chat = task[u].chat /\ r.id = task[u].id
        BY <3>2, RowsAdded DEF Web!Inserting
      <4>2. QED
        BY <1>4, <4>1 DEF Web!IdsAreBelow
    <3>3. QED
      BY <2>1, <3>1, <3>2, TableAfter
  <2>2. CASE Web!Die
    BY <1>4, <2>2, DieFacts
  <2>3. ASSUME NEW t \in Web!Tasks, Web!AssignId(t) PROVE r.id < lastIds'[c]
    <3>1. r \in table /\ r.id \in Nat
      BY <2>3, IdIsNew, RowsOfTable, TasksAreFinite
    <3>2. CASE c = task[t].chat
      <4>1. r.id < LastOf(t) /\ LastOf(t) \in Nat /\ lastIds'[c] = LastOf(t) + 1
        BY <1>4, <2>3, <3>1, <3>2, IdIsNew DEF Web!TypeOK
      <4>2. QED
        BY <3>1, <4>1
    <3>3. CASE c # task[t].chat
      <4>1. lastIds'[c] = lastIds[c]
        BY <2>3, <3>3, IdIsNew DEF Web!TypeOK
      <4>2. QED
        BY <1>4, <3>1, <4>1 DEF Web!IdsAreBelow
    <3>4. QED
      BY <3>2, <3>3
  <2>4. QED
    BY <2>1, <2>2, <2>3, LastIdsAfter
<1>5. ASSUME NEW s \in Web!Inserting'
      PROVE  0 < task'[s].id /\ task'[s].id < lastIds'[task'[s].chat]
  <2>1. CASE Web!AssignId(s) /\ task'[s].id = LastOf(s) /\ task'[s].chat = task[s].chat
    <3>1. LastOf(s) \in Nat /\ LastOf(s) > 0 /\ lastIds'[task[s].chat] = LastOf(s) + 1
      BY <1>3, <2>1, IdIsNew DEF Web!TypeOK
    <3>2. QED
      BY <2>1, <3>1
  <2>2. CASE s \in Web!Inserting /\ task'[s] = task[s]
    <3> DEFINE c == task[s].chat
    <3>0. c \in WebChats /\ 0 < task[s].id /\ task[s].id < lastIds[c] /\ task[s].id \in Nat
      BY <1>2, <2>2 DEF Web!IdsAreBelow
    <3>1. CASE lastIds' = lastIds
      BY <2>2, <3>0, <3>1
    <3>2. CASE Web!Die
      BY <1>3, <2>2, <3>2, DieFacts DEF Web!Inserting, Web!Rest
    <3>3. ASSUME NEW t \in Web!Tasks, Web!AssignId(t) PROVE task[s].id < lastIds'[c]
      <4>1. CASE c = task[t].chat
        <5>1. task[s].id < LastOf(t) /\ LastOf(t) \in Nat /\ lastIds'[c] = LastOf(t) + 1
          BY <2>2, <3>0, <3>3, <4>1, IdIsNew DEF Web!TypeOK
        <5>2. QED
          BY <3>0, <5>1
      <4>2. CASE c # task[t].chat
        <5>1. lastIds'[c] = lastIds[c]
          BY <3>0, <3>3, <4>2, IdIsNew DEF Web!TypeOK
        <5>2. QED
          BY <3>0, <5>1
      <4>3. QED
        BY <4>1, <4>2
    <3>4. QED
      BY <2>2, <3>0, <3>1, <3>2, <3>3, LastIdsAfter
  <2>3. QED
    BY <1>3, <2>1, <2>2
<1>6. ASSUME NEW s \in Web!Inserting', NEW r \in table', r.chat = task'[s].chat
      PROVE  r.id # task'[s].id
  <2>1. CASE Web!AssignId(s) /\ task'[s].id = LastOf(s) /\ task'[s].chat = task[s].chat
    <3>1. r \in table /\ r.id < LastOf(s) /\ LastOf(s) \in Nat /\ r.id \in Nat
      BY <1>3, <1>6, <2>1, IdIsNew, RowsOfTable, TasksAreFinite
    <3>2. QED
      BY <2>1, <3>1
  <2>2. CASE s \in Web!Inserting /\ task'[s] = task[s]
    <3>1. CASE r \in table
      BY <1>6, <2>2, <3>1 DEF Web!IdsAreBelow
    <3>2. ASSUME NEW u \in Web!Tasks, Stores(u), r \notin table PROVE r.id # task[s].id
      <4>1. u \in Web!Inserting /\ r.chat = task[u].chat /\ r.id = task[u].id
        BY <3>2, RowsAdded DEF Web!Inserting
      <4>2. u # s
        <5>1. task'[u].pc = "user" \/ task'[u].pc = "rest"
          BY <3>2 DEF Stores, RowOf, Web!Rest
        <5>2. QED
          BY <5>1, <1>6 DEF Web!Inserting
      <4>3. QED
        BY <1>6, <2>2, <4>1, <4>2 DEF Web!IdsIdentify
    <3>3. QED
      BY <2>2, <3>1, <3>2, TableAfter
  <2>3. QED
    BY <1>3, <2>1, <2>2
<1>7. ASSUME NEW x \in Web!Inserting', NEW y \in Web!Inserting', x # y
      PROVE  <<task'[x].chat, task'[x].id>> # <<task'[y].chat, task'[y].id>>
  <2>1. ASSUME NEW s \in Web!Tasks, NEW u \in Web!Tasks, s # u, u \in Web!Inserting',
               Web!AssignId(s), task'[s].id = LastOf(s), task'[s].chat = task[s].chat
        PROVE  <<task'[s].chat, task'[s].id>> # <<task'[u].chat, task'[u].id>>
    <3>1. task'[u] = task[u]
      BY <2>1, IdIsNew DEF Others
    <3>2. u \in Web!Inserting
      BY <2>1, <3>1 DEF Web!Inserting
    <3>3. task[u].chat = task[s].chat => task[u].id < LastOf(s)
      BY <2>1, <3>2, IdIsNew
    <3>4. LastOf(s) \in Nat /\ task[u].id \in Nat
      BY <1>2, <2>1, <3>2, IdIsNew
    <3>5. QED
      BY <2>1, <3>1, <3>3, <3>4
  <2>2. CASE x \in Web!Inserting /\ task'[x] = task[x] /\ y \in Web!Inserting /\ task'[y] = task[y]
    BY <1>7, <2>2 DEF Web!IdsIdentify
  <2>3. QED
    BY <1>3, <1>7, <2>1, <2>2
<1>8. ASSUME NEW n \in stored' PROVE \E r \in table' : r.token = n
  <2>1. CASE table' = table /\ stored' = stored
    BY <2>1 DEF Web!IdsIdentify
  <2>2. ASSUME NEW u \in Web!Tasks, Stores(u) PROVE \E r \in table' : r.token = n
    <3>1. CASE n \in stored
      BY <2>2, <3>1 DEF Stores, Web!IdsIdentify
    <3>2. CASE n = task[u].token
      <4> DEFINE row(out) == [chat |-> task[u].chat, id |-> task[u].id,
                              token |-> task[u].token, out |-> out]
      <4>1. row(FALSE) \in table' \/ row(TRUE) \in table'
        BY <2>2 DEF Stores, RowOf
      <4>2. row(FALSE).token = n /\ row(TRUE).token = n
        BY <3>2
      <4> HIDE DEF row
      <4>3. QED
        BY <4>1, <4>2
    <3>3. QED
      BY <2>2, <3>1, <3>2 DEF Stores
  <2>3. QED
    BY <2>1, <2>2, TableAfter
<1>9. Web!IdsAreBelow'
  BY <1>4, <1>5, <1>6 DEF Web!IdsAreBelow
<1>10. QED
  BY <1>7, <1>8, <1>9 DEF Web!IdsIdentify

LEMMA LockAfter ==
  ASSUME Web!Next
  PROVE  \/ idLock' = idLock \/ Web!Die
         \/ \E t \in Web!Tasks : Web!LoadIds(t) \/ Web!AssignId(t)
<1>1. ASSUME NEW t, \/ Web!OverLimit(t) \/ Web!InsertMessage(t) \/ Web!ReadUser(t)
                    \/ Web!UpsertUser(t) \/ Web!Submit(t) \/ Web!RecordOutbound(t)
      PROVE  idLock' = idLock
  BY <1>1 DEF Web!OverLimit, Web!InsertMessage, Web!ReadUser, Web!UpsertUser,
              Web!Submit, Web!RecordOutbound, Web!hub
<1>2. ASSUME NEW t, NEW c, NEW recorded, Web!Post(t, c) \/ Web!Send(t, c, recorded)
      PROVE  idLock' = idLock
  BY <1>2 DEF Web!Post, Web!Send, Web!hub
<1>3. QED
  BY <1>1, <1>2, TasksStay DEF Web!Next, Web!Step

\* One task at a time loads the highest id of a chat, and no id of it is given meanwhile.
LEMMA LocksStep ==
  ASSUME Web!TypeOK, Web!IdsAreFew, Web!IdsAreBelow, Web!LoadsAreLocked, Web!Next
  PROVE  Web!LoadsAreLocked'
<1> SUFFICES ASSUME NEW s \in Web!Tasks, task'[s].pc = "assign"
             PROVE  /\ idLock' = s /\ lastIds'[task'[s].chat] = Web!Unloaded
                    /\ \A r \in table' : r.chat = task'[s].chat => r.id <= task'[s].id
  BY DEF Web!LoadsAreLocked, Web!At
<1>1. task'[s] # Web!Rest /\ IdAfter(s)
  BY IdsAfter DEF Web!Rest
<1>2. CASE task[s] # Web!Rest /\ task'[s] = task[s]
  <2>1. /\ idLock = s /\ lastIds[task[s].chat] = Web!Unloaded /\ task[s].pc = "assign"
        /\ \A r \in table : r.chat = task[s].chat => r.id <= task[s].id
    BY <1>2 DEF Web!LoadsAreLocked, Web!At
  <2>2. ~Web!Die
    BY <1>1, DieFacts
  <2>3. ASSUME NEW t \in Web!Tasks, Web!LoadIds(t) PROVE FALSE
    BY <2>1, <2>3, TasksAreFinite DEF Web!LoadIds
  <2>4. ASSUME NEW t \in Web!Tasks, Web!AssignId(t) PROVE FALSE
    <3>1. task[t].pc = "assign" \/ idLock = Web!Free
      BY <2>4 DEF Web!AssignId, Web!At
    <3>2. idLock = t
      BY <2>1, <3>1, TasksAreFinite DEF Web!LoadsAreLocked, Web!At
    <3>3. t = s
      BY <2>1, <3>2
    <3>4. QED
      BY <1>1, <2>4, <3>3, IdIsNew
  <2>5. ASSUME NEW r \in table', r.chat = task[s].chat PROVE r.id <= task[s].id
    <3>1. CASE r \in table
      BY <2>1, <2>5, <3>1
    <3>2. ASSUME NEW u \in Web!Tasks, Stores(u), r \notin table PROVE FALSE
      <4>0. task[u] \in Web!TaskStates
        BY <3>2 DEF Stores, RowOf
      <4>4. u \in Web!Inserting /\ r.chat = task[u].chat
        BY <3>2, RowsAdded DEF Web!Inserting
      <4>1. u \in Web!Inserting /\ task[u].chat = task[s].chat /\ task[u].id \in Nat
        BY <2>5, <4>0, <4>4, TaskFields, TasksAreFinite
      <4>2. 0 < task[u].id /\ task[u].id < 0
        BY <2>1, <4>1 DEF Web!IdsAreBelow, Web!Unloaded
      <4>3. QED
        BY <4>1, <4>2
    <3>3. QED
      BY <3>1, <3>2, TableAfter
  <2>6. QED
    BY <1>2, <2>1, <2>2, <2>3, <2>4, <2>5, LockAfter, LastIdsAfter
<1>3. CASE Web!LoadIds(s) /\ task'[s].id = Web!MaxStored(task[s].chat)
           /\ task'[s].chat = task[s].chat
  <2>1. idLock' = s /\ lastIds[task[s].chat] = Web!Unloaded /\ lastIds' = lastIds /\ table' = table
    BY <1>3 DEF Web!LoadIds, Web!db
  <2>2. \A r \in table : r.id \in 0 .. MaxMessages
    BY RowsOfTable
  <2>3. \A r \in table : r.chat = task[s].chat => r.id <= Web!MaxStored(task[s].chat)
    BY <2>2, MaxStoredFacts, TasksAreFinite
  <2>4. QED
    BY <1>3, <2>1, <2>3
<1>4. QED
  BY <1>1, <1>2, <1>3 DEF IdAfter

-----------------------------------------------------------------------------
(* The limiter *)

LEMMA SameLimiter ==
  /\ \A t, K : Web!IsTable(t, K) <=> In!IsTable(t, K)
  /\ \A t, k : Web!Count(t, k) = In!Count(t, k)
  /\ \A t, k : Web!FlipAndPrune(t, k) = In!FlipAndPrune(t, k)
  BY DEF Web!IsTable, In!IsTable, Web!Count, In!Count, Web!FlipAndPrune, In!FlipAndPrune,
         Web!Restrict, In!Restrict

\* What the counting statement does to the rows.
LEMMA CountRows ==
  ASSUME NEW K, Web!IsTable(quota, K), NEW key
  PROVE  /\ DOMAIN Web!Count(quota, key) = DOMAIN quota \cup {key}
         /\ \A k \in DOMAIN quota : k # key => Web!Count(quota, key)[k] = quota[k]
         /\ \A k \in DOMAIN quota : quota[k].count \in Nat
         /\ Web!Count(quota, key)[key].count \in Nat
         /\ key \in DOMAIN quota => Web!Count(quota, key)[key].count = quota[key].count + 1
         /\ key \notin DOMAIN quota => Web!Count(quota, key)[key].count = 1
<1> DEFINE zero == [count |-> 0, notified |-> FALSE]
           new(old) == [old EXCEPT !.count = @ + 1]
<1>1. \A k \in DOMAIN quota : quota[k] \in [count : Nat, notified : BOOLEAN]
  BY DEF Web!IsTable
<1>2. \A old \in [count : Nat, notified : BOOLEAN] :
          new(old).count = old.count + 1 /\ new(old).count \in Nat
  OBVIOUS
<1>3. zero \in [count : Nat, notified : BOOLEAN] /\ zero.count = 0
  OBVIOUS
<1>4. Web!Count(quota, key) = [k \in DOMAIN quota \cup {key} |->
                              IF k = key THEN new(IF key \in DOMAIN quota THEN quota[key] ELSE zero)
                              ELSE quota[k]]
  BY DEF Web!Count
<1> HIDE DEF zero, new
<1>5. /\ DOMAIN Web!Count(quota, key) = DOMAIN quota \cup {key}
      /\ \A k \in DOMAIN quota : k # key => Web!Count(quota, key)[k] = quota[k]
      /\ Web!Count(quota, key)[key] = new(IF key \in DOMAIN quota THEN quota[key] ELSE zero)
  BY <1>4
<1>6. CASE key \in DOMAIN quota
  BY <1>1, <1>2, <1>5, <1>6
<1>7. CASE key \notin DOMAIN quota
  BY <1>1, <1>2, <1>3, <1>5, <1>7
<1>8. QED
  BY <1>6, <1>7

\* Counting never forgets that somebody was told.
LEMMA CountTold ==
  ASSUME NEW K, Web!IsTable(quota, K), NEW key, key \in DOMAIN quota, quota[key].notified
  PROVE  Web!Count(quota, key)[key].notified
  BY DEF Web!Count, Web!IsTable

\* What the notice's statement and the pruning do to the rows.
LEMMA PruneRows ==
  ASSUME NEW K, Web!IsTable(quota, K), NEW key, key[2] \in Nat
  PROVE  /\ DOMAIN Web!FlipAndPrune(quota, key) = {k \in DOMAIN quota : k[2] + 2 >= key[2]}
         /\ \A k \in DOMAIN Web!FlipAndPrune(quota, key) :
                k # key => Web!FlipAndPrune(quota, key)[k] = quota[k]
         /\ key \in DOMAIN quota => /\ key \in DOMAIN Web!FlipAndPrune(quota, key)
                                /\ Web!FlipAndPrune(quota, key)[key].count = quota[key].count
<1> DEFINE kept == {k \in DOMAIN quota : k[2] + 2 >= key[2]}
           flipped == IF key \in DOMAIN quota THEN [quota EXCEPT ![key].notified = TRUE] ELSE quota
<1>1. quota \in [DOMAIN quota -> [count : Nat, notified : BOOLEAN]]
  BY DEF Web!IsTable
<1>2. Web!FlipAndPrune(quota, key) = [k \in kept |-> flipped[k]]
  BY DEF Web!FlipAndPrune, Web!Restrict
<1>3. /\ \A k \in DOMAIN quota : k # key => flipped[k] = quota[k]
      /\ key \in DOMAIN quota => flipped[key].count = quota[key].count
  BY <1>1
<1>4. key \in DOMAIN quota => key \in kept
  OBVIOUS
<1> HIDE DEF flipped
<1>5. QED
  BY <1>2, <1>3, <1>4

LEMMA FlipTold ==
  ASSUME NEW K, Web!IsTable(quota, K), NEW key, key[2] \in Nat, key \in DOMAIN quota
  PROVE  Web!FlipAndPrune(quota, key)[key].notified
<1>1. key[2] + 2 >= key[2]
  OBVIOUS
<1>2. QED
  BY <1>1 DEF Web!FlipAndPrune, Web!Restrict, Web!IsTable

LEMMA KeyFacts ==
  ASSUME Web!TypeOK
  PROVE  /\ \A k \in Web!Keys : k[2] \in Nat
         /\ \A c \in WebChats, n \in 0 .. clock :
                /\ <<c, n>> \in Web!Keys /\ <<c, n>> \in WebChats \X (0 .. clock)
                /\ <<c, n>>[2] = n /\ n \in Nat
         /\ clock \in Nat
         /\ \A k \in Web!Keys : passed[k] \in Nat /\ notices[k] \in Nat
<1>1. clock \in 0 .. webEvents /\ webEvents \in 0 .. MaxEvents /\ clock \in 0 .. MaxEvents
  BY TasksAreFinite DEF Web!TypeOK
<1>2. QED
  BY <1>1, TasksAreFinite DEF Web!TypeOK, Web!Keys

\* The rows of the limiter count what passed and remember who was told.
LEMMA QuotaStep ==
  ASSUME Web!TypeOK, Web!QuotaCounts, Web!LimitHolds, Web!Next
  PROVE  Web!QuotaCounts' /\ Web!LimitHolds'
<1> DEFINE Counts(k) ==
      \/ /\ k \in DOMAIN quota
         /\ passed[k] <= quota[k].count
         /\ notices[k] = 0 \/ (notices[k] = 1 /\ quota[k].notified)
      \/ /\ k \notin DOMAIN quota
         /\ notices[k] <= 1
         /\ k[2] < clock \/ (passed[k] = 0 /\ notices[k] = 0)
<1>0. \A k \in Web!Keys : Counts(k)
  BY DEF Web!QuotaCounts
<1>1. ASSUME NEW t \in Posts, NEW c \in WebChats, Web!Post(t, c)
      PROVE  Web!QuotaCounts' /\ Web!LimitHolds'
  <2> DEFINE key == <<c, clock>>
  <2>1. /\ quota' = Web!Count(quota, key) /\ notices' = notices /\ clock' = clock
        /\ IF quota'[key].count > Limit THEN passed' = passed
           ELSE passed' = [passed EXCEPT ![key] = @ + 1]
    BY <1>1 DEF Web!Post, Web!Over
  <2>2. key \in Web!Keys /\ key[2] = clock /\ clock \in Nat
    BY KeyFacts, TasksAreFinite
  <2>3. Web!IsTable(quota, WebChats \X (0 .. clock))
    BY DEF Web!TypeOK
  <2> HIDE DEF key
  <2>6. /\ DOMAIN Web!Count(quota, key) = DOMAIN quota \cup {key}
        /\ \A k \in DOMAIN quota :
              /\ quota[k].count \in Nat
              /\ k # key => Web!Count(quota, key)[k] = quota[k]
        /\ Web!Count(quota, key)[key].count \in Nat
        /\ key \in DOMAIN quota =>
              Web!Count(quota, key)[key].count = quota[key].count + 1
        /\ key \notin DOMAIN quota => Web!Count(quota, key)[key].count = 1
    BY <2>3, CountRows
  <2>7. key \in DOMAIN quota /\ quota[key].notified => quota'[key].notified
    BY <2>1, <2>3, CountTold
  <2>4. ASSUME NEW k \in Web!Keys PROVE Counts(k)' /\ passed'[k] <= Limit
    <3>1. CASE k # key
      <4>1. /\ passed'[k] = passed[k] /\ (k \in DOMAIN quota' <=> k \in DOMAIN quota)
            /\ k \in DOMAIN quota => quota'[k] = quota[k]
        BY <2>1, <2>6, <3>1 DEF Web!TypeOK
      <4>2. QED
        BY <1>0, <2>1, <4>1 DEF Web!LimitHolds
    <3>2. CASE k = key
      <4>1. /\ key \in DOMAIN quota' /\ quota'[key].count \in Nat
            /\ key \in DOMAIN quota => /\ quota'[key].count = quota[key].count + 1
                                       /\ quota[key].count \in Nat
            /\ key \notin DOMAIN quota => quota'[key].count = 1
        BY <2>1, <2>6
      <4>2. passed[key] \in Nat /\ notices[key] \in Nat /\ passed[key] <= Limit
        BY <2>2, KeyFacts DEF Web!LimitHolds
      <4>3. \/ quota'[key].count > Limit /\ passed'[key] = passed[key]
            \/ ~(quota'[key].count > Limit) /\ passed'[key] = passed[key] + 1
        BY <2>1, <2>2 DEF Web!TypeOK
      <4>4. Counts(key)
        BY <1>0, <2>2
      <4>5. passed'[key] <= quota'[key].count
        BY <2>2, <4>1, <4>2, <4>3, <4>4
      <4>6. passed'[key] <= Limit
        BY <4>1, <4>2, <4>3, <4>5, TasksAreFinite
      <4>7. notices[key] = 0 \/ (notices[key] = 1 /\ quota'[key].notified)
        BY <2>2, <2>7, <4>1, <4>2, <4>4
      <4>8. QED
        BY <2>1, <3>2, <4>1, <4>5, <4>6, <4>7
    <3>3. QED
      BY <3>1, <3>2
  <2>5. QED
    BY <2>1, <2>4 DEF Web!QuotaCounts, Web!LimitHolds
<1>2. ASSUME NEW t \in Web!Tasks, Web!OverLimit(t)
      PROVE  Web!QuotaCounts' /\ Web!LimitHolds'
  <2> DEFINE key == <<task[t].chat, task[t].bucket>>
  <2>1. /\ quota' = Web!FlipAndPrune(quota, key) /\ passed' = passed /\ clock' = clock
        /\ IF key \in DOMAIN quota /\ ~quota[key].notified
           THEN notices' = [notices EXCEPT ![key] = @ + 1] ELSE notices' = notices
    BY <1>2 DEF Web!OverLimit, Web!Notices
  <2>2. key \in Web!Keys /\ key[2] \in Nat /\ key[2] <= clock /\ clock \in Nat
    <3>1. task[t] \in Web!TaskStates
      BY <1>2, OverLimitFacts DEF Ends
    <3>2. task[t].chat \in WebChats /\ task[t].bucket \in 0 .. clock
      BY <3>1, TaskFields
    <3>3. QED
      BY <3>2, KeyFacts
  <2>3. Web!IsTable(quota, WebChats \X (0 .. clock))
    BY DEF Web!TypeOK
  <2> HIDE DEF key
  <2>4. /\ DOMAIN quota' = {k \in DOMAIN quota : k[2] + 2 >= key[2]}
        /\ \A k \in DOMAIN quota' : k # key => quota'[k] = quota[k]
        /\ key \in DOMAIN quota => /\ key \in DOMAIN quota'
                                   /\ quota'[key].count = quota[key].count
    BY <2>1, <2>2, <2>3, PruneRows
  <2>7. key \in DOMAIN quota => quota'[key].notified
    BY <2>1, <2>2, <2>3, FlipTold
  <2>5. ASSUME NEW k \in Web!Keys PROVE Counts(k)' /\ notices'[k] <= 1
    <3>0. Counts(k) /\ passed[k] \in Nat /\ notices[k] \in Nat /\ k[2] \in Nat
      BY <1>0, KeyFacts
    <3>1. CASE k # key
      <4>1. notices'[k] = notices[k]
        BY <2>1, <3>1 DEF Web!TypeOK
      <4>2. CASE k \in DOMAIN quota /\ k \notin DOMAIN quota'
        <5>1. k[2] < clock
          BY <2>2, <2>4, <3>0, <4>2
        <5>2. QED
          BY <2>1, <3>0, <4>1, <4>2, <5>1
      <4>3. CASE k \in DOMAIN quota' \/ k \notin DOMAIN quota
        BY <2>1, <2>4, <3>0, <3>1, <4>1, <4>3
      <4>4. QED
        BY <4>2, <4>3
    <3>2. CASE k = key /\ key \in DOMAIN quota
      <4>1. \/ quota[key].notified /\ notices'[key] = notices[key]
            \/ ~quota[key].notified /\ notices'[key] = notices[key] + 1
        BY <2>1, <2>2, <3>2 DEF Web!TypeOK
      <4>2. notices'[key] = 0 \/ notices'[key] = 1
        BY <3>0, <3>2, <4>1
      <4>3. QED
        BY <2>1, <2>4, <2>7, <3>0, <3>2, <4>2
    <3>3. CASE k = key /\ key \notin DOMAIN quota
      BY <2>1, <2>4, <3>0, <3>3
    <3>4. QED
      BY <3>1, <3>2, <3>3
  <2>6. QED
    BY <2>1, <2>5 DEF Web!QuotaCounts, Web!LimitHolds
<1>3. ASSUME quota' = quota, passed' = passed, notices' = notices,
             clock' = clock \/ clock' = clock + 1
      PROVE  Web!QuotaCounts' /\ Web!LimitHolds'
  <2>1. clock \in Nat /\ \A k \in Web!Keys : k[2] \in Nat
    BY KeyFacts
  <2>2. QED
    BY <1>3, <2>1 DEF Web!QuotaCounts, Web!LimitHolds, Web!Keys
<1>4. ASSUME NEW t, \/ Web!LoadIds(t) \/ Web!AssignId(t) \/ Web!InsertMessage(t)
                    \/ Web!ReadUser(t) \/ Web!UpsertUser(t) \/ Web!Submit(t)
                    \/ Web!RecordOutbound(t)
      PROVE  quota' = quota /\ passed' = passed /\ notices' = notices /\ clock' = clock
  BY <1>4 DEF Web!LoadIds, Web!AssignId, Web!InsertMessage, Web!ReadUser, Web!UpsertUser,
              Web!Submit, Web!RecordOutbound, Web!db, Web!history
<1>5. ASSUME NEW q, \/ Web!History(q) \/ Web!Unsubscribe(q) \/ \E c \in WebChats : Web!Subscribe(q, c)
      PROVE  quota' = quota /\ passed' = passed /\ notices' = notices /\ clock' = clock
  BY <1>5 DEF Web!History, Web!Unsubscribe, Web!Subscribe, Web!db, Web!history
<1>6. ASSUME NEW t, NEW c, NEW recorded, Web!Send(t, c, recorded)
      PROVE  quota' = quota /\ passed' = passed /\ notices' = notices /\ clock' = clock
  BY <1>6 DEF Web!Send, Web!db, Web!history
<1>7. ASSUME Web!Tick \/ Web!Die \/ Web!Boot
      PROVE  /\ quota' = quota /\ passed' = passed /\ notices' = notices
             /\ clock' = clock \/ clock' = clock + 1
  BY <1>7 DEF Web!Tick, Web!Die, Web!Boot, Web!db, Web!history
<1>8. QED
  BY <1>1, <1>2, <1>3, <1>4, <1>5, <1>6, <1>7 DEF Web!Next, Web!Step

-----------------------------------------------------------------------------
(* Streams *)

LEMMA StreamFacts ==
  ASSUME Web!TypeOK, NEW q \in Streams
  PROVE  /\ stream[q] = Web!Closed \/ stream[q] \in Web!Open
         /\ stream[q].chat \in WebChats \cup {"none"}
         /\ stream[q].chat = "none" <=> stream[q] = Web!Closed
  BY TasksAreFinite DEF Web!TypeOK, Web!Open, Web!Closed

\* What a step does to one client's stream.
StreamAfter(q) ==
    \/ stream'[q] = stream[q]
    \/ stream'[q] = Web!Closed
    \/ /\ stream'[q].chat = stream[q].chat /\ stream'[q].early = stream[q].early
       /\ stream[q].seen \subseteq stream'[q].seen
       /\ \A r \in table : r.chat = stream[q].chat => r.token \in stream'[q].seen
       /\ table' = table
    \/ /\ ~stream'[q].caughtUp /\ task' = task
       /\ stream'[q].early =
             {task[t].token : t \in {s \in Sends : /\ task[s].pc = "record"
                                                   /\ task[s].chat = stream'[q].chat}}
    \/ /\ stream'[q].chat = stream[q].chat /\ stream'[q].early = stream[q].early
       /\ stream'[q].caughtUp = stream[q].caughtUp /\ stream[q].seen \subseteq stream'[q].seen

LEMMA SubscribeFacts ==
  ASSUME Web!TypeOK, NEW q \in Streams, NEW c \in WebChats, Web!Subscribe(q, c)
  PROVE  /\ stream[q] = Web!Closed /\ \A p \in Streams : p # q => stream'[p] = stream[p]
         /\ stream'[q].chat = c /\ ~stream'[q].caughtUp /\ task' = task
         /\ stream'[q].early =
               {task[t].token : t \in {s \in Sends : task[s].pc = "record" /\ task[s].chat = c}}
         /\ stream'[q] \in [chat : WebChats, caughtUp : BOOLEAN, seen : SUBSET Web!Tokens,
                            early : {stream'[q].early}]
         /\ subs' = [subs EXCEPT ![c] = @ \cup {q}]
<1> DEFINE e == {task[t].token : t \in {s \in Sends : task[s].pc = "record" /\ task[s].chat = c}}
           new == [chat |-> c, caughtUp |-> FALSE, seen |-> {}, early |-> e]
<1>1. /\ stream[q] = Web!Closed /\ task' = task /\ stream' = [stream EXCEPT ![q] = new]
      /\ subs' = [subs EXCEPT ![c] = @ \cup {q}]
  BY DEF Web!Subscribe, Web!At
<1> HIDE DEF e
<1>2. /\ new.chat = c /\ ~new.caughtUp /\ new.early = e
      /\ new \in [chat : WebChats, caughtUp : BOOLEAN, seen : SUBSET Web!Tokens, early : {e}]
  OBVIOUS
<1> HIDE DEF new
<1>3. stream'[q] = new /\ \A p \in Streams : p # q => stream'[p] = stream[p]
  BY <1>1 DEF Web!TypeOK
<1>4. QED
  BY <1>1, <1>2, <1>3 DEF e

LEMMA HistoryFacts ==
  ASSUME Web!TypeOK, NEW q \in Streams, Web!History(q)
  PROVE  /\ stream[q] \in Web!Open /\ \A p \in Streams : p # q => stream'[p] = stream[p]
         /\ stream'[q] \in Web!Open
         /\ stream'[q].chat = stream[q].chat /\ stream'[q].early = stream[q].early
         /\ stream[q].seen \subseteq stream'[q].seen
         /\ \A r \in table : r.chat = stream[q].chat => r.token \in stream'[q].seen
         /\ table' = table /\ subs' = subs
<1> DEFINE read == {r.token : r \in {x \in table : x.chat = stream[q].chat}}
           new == [stream[q] EXCEPT !.caughtUp = TRUE, !.seen = @ \cup read]
<1>1. /\ stream[q] # Web!Closed /\ table' = table /\ subs' = subs
      /\ stream' = [stream EXCEPT ![q] = new]
  BY DEF Web!History, Web!db, Web!hub
<1>2. stream[q] \in Web!Open /\ read \subseteq Web!Tokens
  BY <1>1, StreamFacts, RowsOfTable
<1>3. \A r \in table : r.chat = stream[q].chat => r.token \in read
  OBVIOUS
<1> HIDE DEF read
<1>4. /\ new \in Web!Open /\ new.chat = stream[q].chat /\ new.early = stream[q].early
      /\ new.seen = stream[q].seen \cup read
  BY <1>2 DEF Web!Open
<1> HIDE DEF new
<1>5. stream'[q] = new /\ \A p \in Streams : p # q => stream'[p] = stream[p]
  BY <1>1 DEF Web!TypeOK
<1>6. QED
  BY <1>1, <1>2, <1>3, <1>4, <1>5

LEMMA PublishFacts ==
  ASSUME Web!TypeOK, NEW c, NEW n \in Web!Tokens, Web!Publish(c, n), NEW q \in Streams
  PROVE  /\ q \notin subs[c] => stream'[q] = stream[q]
         /\ q \in subs[c] => n \in stream'[q].seen
         /\ stream'[q].chat = stream[q].chat /\ stream'[q].early = stream[q].early
         /\ stream'[q].caughtUp = stream[q].caughtUp /\ stream[q].seen \subseteq stream'[q].seen
         /\ stream[q] \in Web!Open => stream'[q] \in Web!Open
<1>1. stream'[q] = IF q \in subs[c] THEN [stream[q] EXCEPT !.seen = @ \cup {n}] ELSE stream[q]
  BY DEF Web!Publish
<1>2. stream[q] = Web!Closed \/ stream[q] \in Web!Open
  BY StreamFacts
<1>3. CASE stream[q] = Web!Closed
  <2>1. stream[q] \notin Web!Open
    BY <1>3, MessagesAssumption DEF Web!Closed, Web!Open
  <2>2. CASE q \notin subs[c]
    BY <1>1, <1>3, <2>1, <2>2 DEF Web!Closed
  <2>3. CASE q \in subs[c]
    BY <1>1, <1>3, <2>1, <2>3 DEF Web!Closed
  <2>4. QED
    BY <2>2, <2>3
<1>4. CASE stream[q] \in Web!Open
  BY <1>1, <1>4 DEF Web!Open
<1>5. QED
  BY <1>2, <1>3, <1>4

\* The actions that touch no stream.
LEMMA StreamsStay ==
  ASSUME \/ \E t \in Posts, c \in WebChats : Web!Post(t, c)
         \/ \E t \in Sends, c \in WebChats, recorded \in BOOLEAN : Web!Send(t, c, recorded)
         \/ \E t \in Web!Tasks : \/ Web!OverLimit(t) \/ Web!LoadIds(t) \/ Web!InsertMessage(t)
                                 \/ Web!ReadUser(t) \/ Web!UpsertUser(t) \/ Web!Submit(t)
                                 \/ Web!RecordOutbound(t)
         \/ Web!Tick \/ Web!Boot
  PROVE  stream' = stream /\ subs' = subs
  BY DEF Web!Post, Web!Send, Web!OverLimit, Web!LoadIds, Web!InsertMessage, Web!ReadUser,
         Web!UpsertUser, Web!Submit, Web!RecordOutbound, Web!Tick, Web!Boot, Web!hub

\* A message of the bot is published with its id.
LEMMA PublishStep ==
  ASSUME Web!TypeOK, Web!IdsAreFew, NEW t \in Web!Tasks, Web!AssignId(t)
  PROVE  /\ subs' = subs /\ task[t].token \in Web!Tokens /\ task[t].chat \in WebChats
         /\ \/ stream' = stream /\ t \in Posts
            \/ Web!Publish(task[t].chat, task[t].token)
         /\ task'[t] # Web!Rest => task'[t].token = task[t].token
<1>1. task[t].pc \in {"id", "assign"} /\ subs' = subs
  BY DEF Web!AssignId, Web!At
<1>2. LastOf(t) \in 0 .. MaxMessages
  BY <1>1, IdsFit
<1>3. QED
  BY <1>1, <1>2, AssignFacts, TaskFields

LEMMA StreamsAfter ==
  ASSUME Web!TypeOK, Web!IdsAreFew, Web!Next, NEW q \in Streams
  PROVE  StreamAfter(q)
<1>1. ASSUME stream' = stream PROVE StreamAfter(q)
  BY <1>1 DEF StreamAfter
<1>2. ASSUME NEW t \in Web!Tasks, Web!AssignId(t) PROVE StreamAfter(q)
  BY <1>2, PublishStep, PublishFacts DEF StreamAfter
<1>3. ASSUME NEW p \in Streams, Web!History(p) PROVE StreamAfter(q)
  BY <1>3, HistoryFacts DEF StreamAfter
<1>4. ASSUME NEW p \in Streams, Web!Unsubscribe(p) PROVE StreamAfter(q)
  BY <1>4 DEF Web!Unsubscribe, StreamAfter, Web!TypeOK
<1>5. ASSUME NEW p \in Streams, NEW c \in WebChats, Web!Subscribe(p, c) PROVE StreamAfter(q)
  BY <1>5, SubscribeFacts DEF StreamAfter
<1>6. ASSUME Web!Die PROVE StreamAfter(q)
  BY <1>6, DieFacts DEF StreamAfter
<1>7. QED
  BY <1>1, <1>2, <1>3, <1>4, <1>5, <1>6, StreamsStay DEF Web!Next, Web!Step

\* The hub's lists name the open streams of each chat.
LEMMA SubsStep ==
  ASSUME Web!TypeOK, Web!IdsAreFew, Web!SubsMatch, Web!Next
  PROVE  Web!SubsMatch'
<1>0. "none" \notin WebChats /\ Web!Closed.chat = "none"
  BY TasksAreFinite DEF Web!Closed
<1>1. ASSUME subs' = subs, \A q \in Streams : stream'[q].chat = stream[q].chat
      PROVE  Web!SubsMatch'
  BY <1>1 DEF Web!SubsMatch
<1>2. ASSUME NEW t \in Web!Tasks, Web!AssignId(t) PROVE Web!SubsMatch'
  BY <1>1, <1>2, PublishStep, PublishFacts
<1>3. ASSUME NEW p \in Streams, Web!History(p) PROVE Web!SubsMatch'
  BY <1>1, <1>3, HistoryFacts
<1>4. ASSUME NEW p \in Streams, Web!Unsubscribe(p) PROVE Web!SubsMatch'
  <2>1. /\ subs' = [subs EXCEPT ![stream[p].chat] = @ \ {p}]
        /\ stream' = [stream EXCEPT ![p] = Web!Closed]
    BY <1>4 DEF Web!Unsubscribe
  <2>2. ASSUME NEW q \in Streams, NEW c \in WebChats
        PROVE  q \in subs'[c] <=> stream'[q].chat = c
    <3>1. q # p => stream'[q] = stream[q]
      BY <2>1 DEF Web!TypeOK
    <3>2. q = p => stream'[q] = Web!Closed
      BY <2>1 DEF Web!TypeOK
    <3>3. c # stream[p].chat => subs'[c] = subs[c]
      BY <2>1 DEF Web!TypeOK
    <3>4. c = stream[p].chat => subs'[c] = subs[c] \ {p}
      BY <2>1 DEF Web!TypeOK
    <3>5. QED
      BY <1>0, <3>1, <3>2, <3>3, <3>4 DEF Web!SubsMatch
  <2>3. QED
    BY <2>2 DEF Web!SubsMatch
<1>5. ASSUME NEW p \in Streams, NEW d \in WebChats, Web!Subscribe(p, d) PROVE Web!SubsMatch'
  <2>1. /\ subs' = [subs EXCEPT ![d] = @ \cup {p}] /\ stream[p] = Web!Closed
        /\ \A q \in Streams : q # p => stream'[q] = stream[q]
        /\ stream'[p].chat = d
    BY <1>5, SubscribeFacts
  <2>2. ASSUME NEW q \in Streams, NEW c \in WebChats
        PROVE  q \in subs'[c] <=> stream'[q].chat = c
    <3>1. c # d => subs'[c] = subs[c]
      BY <2>1 DEF Web!TypeOK
    <3>2. c = d => subs'[c] = subs[c] \cup {p}
      BY <2>1 DEF Web!TypeOK
    <3>3. p \notin subs[c]
      BY <1>0, <2>1 DEF Web!SubsMatch
    <3>4. QED
      BY <2>1, <3>1, <3>2, <3>3 DEF Web!SubsMatch
  <2>3. QED
    BY <2>2 DEF Web!SubsMatch
<1>6. ASSUME Web!Die PROVE Web!SubsMatch'
  BY <1>0, <1>6, DieFacts DEF Web!SubsMatch
<1>7. ASSUME subs' = subs, stream' = stream PROVE Web!SubsMatch'
  BY <1>7 DEF Web!SubsMatch
<1>8. QED
  BY <1>2, <1>3, <1>4, <1>5, <1>6, <1>7, StreamsStay DEF Web!Next, Web!Step

\* What is published and not stored is seen, or known to be missed.
LEMMA PublishedStep ==
  ASSUME Web!TypeOK, Web!IdsAreFew, Web!TasksKeepKind, Web!SubsMatch, Web!PublishedIsSeen,
         Web!TasksKeepKind', Web!Next
  PROVE  Web!PublishedIsSeen'
<1> SUFFICES ASSUME NEW q \in Streams, NEW s \in Web!Tasks, task'[s].pc = "record",
                    task'[s].chat = stream'[q].chat
             PROVE  task'[s].token \in stream'[q].seen \cup stream'[q].early
  BY DEF Web!PublishedIsSeen, Web!At
<1>0. task'[s] # Web!Rest /\ s \notin Posts /\ s \in Sends
  BY DEF Web!Rest, Web!TasksKeepKind, Web!Tasks
<1>1. (task[s] # Web!Rest /\ task'[s] = task[s]) \/ Web!AssignId(s)
  BY <1>0, IdsAfter DEF IdAfter
<1>2. CASE Web!AssignId(s)
  <2>1. /\ task[s].token \in Web!Tokens /\ task'[s].token = task[s].token
        /\ task[s].chat \in WebChats
        /\ Web!Publish(task[s].chat, task[s].token)
    BY <1>0, <1>2, PublishStep
  <2>2. IdAfter(s)
    BY <1>0, IdsAfter
  <2>3. task'[s].chat = task[s].chat
    BY <1>0, <1>2, <2>2, TaskFields DEF IdAfter
  <2>4. stream'[q].chat = stream[q].chat
    BY <2>1, PublishFacts
  <2>5. q \in subs[task[s].chat]
    BY <2>1, <2>3, <2>4 DEF Web!SubsMatch
  <2>6. QED
    BY <2>1, <2>5, PublishFacts
<1>3. CASE task[s] # Web!Rest /\ task'[s] = task[s]
  <2>1. task[s].chat \in WebChats /\ task[s].pc = "record"
    BY <1>3, TaskFacts, TaskFields
  <2>2. StreamAfter(q)
    BY StreamsAfter
  <2>3. stream[q].chat = task[s].chat => task[s].token \in stream[q].seen \cup stream[q].early
    BY <2>1 DEF Web!PublishedIsSeen, Web!At
  <2>4. stream'[q] # Web!Closed
    BY <1>3, <2>1, TasksAreFinite DEF Web!Closed
  <2>5. CASE stream'[q].early = {task[t].token : t \in {x \in Sends : task[x].pc = "record"
                                                        /\ task[x].chat = stream'[q].chat}}
    BY <1>0, <1>3, <2>1, <2>5
  <2>6. CASE stream'[q].chat = stream[q].chat /\ stream'[q].early = stream[q].early
             /\ stream[q].seen \subseteq stream'[q].seen
    BY <1>3, <2>3, <2>6
  <2>7. CASE stream'[q] = stream[q]
    BY <1>3, <2>3, <2>7
  <2>8. QED
    BY <2>2, <2>4, <2>5, <2>6, <2>7 DEF StreamAfter
<1>4. QED
  BY <1>1, <1>2, <1>3

\* Who has read the history has every message of the bot it can have.
LEMMA CaughtUpStep ==
  ASSUME Web!TypeOK, Web!IdsAreFew, Web!IdsAreBelow, Web!PublishedIsSeen, Web!CaughtUp, Web!Next
  PROVE  Web!CaughtUp'
<1> SUFFICES ASSUME NEW q \in Streams, stream'[q].caughtUp, NEW r \in table', r.out,
                    r.chat = stream'[q].chat
             PROVE  r.token \in stream'[q].seen \cup stream'[q].early
  BY DEF Web!CaughtUp
<1>1. CASE r \in table
  <2>1. StreamAfter(q)
    BY StreamsAfter
  <2>2. stream[q].caughtUp /\ r.chat = stream[q].chat
            => r.token \in stream[q].seen \cup stream[q].early
    BY <1>1 DEF Web!CaughtUp
  <2>3. stream'[q] # Web!Closed
    BY DEF Web!Closed
  <2>4. CASE stream'[q] = stream[q]
    BY <2>2, <2>4
  <2>5. CASE stream'[q].chat = stream[q].chat /\ stream'[q].early = stream[q].early
             /\ stream[q].seen \subseteq stream'[q].seen
             /\ stream'[q].caughtUp = stream[q].caughtUp
    BY <2>2, <2>5
  <2>6. CASE /\ stream'[q].chat = stream[q].chat
             /\ \A x \in table : x.chat = stream[q].chat => x.token \in stream'[q].seen
    BY <1>1, <2>6
  <2>7. QED
    BY <2>1, <2>3, <2>4, <2>5, <2>6 DEF StreamAfter
<1>2. ASSUME NEW t \in Web!Tasks, Stores(t), r \notin table
      PROVE  r.token \in stream'[q].seen \cup stream'[q].early
  <2>1. stream' = stream
    BY <1>2 DEF Stores, RowOf
  <2>2. r.chat = task[t].chat /\ r.token = task[t].token /\ task[t].pc = "record"
    BY <1>2, RowsAdded
  <2>3. QED
    BY <1>2, <2>1, <2>2 DEF Web!PublishedIsSeen, Web!At
<1>3. QED
  BY <1>1, <1>2, TableAfter

\* What is handed to the engine, or failed, stays so.
LEMMA SubmittedGrows ==
  ASSUME Web!Next
  PROVE  submitted \subseteq submitted' /\ raced \subseteq raced'
<1>1. ASSUME NEW t, \/ Web!OverLimit(t) \/ Web!LoadIds(t) \/ Web!AssignId(t)
                    \/ Web!InsertMessage(t) \/ Web!ReadUser(t) \/ Web!RecordOutbound(t)
      PROVE  submitted' = submitted /\ raced' = raced
  BY <1>1 DEF Web!OverLimit, Web!LoadIds, Web!AssignId, Web!InsertMessage, Web!ReadUser,
              Web!RecordOutbound, Web!history
<1>2. ASSUME NEW t, NEW c, NEW recorded, Web!Post(t, c) \/ Web!Send(t, c, recorded)
      PROVE  submitted' = submitted /\ raced' = raced
  BY <1>2 DEF Web!Post, Web!Send, Web!history
<1>3. ASSUME NEW t, Web!UpsertUser(t) \/ Web!Submit(t)
      PROVE  submitted \subseteq submitted' /\ raced \subseteq raced'
  BY <1>3 DEF Web!UpsertUser, Web!Submit, Web!history
<1>4. ASSUME NEW q, \/ Web!History(q) \/ Web!Unsubscribe(q) \/ \E c \in WebChats : Web!Subscribe(q, c)
      PROVE  submitted' = submitted /\ raced' = raced
  BY <1>4 DEF Web!History, Web!Unsubscribe, Web!Subscribe, Web!history
<1>5. ASSUME Web!Tick \/ Web!Die \/ Web!Boot
      PROVE  submitted \subseteq submitted' /\ raced' = raced
  BY <1>5 DEF Web!Tick, Web!Die, Web!Boot, Web!history
<1>6. QED
  BY <1>1, <1>2, <1>3, <1>4, <1>5 DEF Web!Next, Web!Step

\* A request under way that is past its id goes on, or has been handed over, or failed.
LEMMA PostGoesOn ==
  ASSUME Web!TypeOK, Web!IdsAreFew, Web!TasksKeepKind, Web!Next, ~Web!Die,
         NEW t \in Posts, task[t] # Web!Rest
  PROVE  \/ task'[t] # Web!Rest /\ task'[t].token = task[t].token
         \/ task[t].token \in submitted' \cup raced'
         \/ task[t].pc = "over"
<1> DEFINE Goal == \/ task'[t] # Web!Rest /\ task'[t].token = task[t].token
                   \/ task[t].token \in submitted' \cup raced'
                   \/ task[t].pc = "over"
<1>0. t \in Web!Tasks /\ task[t] \in Web!TaskStates
  BY TaskFacts DEF Web!Tasks
<1>1. ASSUME task'[t] = task[t] PROVE Goal
  BY <1>1
<1>2. ASSUME NEW u \in Web!Tasks, Begins(u) PROVE Goal
  BY <1>0, <1>2 DEF Begins, Others
<1>3. ASSUME NEW u \in Web!Tasks, Moves(u) PROVE Goal
  BY <1>0, <1>3, TaskFields DEF Moves, Others
<1>4. ASSUME NEW u \in Web!Tasks, Web!Submit(u) PROVE Goal
  BY <1>0, <1>4, SubmitFacts DEF Ends, Others
<1>5. ASSUME NEW u \in Web!Tasks, Web!UpsertUser(u) PROVE Goal
  <2>1. \/ Ends(u, "upsert") /\ raced' = raced \cup {task[u].token}
        \/ Goes(u, "upsert", "submit")
    BY <1>5, UpsertFacts
  <2>2. QED
    BY <1>0, <2>1, TaskFields DEF Ends, Goes, Others
<1>6. ASSUME NEW u \in Web!Tasks, Web!OverLimit(u) PROVE Goal
  BY <1>0, <1>6, OverLimitFacts DEF Ends, Others
<1>7. ASSUME NEW u \in Web!Tasks, Web!RecordOutbound(u) PROVE Goal
  <2>1. Ends(u, "record")
    BY <1>7, RecordFacts
  <2>2. u # t
    BY <2>1 DEF Ends, Web!TasksKeepKind
  <2>3. QED
    BY <1>0, <2>1, <2>2 DEF Ends, Others
<1>8. ASSUME NEW u \in Web!Tasks, Web!LoadIds(u) PROVE Goal
  BY <1>0, <1>8, LoadFacts, RowsOfTable, TaskFields DEF Others
<1>9. ASSUME NEW u \in Web!Tasks, Web!AssignId(u) PROVE Goal
  <2>1. task[u].pc \in {"id", "assign"}
    BY <1>9 DEF Web!AssignId, Web!At
  <2>2. LastOf(u) \in 0 .. MaxMessages
    BY <2>1, IdsFit
  <2>3. QED
    BY <1>0, <1>9, <2>2, AssignFacts, TaskFields DEF Others
<1>10. ASSUME NEW u \in Web!Tasks, Web!InsertMessage(u) \/ Web!ReadUser(u) PROVE Goal
  <2>1. Goes(u, "insert", "user") \/ Goes(u, "user", "upsert")
    BY <1>10, InsertFacts, ReadUserFacts
  <2>2. QED
    BY <1>0, <2>1, TaskFields DEF Goes, Others
<1>11. ASSUME NEW u \in Posts, NEW c \in WebChats, Web!Post(u, c) PROVE Goal
  BY <1>2, <1>11, PostFacts
<1>12. ASSUME NEW u \in Sends, NEW c \in WebChats, NEW recorded \in BOOLEAN,
              Web!Send(u, c, recorded)
       PROVE  Goal
  BY <1>2, <1>12, SendFacts
<1>13. QED
  BY <1>1, <1>4, <1>5, <1>6, <1>7, <1>8, <1>9, <1>10, <1>11, <1>12, TasksStay
  DEF Web!Next, Web!Step

LEMMA RunningAfter ==
  ASSUME Web!Next, running'
  PROVE  Web!Boot \/ running
  BY DEF Web!Next, Web!Step, Web!Post, Web!Send, Web!Fresh, Web!OverLimit, Web!LoadIds,
         Web!AssignId, Web!InsertMessage, Web!ReadUser, Web!UpsertUser, Web!Submit,
         Web!RecordOutbound, Web!History, Web!Unsubscribe, Web!Subscribe, Web!Tick, Web!Die

\* A stored post reaches the engine.
LEMMA ReachStep ==
  ASSUME Web!TypeOK, Web!IdsAreFew, Web!IdsAreBelow, Web!TasksKeepKind, Web!TokensApart,
         Web!PostsReachEngine, Web!Next
  PROVE  Web!PostsReachEngine'
<1> SUFFICES ASSUME running', NEW r \in table', ~r.out, r.token \notin submitted' \cup raced'
             PROVE  \E t \in Posts : task'[t] # Web!Rest /\ task'[t].token = r.token
  BY DEF Web!PostsReachEngine
<1>1. ~Web!Boot
  <2>1. ASSUME Web!Boot PROVE FALSE
    <3>1. /\ submitted' = submitted \cup {x.token : x \in {y \in table : ~y.out}}
          /\ table' = table
      BY <2>1 DEF Web!Boot, Web!db
    <3>2. QED
      BY <3>1
  <2>2. QED
    BY <2>1
<1>2. running /\ ~Web!Die
  BY <1>1, RunningAfter, DieFacts
<1>3. CASE r \in table
  <2>1. PICK t \in Posts : task[t] # Web!Rest /\ task[t].token = r.token
    BY <1>2, <1>3, SubmittedGrows DEF Web!PostsReachEngine
  <2>2. task[t].pc # "over"
    BY <1>3, <2>1 DEF Web!TokensApart, Web!Waiting, Web!Tasks
  <2>3. QED
    BY <1>2, <2>1, <2>2, PostGoesOn
<1>4. ASSUME NEW u \in Web!Tasks, Stores(u), r \notin table
      PROVE  \E t \in Posts : task'[t] # Web!Rest /\ task'[t].token = r.token
  <2>1. r.token = task[u].token /\ task[u].pc = "insert"
    BY <1>4, RowsAdded
  <2>2. task'[u] \in Web!TaskStates /\ task'[u].token = task[u].token
    BY <1>4, <2>1 DEF Stores, RowOf
  <2>3. u \in Posts
    BY <2>1 DEF Web!TasksKeepKind
  <2>4. QED
    BY <2>1, <2>2, <2>3, TaskFields
<1>5. QED
  BY <1>3, <1>4, TableAfter

-----------------------------------------------------------------------------
(* Types *)

LEMMA ClockAfter ==
  ASSUME Web!TypeOK, Web!Next
  PROVE  /\ webEvents' \in 0 .. MaxEvents /\ clock' \in 0 .. webEvents'
         /\ clock \in Nat /\ clock' \in Nat /\ clock <= clock'
         /\ running' \in BOOLEAN
<1>1. webEvents \in 0 .. MaxEvents /\ clock \in 0 .. webEvents /\ running \in BOOLEAN
  BY DEF Web!TypeOK
<1>2. CASE Web!Tick
  BY <1>1, <1>2, TasksAreFinite DEF Web!Tick
<1>3. CASE Web!Die
  <2>1. webEvents < MaxEvents /\ webEvents' = webEvents + 1 /\ clock' = clock
    BY <1>3 DEF Web!Die
  <2>2. running' \in BOOLEAN
    BY <1>3 DEF Web!Die
  <2>3. QED
    BY <1>1, <2>1, <2>2, TasksAreFinite
<1>4. CASE Web!Boot
  BY <1>1, <1>4, TasksAreFinite DEF Web!Boot
<1>5. ASSUME webEvents' = webEvents, clock' = clock, running' = running
      PROVE  /\ webEvents' \in 0 .. MaxEvents /\ clock' \in 0 .. webEvents'
             /\ clock \in Nat /\ clock' \in Nat /\ clock <= clock'
             /\ running' \in BOOLEAN
  BY <1>1, <1>5, TasksAreFinite
<1>6. ASSUME NEW t, \/ Web!OverLimit(t) \/ Web!LoadIds(t) \/ Web!AssignId(t)
                    \/ Web!InsertMessage(t) \/ Web!ReadUser(t) \/ Web!UpsertUser(t)
                    \/ Web!Submit(t) \/ Web!RecordOutbound(t)
      PROVE  webEvents' = webEvents /\ clock' = clock /\ running' = running
  BY <1>6 DEF Web!OverLimit, Web!LoadIds, Web!AssignId, Web!InsertMessage, Web!ReadUser,
              Web!UpsertUser, Web!Submit, Web!RecordOutbound
<1>7. ASSUME NEW t, NEW c, NEW recorded, Web!Post(t, c) \/ Web!Send(t, c, recorded)
      PROVE  webEvents' = webEvents /\ clock' = clock /\ running' = running
  BY <1>7 DEF Web!Post, Web!Send
<1>8. ASSUME NEW q, \/ Web!History(q) \/ Web!Unsubscribe(q) \/ \E c \in WebChats : Web!Subscribe(q, c)
      PROVE  webEvents' = webEvents /\ clock' = clock /\ running' = running
  BY <1>8 DEF Web!History, Web!Unsubscribe, Web!Subscribe
<1>9. QED
  BY <1>2, <1>3, <1>4, <1>5, <1>6, <1>7, <1>8 DEF Web!Next, Web!Step

\* A task stays one of its states, whatever the clock does.
LEMMA TaskTypes ==
  ASSUME Web!TypeOK, Web!IdsAreFew, Web!Next
  PROVE  task' \in [Web!Tasks -> Web!TaskStates' \cup {Web!Rest}]
<1>1. Web!TaskStates \subseteq Web!TaskStates'
  BY ClockAfter DEF Web!TaskStates
<1>2. ASSUME NEW s \in Web!Tasks PROVE task'[s] \in Web!TaskStates' \cup {Web!Rest}
  <2>1. task[s] \in Web!TaskStates \cup {Web!Rest}
    BY DEF Web!TypeOK
  <2>2. ASSUME NEW t \in Web!Tasks, Begins(t) \/ Moves(t)
        PROVE  task'[s] \in Web!TaskStates \cup {Web!Rest}
    BY <2>1, <2>2 DEF Begins, Moves, Others
  <2>3. ASSUME NEW t \in Web!Tasks, Leaves(t)
        PROVE  task'[s] \in Web!TaskStates \cup {Web!Rest}
    BY <2>1, <2>3 DEF Leaves, Ends, Others
  <2>4. QED
    BY <1>1, <2>1, <2>2, <2>3, TasksAfter DEF Stay, AllEnd
<1> DEFINE IsFunction == task' = [s \in Web!Tasks |-> task'[s]]
<1>3. ASSUME NEW t, NEW x, task' = [task EXCEPT ![t] = x] PROVE IsFunction
  BY <1>3 DEF Web!TypeOK
<1>4. ASSUME NEW t, NEW p, task' = [task EXCEPT ![t].pc = p] PROVE IsFunction
  BY <1>4 DEF Web!TypeOK
<1>5. ASSUME task' = task PROVE IsFunction
  BY <1>5 DEF Web!TypeOK
<1>6. ASSUME NEW t \in Web!Tasks, Web!Step(t) PROVE IsFunction
  <2>1. CASE Web!OverLimit(t) \/ Web!Submit(t) \/ Web!RecordOutbound(t)
    BY <1>3, <2>1 DEF Web!OverLimit, Web!Submit, Web!RecordOutbound, Web!Done
  <2>2. CASE Web!LoadIds(t) \/ Web!ReadUser(t)
    BY <2>2 DEF Web!LoadIds, Web!ReadUser, Web!TypeOK
  <2>3. CASE Web!InsertMessage(t)
    BY <1>4, <2>3 DEF Web!InsertMessage, Web!Goto
  <2>4. CASE Web!UpsertUser(t)
    BY <1>3, <1>4, <2>4 DEF Web!UpsertUser, Web!Goto, Web!Done
  <2>5. CASE Web!AssignId(t)
    BY <2>5 DEF Web!AssignId, Web!TypeOK
  <2>6. QED
    BY <1>6, <2>1, <2>2, <2>3, <2>4, <2>5 DEF Web!Step
<1>7. ASSUME NEW t, NEW c, Web!Post(t, c) PROVE IsFunction
  BY <1>7 DEF Web!Post, Web!TypeOK
<1>8. ASSUME NEW t, NEW c, NEW recorded, Web!Send(t, c, recorded) PROVE IsFunction
  BY <1>8 DEF Web!Send, Web!TypeOK
<1>9. ASSUME Web!Die PROVE IsFunction
  BY <1>9 DEF Web!Die
<1>10. IsFunction
  BY <1>5, <1>6, <1>7, <1>8, <1>9, TasksStay DEF Web!Next
<1> HIDE DEF IsFunction
<1>11. QED
  BY <1>2, <1>10 DEF IsFunction

\* The hub's counters and lock.
LEMMA HubTypes ==
  ASSUME Web!TypeOK, Web!IdsAreFew, Web!IdsAreBelow, Web!LoadsAreLocked, Web!Next
  PROVE  /\ lastIds' \in [WebChats -> 0 .. MaxMessages + 1]
         /\ idLock' \in Web!Tasks \cup {Web!Free}
         /\ messages' \in 0 .. MaxMessages
<1>1. lastIds \in [WebChats -> 0 .. MaxMessages + 1] /\ idLock \in Web!Tasks \cup {Web!Free}
  BY DEF Web!TypeOK
<1>2. CASE Web!Die
  BY <1>2, GivenAfter, TasksAreFinite DEF Web!Die, Web!Unloaded
<1>3. ASSUME NEW t \in Web!Tasks, Web!AssignId(t)
      PROVE  lastIds' \in [WebChats -> 0 .. MaxMessages + 1] /\ idLock' \in Web!Tasks \cup {Web!Free}
  <2>1. task[t].pc \in {"id", "assign"}
    BY <1>3 DEF Web!AssignId, Web!At
  <2>2. LastOf(t) \in 0 .. MaxMessages
    BY <2>1, IdsFit
  <2>3. LastOf(t) + 1 \in 0 .. MaxMessages + 1
    BY <2>2, TasksAreFinite
  <2>4. lastIds' = [lastIds EXCEPT ![task[t].chat] = LastOf(t) + 1]
    BY <1>3, IdIsNew
  <2>5. idLock' = Web!Free \/ idLock' = idLock
    BY <1>3 DEF Web!AssignId
  <2> HIDE DEF LastOf
  <2>6. QED
    BY <1>1, <2>3, <2>4, <2>5
<1>4. ASSUME NEW t \in Web!Tasks, Web!LoadIds(t) PROVE idLock' \in Web!Tasks /\ lastIds' = lastIds
  BY <1>4 DEF Web!LoadIds
<1>5. QED
  BY <1>1, <1>2, <1>3, <1>4, LastIdsAfter, LockAfter, GivenAfter

LEMMA RowTypes ==
  ASSUME Web!TypeOK, Web!IdsAreBelow, Web!Next
  PROVE  table' \subseteq Web!Row /\ stored' \subseteq Web!Tokens
<1>1. ASSUME NEW t \in Web!Tasks, Stores(t)
      PROVE  table' \subseteq Web!Row /\ stored' \subseteq Web!Tokens
  <2>1. task[t] \in Web!TaskStates /\ t \in Web!Inserting
    BY <1>1 DEF Stores, RowOf, Web!Inserting
  <2>2. /\ task[t].chat \in WebChats /\ task[t].token \in Web!Tokens
        /\ task[t].id \in Web!Tokens
    BY <2>1, TaskFields, TasksAreFinite DEF Web!IdsAreBelow, Web!Tokens
  <2>3. /\ RowOf(t, TRUE) \in Web!Row
        /\ RowOf(t, FALSE) \in Web!Row
    BY <2>2 DEF RowOf, Web!Row
  <2>4. /\ table' = table \cup {RowOf(t, TRUE)} \/ table' = table \cup {RowOf(t, FALSE)}
        /\ stored' = stored \cup {task[t].token}
    BY <1>1 DEF Stores, RowOf
  <2>5. QED
    BY <2>2, <2>3, <2>4 DEF Web!TypeOK
<1>2. QED
  BY <1>1, TableAfter DEF Web!TypeOK

LEMMA QuotaTypes ==
  ASSUME Web!TypeOK, Web!Next
  PROVE  /\ Web!IsTable(quota', WebChats \X (0 .. clock'))
         /\ passed' \in [Web!Keys -> Nat] /\ notices' \in [Web!Keys -> Nat]
<1> DEFINE Here == WebChats \X (0 .. clock)
           There == WebChats \X (0 .. clock')
           Goal == /\ Web!IsTable(quota', WebChats \X (0 .. clock'))
                   /\ passed' \in [Web!Keys -> Nat] /\ notices' \in [Web!Keys -> Nat]
<1>1. /\ Web!IsTable(quota, Here) /\ In!IsTable(quota, Here)
      /\ passed \in [Web!Keys -> Nat] /\ notices \in [Web!Keys -> Nat]
  BY SameLimiter DEF Web!TypeOK
<1>2. Here \subseteq There
  BY ClockAfter
<1> HIDE DEF Here
<1>3. ASSUME In!IsTable(quota', Here) PROVE Web!IsTable(quota', There)
  BY <1>2, <1>3, TableGrows, SameLimiter
<1> HIDE DEF There
<1>4. ASSUME NEW t \in Posts, NEW c \in WebChats, Web!Post(t, c) PROVE Goal
  <2> DEFINE key == <<c, clock>>
  <2>1. /\ quota' = Web!Count(quota, key) /\ notices' = notices
        /\ passed' = passed \/ passed' = [passed EXCEPT ![key] = @ + 1]
    BY <1>4 DEF Web!Post
  <2>2. key \in Here
    BY KeyFacts DEF Here
  <2> HIDE DEF key
  <2>3. In!IsTable(In!Count(quota, key), Here)
    BY <1>1, <2>2, CountTypes
  <2>4. In!IsTable(quota', Here)
    BY <2>1, <2>3, SameLimiter
  <2>5. passed' \in [Web!Keys -> Nat]
    BY <1>1, <2>1
  <2>6. QED
    BY <1>1, <1>3, <2>1, <2>4, <2>5 DEF There
<1>5. ASSUME NEW t \in Web!Tasks, Web!OverLimit(t) PROVE Goal
  <2> DEFINE key == <<task[t].chat, task[t].bucket>>
  <2>1. /\ quota' = Web!FlipAndPrune(quota, key) /\ passed' = passed
        /\ notices' = notices \/ notices' = [notices EXCEPT ![key] = @ + 1]
    BY <1>5 DEF Web!OverLimit
  <2> HIDE DEF key
  <2>2. In!IsTable(In!FlipAndPrune(quota, key), Here)
    BY <1>1, PruneTypes
  <2>3. In!IsTable(quota', Here)
    BY <2>1, <2>2, SameLimiter
  <2>4. notices' \in [Web!Keys -> Nat]
    BY <1>1, <2>1
  <2>5. QED
    BY <1>1, <1>3, <2>1, <2>3, <2>4 DEF There
<1>6. ASSUME quota' = quota, passed' = passed, notices' = notices PROVE Goal
  BY <1>1, <1>3, <1>6 DEF There
<1>7. ASSUME NEW t, \/ Web!LoadIds(t) \/ Web!AssignId(t) \/ Web!InsertMessage(t)
                    \/ Web!ReadUser(t) \/ Web!UpsertUser(t) \/ Web!Submit(t)
                    \/ Web!RecordOutbound(t)
      PROVE  quota' = quota /\ passed' = passed /\ notices' = notices
  BY <1>7 DEF Web!LoadIds, Web!AssignId, Web!InsertMessage, Web!ReadUser, Web!UpsertUser,
              Web!Submit, Web!RecordOutbound, Web!db, Web!history
<1>8. ASSUME NEW t, NEW c, NEW recorded, Web!Send(t, c, recorded)
      PROVE  quota' = quota /\ passed' = passed /\ notices' = notices
  BY <1>8 DEF Web!Send, Web!db, Web!history
<1>9. ASSUME Web!Die PROVE quota' = quota /\ passed' = passed /\ notices' = notices
  BY <1>9 DEF Web!Die, Web!db, Web!history
<1> HIDE DEF Goal
<1>10. Goal
  BY <1>4, <1>5, <1>6, <1>7, <1>8, <1>9, TasksStay DEF Web!Next, Web!Step
<1>11. QED
  BY <1>10 DEF Goal

LEMMA StreamTypes ==
  ASSUME Web!TypeOK, Web!IdsAreFew, Web!SubsMatch, Web!Next
  PROVE  /\ subs' \in [WebChats -> SUBSET Streams]
         /\ stream' \in [Streams -> Web!Open \cup {Web!Closed}]
<1> DEFINE Goal == /\ subs' \in [WebChats -> SUBSET Streams]
                   /\ stream' \in [Streams -> Web!Open \cup {Web!Closed}]
<1>0. /\ subs \in [WebChats -> SUBSET Streams]
      /\ stream \in [Streams -> Web!Open \cup {Web!Closed}]
  BY DEF Web!TypeOK
<1>1. ASSUME NEW t \in Web!Tasks, Web!AssignId(t) PROVE Goal
  <2>1. /\ subs' = subs /\ task[t].token \in Web!Tokens /\ task[t].chat \in WebChats
        /\ stream' = stream \/ Web!Publish(task[t].chat, task[t].token)
    BY <1>1, PublishStep
  <2>2. ASSUME Web!Publish(task[t].chat, task[t].token)
        PROVE  stream' \in [Streams -> Web!Open \cup {Web!Closed}]
    <3>1. ASSUME NEW q \in Streams PROVE stream'[q] \in Web!Open \cup {Web!Closed}
      <4>1. CASE stream[q] \in Web!Open
        BY <2>1, <2>2, <4>1, PublishFacts
      <4>2. CASE stream[q] = Web!Closed
        <5>1. q \notin subs[task[t].chat]
          BY <2>1, <4>2, TasksAreFinite DEF Web!SubsMatch, Web!Closed
        <5>2. QED
          BY <2>1, <2>2, <4>2, <5>1, PublishFacts
      <4>3. QED
        BY <1>0, <4>1, <4>2
    <3>2. stream' = [q \in Streams |-> stream'[q]]
      BY <2>2 DEF Web!Publish
    <3>3. QED
      BY <3>1, <3>2
  <2>3. QED
    BY <1>0, <2>1, <2>2
<1>2. ASSUME NEW p \in Streams, Web!History(p) PROVE Goal
  <2>1. /\ subs' = subs /\ stream'[p] \in Web!Open
        /\ \A q \in Streams : q # p => stream'[q] = stream[q]
    BY <1>2, HistoryFacts
  <2>2. stream' = [q \in Streams |-> stream'[q]]
    BY <1>0, <1>2 DEF Web!History
  <2>3. QED
    BY <1>0, <2>1, <2>2
<1>3. ASSUME NEW p \in Streams, Web!Unsubscribe(p) PROVE Goal
  <2>1. /\ subs' = [subs EXCEPT ![stream[p].chat] = @ \ {p}]
        /\ stream' = [stream EXCEPT ![p] = Web!Closed]
    BY <1>3 DEF Web!Unsubscribe
  <2>2. QED
    BY <1>0, <2>1
<1>4. ASSUME NEW p \in Streams, NEW c \in WebChats, Web!Subscribe(p, c) PROVE Goal
  <2>1. /\ subs' = [subs EXCEPT ![c] = @ \cup {p}]
        /\ \A q \in Streams : q # p => stream'[q] = stream[q]
        /\ stream'[p] \in [chat : WebChats, caughtUp : BOOLEAN, seen : SUBSET Web!Tokens,
                           early : {stream'[p].early}]
        /\ stream'[p].early =
               {task[t].token : t \in {s \in Sends : task[s].pc = "record" /\ task[s].chat = c}}
    BY <1>4, SubscribeFacts
  <2>2. \A s \in Sends : task[s].pc = "record" => task[s].token \in Web!Tokens
    BY TaskFacts, TaskFields DEF Web!Tasks
  <2>3. stream'[p].early \subseteq Web!Tokens
    BY <2>1, <2>2
  <2>4. stream'[p] \in Web!Open
    BY <2>1, <2>3 DEF Web!Open
  <2>5. stream' = [q \in Streams |-> stream'[q]]
    BY <1>0, <1>4 DEF Web!Subscribe
  <2>6. QED
    BY <1>0, <2>1, <2>4, <2>5
<1>5. ASSUME Web!Die PROVE Goal
  BY <1>5 DEF Web!Die
<1>6. ASSUME subs' = subs, stream' = stream PROVE Goal
  BY <1>0, <1>6
<1> HIDE DEF Goal
<1>7. Goal
  BY <1>1, <1>2, <1>3, <1>4, <1>5, <1>6, StreamsStay DEF Web!Next, Web!Step
<1>8. QED
  BY <1>7 DEF Goal

LEMMA LogTypes ==
  ASSUME Web!TypeOK, Web!Next
  PROVE  users' \subseteq WebChats /\ submitted' \subseteq Web!Tokens /\ raced' \subseteq Web!Tokens
<1> DEFINE Goal == /\ users' \subseteq WebChats /\ submitted' \subseteq Web!Tokens
                   /\ raced' \subseteq Web!Tokens
<1>0. users \subseteq WebChats /\ submitted \subseteq Web!Tokens /\ raced \subseteq Web!Tokens
  BY DEF Web!TypeOK
<1>1. ASSUME NEW t \in Web!Tasks, Web!UpsertUser(t) PROVE Goal
  <2>1. task[t] \in Web!TaskStates
    BY <1>1, UpsertFacts DEF Ends, Goes
  <2>2. submitted' = submitted
    BY <1>1 DEF Web!UpsertUser
  <2>3. QED
    BY <1>0, <1>1, <2>1, <2>2, UpsertFacts, TaskFields
<1>2. ASSUME NEW t \in Web!Tasks, Web!Submit(t) PROVE Goal
  <2>1. task[t] \in Web!TaskStates /\ submitted' = submitted \cup {task[t].token}
    BY <1>2, SubmitFacts DEF Ends
  <2>2. users' = users /\ raced' = raced
    BY <1>2 DEF Web!Submit, Web!db, Web!history
  <2>3. QED
    BY <1>0, <2>1, <2>2, TaskFields
<1>3. ASSUME Web!Boot PROVE Goal
  <2>1. /\ submitted' = submitted \cup {r.token : r \in {x \in table : ~x.out}}
        /\ users' = users /\ raced' = raced
    BY <1>3 DEF Web!Boot, Web!db, Web!history
  <2>2. QED
    BY <1>0, <2>1, RowsOfTable
<1>4. ASSUME users' = users, submitted' = submitted, raced' = raced PROVE Goal
  BY <1>0, <1>4
<1>5. ASSUME NEW t, \/ Web!OverLimit(t) \/ Web!LoadIds(t) \/ Web!AssignId(t)
                    \/ Web!InsertMessage(t) \/ Web!ReadUser(t) \/ Web!RecordOutbound(t)
      PROVE  users' = users /\ submitted' = submitted /\ raced' = raced
  BY <1>5 DEF Web!OverLimit, Web!LoadIds, Web!AssignId, Web!InsertMessage, Web!ReadUser,
              Web!RecordOutbound, Web!db, Web!history
<1>6. ASSUME NEW t, NEW c, NEW recorded, Web!Post(t, c) \/ Web!Send(t, c, recorded)
      PROVE  users' = users /\ submitted' = submitted /\ raced' = raced
  BY <1>6 DEF Web!Post, Web!Send, Web!db, Web!history
<1>7. ASSUME NEW q, \/ Web!History(q) \/ Web!Unsubscribe(q) \/ \E c \in WebChats : Web!Subscribe(q, c)
      PROVE  users' = users /\ submitted' = submitted /\ raced' = raced
  BY <1>7 DEF Web!History, Web!Unsubscribe, Web!Subscribe, Web!db, Web!history
<1>8. ASSUME Web!Tick \/ Web!Die PROVE users' = users /\ submitted' = submitted /\ raced' = raced
  BY <1>8 DEF Web!Tick, Web!Die, Web!db, Web!history
<1> HIDE DEF Goal
<1>9. Goal
  BY <1>1, <1>2, <1>3, <1>4, <1>5, <1>6, <1>7, <1>8 DEF Web!Next, Web!Step
<1>10. QED
  BY <1>9 DEF Goal

LEMMA WebTypes ==
  ASSUME Web!TypeOK, Web!IdsAreFew, Web!IdsAreBelow, Web!LoadsAreLocked, Web!SubsMatch,
         Web!Next
  PROVE  Web!TypeOK'
<1>1. Web!IsTable(quota', WebChats \X (0 .. clock')) <=> Web!IsTable(quota, WebChats \X (0 .. clock))'
  OBVIOUS
<1>2. QED
  BY <1>1, ClockAfter, TaskTypes, HubTypes, RowTypes, QuotaTypes, StreamTypes, LogTypes
  DEF Web!TypeOK

-----------------------------------------------------------------------------
(* The inductive invariant of the web channel, and of the composition *)

LEMMA WebInitially ==
  ASSUME Web!Init
  PROVE  Web!IInv
<1>1. \A t \in Web!Tasks : task[t] = Web!Rest /\ task[t].pc = "rest"
  BY DEF Web!Init, Web!Rest
<1>2. table = {} /\ stored = {} /\ messages = 0 /\ DOMAIN quota = {}
  BY DEF Web!Init, Web!NoRows
<1>3. Web!Waiting = {} /\ Web!Inserting = {}
  BY <1>1 DEF Web!Waiting, Web!Inserting
<1>4. \A q \in Streams : stream[q] = Web!Closed /\ stream[q].chat = "none" /\ ~stream[q].caughtUp
  BY DEF Web!Init, Web!Closed
<1>5. Web!TypeOK
  <2>1. Web!IsTable(quota, WebChats \X (0 .. clock))
    <3>1. DOMAIN quota = {} /\ quota = [k \in {} |-> [count |-> 0, notified |-> FALSE]]
      BY DEF Web!Init, Web!NoRows
    <3>2. QED
      BY <3>1 DEF Web!IsTable
  <2>2. QED
    BY <2>1, TasksAreFinite DEF Web!TypeOK, Web!Init, Web!Unloaded, Web!Free, Web!Tasks
<1>6. Web!TasksKeepKind
  BY <1>1 DEF Web!TasksKeepKind
<1>7. Web!TokensApart
  BY <1>1, <1>2, <1>3 DEF Web!TokensApart
<1>8. Web!IdsAreFew
  <2>1. Given = 0
    BY <1>2, <1>3, FS_EmptySet DEF Given
  <2>2. \A c \in WebChats : lastIds[c] = 0
    BY DEF Web!Init, Web!Unloaded
  <2>3. QED
    BY <1>1, <1>2, <2>1, <2>2, FewIds
<1>9. Web!IdsAreBelow /\ Web!LoadsAreLocked /\ Web!IdsIdentify
  BY <1>1, <1>2, <1>3 DEF Web!IdsAreBelow, Web!LoadsAreLocked, Web!IdsIdentify, Web!At
<1>10. Web!QuotaCounts /\ Web!LimitHolds
  <2>1. \A k \in Web!Keys : passed[k] = 0 /\ notices[k] = 0
    BY DEF Web!Init
  <2>2. QED
    BY <1>2, <2>1, TasksAreFinite DEF Web!QuotaCounts, Web!LimitHolds
<1>11. Web!SubsMatch /\ Web!PublishedIsSeen
  <2>1. \A c \in WebChats : subs[c] = {}
    BY DEF Web!Init
  <2>2. QED
    BY <1>1, <1>4, <2>1, TasksAreFinite DEF Web!SubsMatch, Web!PublishedIsSeen, Web!At
<1>12. Web!PostsReachEngine /\ Web!CaughtUp
  BY <1>2, <1>4 DEF Web!PostsReachEngine, Web!CaughtUp
<1>13. QED
  BY <1>5, <1>6, <1>7, <1>8, <1>9, <1>10, <1>11, <1>12 DEF Web!IInv

LEMMA WebKeeps ==
  ASSUME Web!IInv, Web!Next
  PROVE  Web!IInv'
<1>0. /\ Web!TypeOK /\ Web!TasksKeepKind /\ Web!TokensApart /\ Web!IdsAreFew /\ Web!IdsAreBelow
      /\ Web!LoadsAreLocked /\ Web!QuotaCounts /\ Web!SubsMatch /\ Web!PublishedIsSeen
      /\ Web!IdsIdentify /\ Web!LimitHolds /\ Web!PostsReachEngine /\ Web!CaughtUp
  BY DEF Web!IInv
<1>1. Web!TypeOK'
  BY <1>0, WebTypes
<1>2. Web!TasksKeepKind'
  BY <1>0, KindStep
<1>3. Web!TokensApart'
  BY <1>0, TokensStep
<1>4. Web!IdsAreFew'
  BY <1>0, FewStep
<1>5. Web!IdsAreBelow' /\ Web!IdsIdentify'
  BY <1>0, BelowStep
<1>6. Web!LoadsAreLocked'
  BY <1>0, LocksStep
<1>7. Web!QuotaCounts' /\ Web!LimitHolds'
  BY <1>0, QuotaStep
<1>8. Web!SubsMatch'
  BY <1>0, SubsStep
<1>9. Web!PublishedIsSeen'
  BY <1>0, <1>2, PublishedStep
<1>10. Web!PostsReachEngine'
  BY <1>0, ReachStep
<1>11. Web!CaughtUp'
  BY <1>0, CaughtUpStep
<1>12. QED
  BY <1>1, <1>2, <1>3, <1>4, <1>5, <1>6, <1>7, <1>8, <1>9, <1>10, <1>11 DEF Web!IInv

LEMMA WebRests ==
  ASSUME Web!IInv, UNCHANGED webVars
  PROVE  Web!IInv'
<1>1. Web!TypeOK' /\ Web!TasksKeepKind'
  BY DEF webVars, Web!IInv, Web!TypeOK, Web!TasksKeepKind, Web!Tasks, Web!TaskStates, Web!Rest,
         Web!Free, Web!Row, Web!Open, Web!Closed, Web!Keys, Web!IsTable
<1>2. Web!TokensApart' /\ Web!IdsAreFew' /\ Web!IdsAreBelow' /\ Web!LoadsAreLocked'
  BY SameCardinality
  DEF webVars, Web!IInv, Web!TokensApart, Web!IdsAreFew, Web!IdsAreBelow, Web!LoadsAreLocked,
      Web!Waiting, Web!Inserting, Web!At
<1>3. Web!QuotaCounts' /\ Web!SubsMatch' /\ Web!PublishedIsSeen' /\ Web!IdsIdentify'
  BY DEF webVars, Web!IInv, Web!QuotaCounts, Web!SubsMatch, Web!PublishedIsSeen,
         Web!IdsIdentify, Web!Inserting, Web!At
<1>4. Web!LimitHolds' /\ Web!PostsReachEngine' /\ Web!CaughtUp'
  BY DEF webVars, Web!IInv, Web!LimitHolds, Web!PostsReachEngine, Web!CaughtUp
<1>5. QED
  BY <1>1, <1>2, <1>3, <1>4 DEF Web!IInv

\* The inductive invariant of the composition holds whichever part a behaviour is of.
LEMMA Invariance == Spec => []IInv
<1>1. Init => IInv
  BY InInitially, WebInitially DEF Init, IInv
<1>2. IInv /\ [Next]_vars => IInv'
  <2>1. ASSUME IInv, Next PROVE IInv'
    <3>1. CASE part = "inbound" /\ In!Next /\ OnlyInbound
      BY <2>1, <3>1, InKeeps DEF IInv, OnlyInbound
    <3>2. CASE part = "web" /\ Web!Next /\ OnlyWeb
      BY <2>1, <3>2, WebKeeps DEF IInv, OnlyWeb
    <3>3. QED
      BY <2>1, <3>1, <3>2, OnePartMoves
  <2>2. ASSUME IInv, UNCHANGED vars PROVE IInv'
    BY <2>2, InRests, WebRests DEF IInv, vars
  <2>3. QED
    BY <2>1, <2>2
<1>3. QED
  BY <1>1, <1>2, PTL DEF Spec

\* Every variable keeps its type in both ways in: ids and tokens stay within what the hub
\* can give, the limiter's rows within the buckets that have begun.
THEOREM MessagesTypes == Spec => []TypeOK
<1>1. IInv => TypeOK
  BY DEF IInv, TypeOK, In!IInv, Web!IInv
<1>2. QED
  BY <1>1, Invariance, PTL

\* No web message is written over another's row, and no two on their way to the table have
\* one id: next_message_id, loading the highest stored id under its lock, gives a new one
\* for any number of posts and sends at once, and after every death.
THEOREM IdsNameMessages == Spec => []IdsIdentify
<1>1. IInv => IdsIdentify
  BY DEF IInv, IdsIdentify, Web!IInv
<1>2. QED
  BY <1>1, Invariance, PTL

\* The limiter lets no more posts through than the limit and tells one caller: counting is
\* one statement, and pruning only removes buckets that have passed.
THEOREM LimitKept == Spec => []LimitHolds
<1>1. IInv => LimitHolds
  BY DEF IInv, LimitHolds, Web!IInv
<1>2. QED
  BY <1>1, Invariance, PTL

\* While the process is up, what a web user posted and the table holds was submitted, is
\* still in its request, or failed on the users table.
THEOREM PostsArrive == Spec => []PostsReachEngine
<1>1. IInv => PostsReachEngine
  BY DEF IInv, PostsReachEngine, Web!IInv
<1>2. QED
  BY <1>1, Invariance, PTL

\* A client that opens its stream before it reads the history misses no message of the bot
\* but those published before and stored after.
THEOREM ClientsCatchUp == Spec => []CaughtUp
<1>1. IInv => CaughtUp
  BY DEF IInv, CaughtUp, Web!IInv
<1>2. QED
  BY <1>1, Invariance, PTL
================================================================================
