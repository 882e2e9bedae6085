--------------------------- MODULE Reminders_proofs ----------------------------
(***************************************************************************)
(* The invariants of Reminders hold of every reachable state, whatever the *)
(* declared reminders and the bounds.  First what each statement on the    *)
(* table does to it, then one lemma per part of the inductive invariant,   *)
(* each with a step per action that can disturb that part.                 *)
(***************************************************************************)
EXTENDS Reminders, TLAPS

Statuses == {"pending", "processing", "sent", "cancelled"}
Places == {"scheduler", "buffer", "turn", "firing"}

(* Statements on the table *)

\* Updating one element of a sequence keeps its type, length and other elements.
LEMMA SeqUpdate ==
    ASSUME NEW S, NEW s \in Seq(S), NEW i \in DOMAIN s, NEW v \in S
    PROVE  /\ [s EXCEPT ![i] = v] \in Seq(S)
           /\ Len([s EXCEPT ![i] = v]) = Len(s)
           /\ DOMAIN [s EXCEPT ![i] = v] = DOMAIN s
           /\ [s EXCEPT ![i] = v][i] = v
           /\ \A j \in DOMAIN s : j # i => [s EXCEPT ![i] = v][j] = s[j]
OBVIOUS

\* A sequence mapped element by element is a sequence of the same length.
LEMMA SeqMap ==
    ASSUME NEW S, NEW s \in Seq(S), NEW f \in [DOMAIN s -> S]
    PROVE  f \in Seq(S) /\ Len(f) = Len(s) /\ DOMAIN f = DOMAIN s
<1>1. DOMAIN s = 1..Len(s) /\ Len(s) \in Nat  OBVIOUS
<1>2. f \in [1..Len(s) -> S]  BY <1>1
<1> QED  BY <1>1, <1>2

\* Appending keeps the elements and adds one at the end.
LEMMA SeqAppend ==
    ASSUME NEW S, NEW s \in Seq(S), NEW v \in S
    PROVE  /\ Append(s, v) \in Seq(S)
           /\ Len(Append(s, v)) = Len(s) + 1
           /\ DOMAIN Append(s, v) = DOMAIN s \cup {Len(s) + 1}
           /\ Len(s) + 1 \notin DOMAIN s
           /\ Append(s, v)[Len(s) + 1] = v
           /\ \A j \in DOMAIN s : Append(s, v)[j] = s[j]
OBVIOUS

\* An UPDATE of one row's status (and perhaps of its trigger).
LEMMA UpdateEffect ==
    ASSUME TypeOK, NEW i \in Ids, NEW r \in Row, rows' = [rows EXCEPT ![i] = r]
    PROVE  /\ rows' \in Seq(Row) /\ Len(rows') = Len(rows) /\ Ids' = Ids
           /\ rows'[i] = r
           /\ \A j \in Ids : j # i => rows'[j] = rows[j]
BY SeqUpdate DEF TypeOK, Ids

\* An INSERT.
LEMMA InsertEffect ==
    ASSUME TypeOK, NEW k \in AutoKeys \cup {User}, NEW cron \in BOOLEAN, Insert(k, cron)
    PROVE  /\ rows' \in Seq(Row) /\ fires' \in Seq(Nat) /\ Len(fires') = Len(rows')
           /\ Ids' = Ids \cup {Len(rows) + 1} /\ Len(rows) + 1 \notin Ids
           /\ rows'[Len(rows) + 1] = [key |-> k, cron |-> cron, status |-> "pending", due |-> FALSE]
           /\ \A j \in Ids : rows'[j] = rows[j]
<1> DEFINE r == [key |-> k, cron |-> cron, status |-> "pending", due |-> FALSE]
<1>1. r \in Row  BY DEF Row
<1>2. rows \in Seq(Row) /\ fires \in Seq(Nat) /\ Len(fires) = Len(rows)  BY DEF TypeOK
<1>3. rows' = Append(rows, r) /\ fires' = Append(fires, 0)  BY DEF Insert
<1> HIDE DEF r
<1>4. fires' \in Seq(Nat) /\ Len(fires') = Len(fires) + 1  BY <1>2, <1>3, SeqAppend, 0 \in Nat
<1>5. /\ rows' \in Seq(Row) /\ Len(rows') = Len(rows) + 1
      /\ DOMAIN rows' = DOMAIN rows \cup {Len(rows) + 1} /\ Len(rows) + 1 \notin DOMAIN rows
      /\ rows'[Len(rows) + 1] = r /\ \A j \in DOMAIN rows : rows'[j] = rows[j]
    BY <1>1, <1>2, <1>3, SeqAppend
<1> QED  BY <1>2, <1>4, <1>5 DEF Ids, r

\* An UPDATE that gives the rows with some condition another status.
LEMMA UpdateAllEffect ==
    ASSUME TypeOK, NEW I, NEW s \in Statuses,
           rows' = [i \in Ids |-> IF i \in I THEN [rows[i] EXCEPT !.status = s] ELSE rows[i]]
    PROVE  /\ rows' \in Seq(Row) /\ Len(rows') = Len(rows) /\ Ids' = Ids
           /\ \A j \in Ids : IF j \in I THEN rows'[j] = [rows[j] EXCEPT !.status = s]
                                          ELSE rows'[j] = rows[j]
<1>1. rows \in Seq(Row) /\ \A i \in Ids : rows[i] \in Row  BY DEF TypeOK, Ids
<1>2. ASSUME NEW i \in Ids  PROVE rows'[i] \in Row
    BY <1>1, rows[i] \in Row DEF Row, Statuses
<1>3. rows' \in [DOMAIN rows -> Row]  BY <1>1, <1>2 DEF Ids
<1> HIDE DEF Row, Statuses
<1> QED  BY <1>1, <1>3, SeqMap DEF Ids

\* What each action does to the table, in terms of the statements above.
LEMMA ResetStuckEffect ==
    ASSUME TypeOK, ResetStuck
    PROVE  /\ rows' \in Seq(Row) /\ Len(rows') = Len(rows) /\ Ids' = Ids
           /\ \A j \in Ids : IF rows[j].status = "processing"
                              THEN rows'[j] = [rows[j] EXCEPT !.status = "pending"]
                              ELSE rows'[j] = rows[j]
<1> DEFINE I == {i \in Ids : rows[i].status = "processing"}
<1>1. rows' = [i \in Ids |-> IF i \in I THEN [rows[i] EXCEPT !.status = "pending"]
                                        ELSE rows[i]]
    BY DEF ResetStuck
<1>2. "pending" \in Statuses  BY DEF Statuses
<1> HIDE DEF I
<1>3. /\ rows' \in Seq(Row) /\ Len(rows') = Len(rows) /\ Ids' = Ids
      /\ \A j \in Ids : IF j \in I THEN rows'[j] = [rows[j] EXCEPT !.status = "pending"]
                                     ELSE rows'[j] = rows[j]
    BY <1>1, <1>2, UpdateAllEffect
<1> QED  BY <1>3 DEF I

\* cancel_auto_seeded: the pending rows of one key are cancelled, nothing else.
LEMMA CancelKeyEffect ==
    ASSUME TypeOK, NEW k, CancelKey(k)
    PROVE  /\ rows' \in Seq(Row) /\ Len(rows') = Len(rows) /\ Ids' = Ids
           /\ \A j \in Ids : IF rows[j].key = k /\ rows[j].status = "pending"
                              THEN rows'[j] = [rows[j] EXCEPT !.status = "cancelled"]
                              ELSE rows'[j] = rows[j]
<1>1. rows' = [i \in Ids |-> IF i \in Pending(k)
                             THEN [rows[i] EXCEPT !.status = "cancelled"] ELSE rows[i]]
    BY DEF CancelKey
<1>2. "cancelled" \in Statuses  BY DEF Statuses
<1>3. /\ rows' \in Seq(Row) /\ Len(rows') = Len(rows) /\ Ids' = Ids
      /\ \A j \in Ids : IF j \in Pending(k)
                         THEN rows'[j] = [rows[j] EXCEPT !.status = "cancelled"]
                         ELSE rows'[j] = rows[j]
    BY <1>1, <1>2, UpdateAllEffect
<1> QED  BY <1>3 DEF Pending

\* Setting the status of one row leaves its other fields alone.
LEMMA SetStatusEffect ==
    ASSUME TypeOK, NEW i \in Ids, NEW s \in Statuses, SetStatus(i, s)
    PROVE  /\ rows' \in Seq(Row) /\ Len(rows') = Len(rows) /\ Ids' = Ids
           /\ rows'[i] = [rows[i] EXCEPT !.status = s]
           /\ \A j \in Ids : j # i => rows'[j] = rows[j]
<1>1. rows[i] \in Row  BY DEF TypeOK, Ids
<1>2. [rows[i] EXCEPT !.status = s] \in Row  BY <1>1 DEF Row, Statuses
<1> QED  BY <1>2, UpdateEffect DEF SetStatus

\* A hook leaves a row as it is, or in a status that is not "processing".
LEMMA RunHookEffect ==
    ASSUME TypeOK, NEW c \in hooks, RunHook(c)
    PROVE  /\ rows' \in Seq(Row) /\ Len(rows') = Len(rows) /\ Ids' = Ids
           /\ c.row \in Ids
           /\ \A j \in Ids : j # c.row => rows'[j] = rows[j]
           /\ rows'[c.row].key = rows[c.row].key /\ rows'[c.row].cron = rows[c.row].cron
           /\ rows'[c.row].status # "processing"
           /\ rows[c.row].cron /\ Active(c.row) => rows'[c.row].status = "pending"
<1>1. c.row \in Ids /\ rows[c.row] \in Row  BY DEF TypeOK, Ids
<1>2. CASE control = "success" /\ rows[c.row].cron
  <2> DEFINE r == [rows[c.row] EXCEPT !.status = "pending", !.due = FALSE]
  <2>1. rows' = [rows EXCEPT ![c.row] = r]  BY <1>2 DEF RunHook, OnSuccess
  <2>2. /\ r \in Row /\ r.status = "pending" /\ r.key = rows[c.row].key
        /\ r.cron = rows[c.row].cron
    BY <1>1 DEF Row
  <2> HIDE DEF r
  <2> QED  BY <1>1, <2>1, <2>2, UpdateEffect DEF Ids
<1>3. CASE control = "success" /\ ~rows[c.row].cron
  <2>1. SetStatus(c.row, "sent") /\ "sent" \in Statuses
    BY <1>3 DEF RunHook, OnSuccess, Statuses
  <2>2. /\ rows' \in Seq(Row) /\ Len(rows') = Len(rows) /\ Ids' = Ids
        /\ rows'[c.row] = [rows[c.row] EXCEPT !.status = "sent"]
        /\ \A j \in Ids : j # c.row => rows'[j] = rows[j]
    BY <1>1, <2>1, SetStatusEffect
  <2>3. /\ rows'[c.row].key = rows[c.row].key /\ rows'[c.row].cron = rows[c.row].cron
        /\ rows'[c.row].status = "sent"
    BY <1>1, <2>2 DEF Row
  <2> QED  BY <1>1, <1>3, <2>2, <2>3
<1>4. CASE control # "success" /\ rows[c.row].status = "processing"
  <2>1. SetStatus(c.row, "pending") /\ "pending" \in Statuses
    BY <1>4 DEF RunHook, OnFailure, Statuses
  <2>2. /\ rows' \in Seq(Row) /\ Len(rows') = Len(rows) /\ Ids' = Ids
        /\ rows'[c.row] = [rows[c.row] EXCEPT !.status = "pending"]
        /\ \A j \in Ids : j # c.row => rows'[j] = rows[j]
    BY <1>1, <2>1, SetStatusEffect
  <2>3. /\ rows'[c.row].key = rows[c.row].key /\ rows'[c.row].cron = rows[c.row].cron
        /\ rows'[c.row].status = "pending"
    BY <1>1, <2>2 DEF Row
  <2> QED  BY <1>1, <2>2, <2>3
<1>5. CASE control # "success" /\ rows[c.row].status # "processing"
  <2>1. UNCHANGED rows  BY <1>5 DEF RunHook, OnFailure
  <2> QED  BY <1>1, <1>5, <2>1 DEF TypeOK, Ids, Active
<1> QED  BY <1>2, <1>3, <1>4, <1>5

(* Claims *)

Claims == [row : Ids, n : Nat, lost : BOOLEAN, at : Places]

\* The claims in memory have the type of claims.
LEMMA HooksType == ASSUME TypeOK PROVE hooks \subseteq Claims
BY DEF TypeOK, Claims, Places

\* Moving claims keeps their type.
LEMMA MoveType ==
    ASSUME TypeOK, NEW from, NEW to \in Places
    PROVE  Move(from, to) \subseteq Claims
<1> SUFFICES ASSUME NEW d \in Move(from, to) PROVE d \in Claims
  OBVIOUS
<1>1. PICK c \in hooks : d = IF c.at = from THEN [c EXCEPT !.at = to] ELSE c
  BY DEF Move
<1>2. c \in Claims  BY HooksType
<1> QED  BY <1>1, <1>2 DEF Claims

\* Marking claims as lost keeps their type.
LEMMA LostType ==
    ASSUME TypeOK
    PROVE  {[c EXCEPT !.lost = @ \/ c.at = "turn"] : c \in hooks} \subseteq Claims
<1> SUFFICES ASSUME NEW c \in hooks PROVE [c EXCEPT !.lost = @ \/ c.at = "turn"] \in Claims
  OBVIOUS
<1>1. c \in Claims  BY HooksType
<1>2. (c.lost \/ c.at = "turn") \in BOOLEAN  OBVIOUS
<1> QED  BY <1>1, <1>2 DEF Claims

--------------------------------------------------------------------------------
(* Types *)

\* Every step keeps the types.
LEMMA TypeStep == ASSUME TypeOK, [Next]_vars PROVE TypeOK'
<1>1. ASSUME ResetStuck
      PROVE  TypeOK'
  <2>1. rows' \in Seq(Row) /\ Len(rows') = Len(rows) /\ Ids' = Ids
    BY <1>1, ResetStuckEffect
  <2> QED  BY <1>1, <2>1 DEF TypeOK, ResetStuck
<1>2. ASSUME SeedSelf
      PROVE  TypeOK'
  <2>1. CASE CancelKey(Self) /\ UNCHANGED fires
    <3>1. rows' \in Seq(Row) /\ Len(rows') = Len(rows) /\ Ids' = Ids
      BY <2>1, CancelKeyEffect
    <3> QED  BY <1>2, <2>1, <3>1 DEF TypeOK, SeedSelf
  <2>2. CASE UNCHANGED <<rows, fires>>
    BY <1>2, <2>2 DEF TypeOK, Ids, SeedSelf
  <2>3. CASE Insert(Self, TRUE)
    <3>1. Self \in AutoKeys \cup {User} /\ TRUE \in BOOLEAN  BY DEF AutoKeys
    <3>2. /\ rows' \in Seq(Row) /\ fires' \in Seq(Nat) /\ Len(fires') = Len(rows')
          /\ Ids' = Ids \cup {Len(rows) + 1}
      BY <2>3, <3>1, InsertEffect
    <3> QED  BY <1>2, <3>2 DEF TypeOK, SeedSelf
  <2> QED  BY <1>2, <2>1, <2>2, <2>3 DEF SeedSelf
<1>3. ASSUME NEW k \in Committed, CancelStale(k)
      PROVE  TypeOK'
  <2>1. rows' \in Seq(Row) /\ Len(rows') = Len(rows) /\ Ids' = Ids
    BY <1>3, CancelKeyEffect DEF CancelStale
  <2> QED  BY <1>3, <2>1 DEF TypeOK, CancelStale
<1>4. ASSUME NEW k \in Committed, InsertMissing(k)
      PROVE  TypeOK'
  <2>1. k \in AutoKeys \cup {User} /\ TRUE \in BOOLEAN /\ Insert(k, TRUE)
    BY <1>4 DEF AutoKeys, InsertMissing
  <2>2. /\ rows' \in Seq(Row) /\ fires' \in Seq(Nat) /\ Len(fires') = Len(rows')
        /\ Ids' = Ids \cup {Len(rows) + 1}
    BY <2>1, InsertEffect
  <2> QED  BY <1>4, <2>2 DEF TypeOK, InsertMissing
<1>5. ASSUME GoLive
      PROVE  TypeOK'
    BY <1>5 DEF TypeOK, Ids, GoLive
<1>6. ASSUME NEW i \in Ids, ComesDue(i)
      PROVE  TypeOK'
  <2> DEFINE r == [rows[i] EXCEPT !.due = TRUE]
  <2>0. rows[i] \in Row  BY <1>6 DEF TypeOK, Ids
  <2>1. r \in Row /\ rows' = [rows EXCEPT ![i] = r]  BY <1>6, <2>0 DEF Row, ComesDue
  <2> HIDE DEF r
  <2>2. rows' \in Seq(Row) /\ Len(rows') = Len(rows) /\ Ids' = Ids
    BY <1>6, <2>1, UpdateEffect
  <2> QED  BY <1>6, <2>2 DEF TypeOK, ComesDue
<1>7. ASSUME NEW cron \in BOOLEAN, SetReminder(cron)
      PROVE  TypeOK'
  <2>1. User \in AutoKeys \cup {User} /\ cron \in BOOLEAN /\ Insert(User, cron)
    BY <1>7 DEF AutoKeys, SetReminder
  <2>2. /\ rows' \in Seq(Row) /\ fires' \in Seq(Nat) /\ Len(fires') = Len(rows')
        /\ Ids' = Ids \cup {Len(rows) + 1}
    BY <2>1, InsertEffect
  <2> QED  BY <1>7, <2>2 DEF TypeOK, SetReminder
<1>8. ASSUME NEW i \in Ids, CancelReminder(i)
      PROVE  TypeOK'
  <2>1. SetStatus(i, "cancelled") /\ "cancelled" \in Statuses
    BY <1>8 DEF CancelReminder, Statuses
  <2>2. rows' \in Seq(Row) /\ Len(rows') = Len(rows) /\ Ids' = Ids
    BY <1>8, <2>1, SetStatusEffect
  <2> QED  BY <1>8, <2>2 DEF TypeOK, CancelReminder
<1>9. ASSUME Poll
      PROVE  TypeOK'
    BY <1>9 DEF TypeOK, Ids, Poll
<1>10. ASSUME NEW i \in polled, Claim(i)
      PROVE  TypeOK'
  <2>0. i \in Ids /\ Ids = DOMAIN fires /\ fires[i] \in Nat /\ fires[i] + 1 \in Nat
    BY <1>10 DEF TypeOK, Ids
  <2>1. CASE rows[i].status = "pending"
    <3>1. SetStatus(i, "processing") /\ "processing" \in Statuses
      BY <1>10, <2>1 DEF Claim, ClaimWon, Statuses
    <3>2. rows' \in Seq(Row) /\ Len(rows') = Len(rows) /\ Ids' = Ids
      BY <2>0, <3>1, SetStatusEffect
    <3>3. fires' \in Seq(Nat) /\ Len(fires') = Len(fires)
      <4>1. fires' = [fires EXCEPT ![i] = fires[i] + 1]  BY <1>10, <2>1 DEF Claim, ClaimWon
      <4>2. fires \in Seq(Nat)  BY DEF TypeOK
      <4> QED  BY <2>0, <4>1, <4>2, SeqUpdate
    <3>4. hooks' = hooks \cup {[row |-> i, n |-> fires[i] + 1, at |-> "scheduler",
                                lost |-> FALSE]}
      BY <1>10, <2>1 DEF Claim, ClaimWon
    <3>5. hooks' \subseteq Claims
      <4>1. [row |-> i, n |-> fires[i] + 1, at |-> "scheduler", lost |-> FALSE] \in Claims
        BY <2>0 DEF Claims, Places
      <4> QED  BY <3>4, <4>1, HooksType
    <3>6. polled' \subseteq Ids  BY <1>10 DEF TypeOK, Claim, ClaimWon
    <3> QED  BY <1>10, <3>2, <3>3, <3>5, <3>6 DEF TypeOK, Claim, ClaimWon, Claims, Places
  <2>2. CASE rows[i].status # "pending"
    BY <1>10, <2>2 DEF TypeOK, Ids, Claim, ClaimWon
  <2> QED  BY <2>1, <2>2
<1>11. ASSUME NEW c \in hooks, NEW to \in {"buffer", "turn"}, Submit(c, to)
      PROVE  TypeOK'
    BY <1>11 DEF TypeOK, Ids, Submit
<1>12. ASSUME NEW c \in hooks, SubmitRaises(c)
      PROVE  TypeOK'
  <2>0. c.row \in Ids  BY DEF TypeOK
  <2>1. SetStatus(c.row, "pending") /\ "pending" \in Statuses
    BY <1>12 DEF SubmitRaises, Statuses
  <2>2. rows' \in Seq(Row) /\ Len(rows') = Len(rows) /\ Ids' = Ids
    BY <2>0, <2>1, SetStatusEffect
  <2>3. hooks' \subseteq [row : Ids, n : Nat, lost : BOOLEAN, at : Places]
    BY <1>12 DEF TypeOK, SubmitRaises, Places
  <2> QED  BY <1>12, <2>2, <2>3 DEF TypeOK, SubmitRaises, Fault, Places
<1>13. ASSUME NEW cs \in SUBSET hooks, TurnStarts(cs)
      PROVE  TypeOK'
    BY <1>13 DEF TypeOK, Ids, TurnStarts
<1>14. ASSUME SwitchFails
      PROVE  TypeOK'
  <2>1. hooks' \subseteq Claims  BY <1>14, MoveType DEF SwitchFails, Places
  <2>2. faults' \in Nat  BY <1>14 DEF TypeOK, SwitchFails, Fault
  <2> QED  BY <1>14, <2>1, <2>2 DEF TypeOK, Ids, SwitchFails, Claims, Places
<1>15. ASSUME CliCrashes
      PROVE  TypeOK'
  <2>1. hooks' \subseteq Claims  BY <1>15, LostType DEF CliCrashes
  <2>2. faults' \in Nat  BY <1>15 DEF TypeOK, CliCrashes, Fault
  <2> QED  BY <1>15, <2>1, <2>2 DEF TypeOK, Ids, CliCrashes, Claims, Places
<1>16. ASSUME NEW as \in {"success", "failure"}, TurnEnds(as)
      PROVE  TypeOK'
  <2>0. faults \in Nat  BY DEF TypeOK
  <2>1. faults' \in Nat
    <3>1. faults' = faults \/ faults' = faults + 1  BY <1>16 DEF TurnEnds
    <3> QED  BY <2>0, <3>1
  <2>2. control' \in {"wait", "success", "failure"} /\ turn' \in {"idle", "running", "orphaned"}
    BY <1>16 DEF TurnEnds
  <2> QED  BY <1>16, <2>1, <2>2 DEF TypeOK, Ids, TurnEnds
<1>17. ASSUME SwapHooks
      PROVE  TypeOK'
  <2>1. hooks' \subseteq Claims  BY <1>17, MoveType DEF SwapHooks, Places
  <2> QED  BY <1>17, <2>1 DEF TypeOK, Ids, SwapHooks, Claims, Places
<1>18. ASSUME NEW c \in hooks, RunHook(c)
      PROVE  TypeOK'
  <2>1. rows' \in Seq(Row) /\ Len(rows') = Len(rows) /\ Ids' = Ids
    BY <1>18, RunHookEffect
  <2> QED  BY <1>18, <2>1 DEF TypeOK, RunHook
<1>19. ASSUME Restart
      PROVE  TypeOK'
    BY <1>19 DEF TypeOK, Ids, Restart
<1>20. CASE UNCHANGED vars
    BY <1>20 DEF vars, TypeOK, Ids
<1>21. ASSUME SendRaises
      PROVE  TypeOK'
    BY <1>21 DEF TypeOK, Ids, SendRaises, Fault
<1> QED
    BY <1>1, <1>2, <1>3, <1>4, <1>5, <1>6, <1>7, <1>8, <1>9, <1>10,
       <1>11, <1>12, <1>13, <1>14, <1>15, <1>16, <1>17, <1>18, <1>19, <1>20, <1>21
    DEF Next, Startup, Tools, Scheduler, Engine

\* The clock changes no status and no key.
LEMMA ComesDueEffect ==
    ASSUME TypeOK, NEW i \in Ids, ComesDue(i)
    PROVE  /\ Ids' = Ids
           /\ \A j \in Ids : /\ rows'[j].key = rows[j].key
                             /\ rows'[j].cron = rows[j].cron
                             /\ rows'[j].status = rows[j].status
<1> DEFINE r == [rows[i] EXCEPT !.due = TRUE]
<1>1. rows[i] \in Row  BY DEF TypeOK, Ids
<1>2. /\ r \in Row /\ r.key = rows[i].key /\ r.cron = rows[i].cron
      /\ r.status = rows[i].status
  BY <1>1 DEF Row
<1>3. rows' = [rows EXCEPT ![i] = r]  BY DEF ComesDue
<1> HIDE DEF r
<1>4. Ids' = Ids /\ rows'[i] = r /\ \A j \in Ids : j # i => rows'[j] = rows[j]
  BY <1>2, <1>3, UpdateEffect
<1> QED  BY <1>2, <1>4

\* What the actions that set one row's status have in common.
LEMMA StatusEffect ==
    ASSUME TypeOK, NEW i \in Ids, NEW s \in Statuses, SetStatus(i, s)
    PROVE  /\ Ids' = Ids
           /\ rows'[i].status = s
           /\ \A j \in Ids : /\ rows'[j].key = rows[j].key
                             /\ rows'[j].cron = rows[j].cron
                             /\ j # i => rows'[j].status = rows[j].status
<1>1. rows[i] \in Row  BY DEF TypeOK, Ids
<1>2. /\ Ids' = Ids /\ rows'[i] = [rows[i] EXCEPT !.status = s]
      /\ \A j \in Ids : j # i => rows'[j] = rows[j]
  BY SetStatusEffect
<1> QED  BY <1>1, <1>2 DEF Row

\* What an UPDATE of many rows leaves alone.
LEMMA AllEffect ==
    ASSUME TypeOK, NEW s, NEW P,
           \A j \in Ids : IF j \in P THEN rows'[j] = [rows[j] EXCEPT !.status = s]
                                     ELSE rows'[j] = rows[j]
    PROVE  \A j \in Ids : /\ rows'[j].key = rows[j].key
                          /\ rows'[j].cron = rows[j].cron
                          /\ rows'[j].status = IF j \in P THEN s ELSE rows[j].status
<1> SUFFICES ASSUME NEW j \in Ids
             PROVE  /\ rows'[j].key = rows[j].key
                    /\ rows'[j].cron = rows[j].cron
                    /\ rows'[j].status = IF j \in P THEN s ELSE rows[j].status
  OBVIOUS
<1>1. rows[j] \in Row  BY DEF TypeOK, Ids
<1> QED  BY <1>1 DEF Row

\* reset_stuck_reminders, field by field: rows in processing become pending.
LEMMA ResetFields ==
    ASSUME TypeOK, ResetStuck
    PROVE  /\ Ids' = Ids
           /\ \A j \in Ids :
                /\ rows'[j].key = rows[j].key /\ rows'[j].cron = rows[j].cron
                /\ rows'[j].status = IF rows[j].status = "processing" THEN "pending"
                                                                      ELSE rows[j].status
<1> DEFINE P == {i \in Ids : rows[i].status = "processing"}
<1>1. /\ Ids' = Ids
      /\ \A j \in Ids : IF j \in P THEN rows'[j] = [rows[j] EXCEPT !.status = "pending"]
                                     ELSE rows'[j] = rows[j]
  BY ResetStuckEffect
<1>2. \A j \in Ids : j \in P <=> rows[j].status = "processing"  OBVIOUS
<1> HIDE DEF P
<1>3. \A j \in Ids : /\ rows'[j].key = rows[j].key /\ rows'[j].cron = rows[j].cron
                     /\ rows'[j].status = IF j \in P THEN "pending" ELSE rows[j].status
  BY <1>1, AllEffect
<1> QED  BY <1>1, <1>2, <1>3

\* cancel_auto_seeded, field by field.
LEMMA CancelFields ==
    ASSUME TypeOK, NEW k, CancelKey(k)
    PROVE  /\ Ids' = Ids
           /\ \A j \in Ids :
                /\ rows'[j].key = rows[j].key /\ rows'[j].cron = rows[j].cron
                /\ rows'[j].status = IF rows[j].key = k /\ rows[j].status = "pending"
                                     THEN "cancelled" ELSE rows[j].status
<1> DEFINE P == Pending(k)
<1>1. /\ Ids' = Ids
      /\ \A j \in Ids : IF j \in P THEN rows'[j] = [rows[j] EXCEPT !.status = "cancelled"]
                                     ELSE rows'[j] = rows[j]
  BY CancelKeyEffect DEF Pending
<1>2. \A j \in Ids : j \in P <=> rows[j].key = k /\ rows[j].status = "pending"
  BY DEF Pending
<1> HIDE DEF P
<1>3. \A j \in Ids : /\ rows'[j].key = rows[j].key /\ rows'[j].cron = rows[j].cron
                     /\ rows'[j].status = IF j \in P THEN "cancelled" ELSE rows[j].status
  BY <1>1, AllEffect
<1> QED  BY <1>1, <1>2, <1>3

\* An INSERT, field by field: old rows keep, the new one is pending.
LEMMA InsertFields ==
    ASSUME TypeOK, NEW k \in AutoKeys \cup {User}, NEW cron \in BOOLEAN, Insert(k, cron)
    PROVE  \E n : /\ n \notin Ids /\ Ids' = Ids \cup {n}
                  /\ rows'[n].key = k /\ rows'[n].cron = cron
                  /\ rows'[n].status = "pending"
                  /\ \A j \in Ids : rows'[j] = rows[j]
<1>1. /\ Ids' = Ids \cup {Len(rows) + 1} /\ Len(rows) + 1 \notin Ids
      /\ rows'[Len(rows) + 1] = [key |-> k, cron |-> cron, status |-> "pending", due |-> FALSE]
      /\ \A j \in Ids : rows'[j] = rows[j]
  BY InsertEffect
<1> WITNESS Len(rows) + 1
<1> QED  BY <1>1

\* The claims change hands: the same rows are held, by as many holders, and none
\* is being fired that was not, unless to says so.
Relocated(to) ==
    /\ \A d \in hooks' : \E c \in hooks : c.row = d.row /\ d.at \in {c.at, to}
    /\ \A c \in hooks : \E d \in hooks' : c.row = d.row
    /\ (\A c, d \in hooks : c.row = d.row => c = d)
           => (\A c, d \in hooks' : c.row = d.row => c = d)

\* Moving one claim keeps which rows are held, and by how many.
LEMMA MoveOne ==
    ASSUME TypeOK, NEW c \in hooks, NEW to \in Places,
           hooks' = (hooks \ {c}) \cup {[c EXCEPT !.at = to]}
    PROVE  Relocated(to)
<1> DEFINE e == [c EXCEPT !.at = to]
<1>1. c \in Claims  BY HooksType
<1>2. e.row = c.row /\ e.at = to  BY <1>1 DEF Claims
<1>3. hooks' = (hooks \ {c}) \cup {e}  OBVIOUS
<1> HIDE DEF e
<1> QED  BY <1>2, <1>3 DEF Relocated

\* The same for a set of claims.
LEMMA MoveSome ==
    ASSUME TypeOK, NEW cs \in SUBSET hooks, NEW to \in Places,
           hooks' = (hooks \ cs) \cup {[c EXCEPT !.at = to] : c \in cs}
    PROVE  Relocated(to)
<1> DEFINE F == [c \in hooks |-> [c EXCEPT !.at = to]]
<1>1. \A c \in hooks : F[c].row = c.row /\ F[c].at = to
  BY HooksType DEF Claims
<1>2. hooks' = (hooks \ cs) \cup {F[c] : c \in cs}  OBVIOUS
<1> HIDE DEF F
<1> QED  BY <1>1, <1>2 DEF Relocated

\* The same for all claims at one place.
LEMMA MoveAll ==
    ASSUME TypeOK, NEW from, NEW to \in Places, hooks' = Move(from, to)
    PROVE  Relocated(to)
<1> DEFINE F == [c \in hooks |-> IF c.at = from THEN [c EXCEPT !.at = to] ELSE c]
<1>1. \A c \in hooks : F[c].row = c.row /\ F[c].at \in {c.at, to}
  BY HooksType DEF Claims
<1>2. hooks' = {F[c] : c \in hooks}  BY DEF Move
<1> HIDE DEF F
<1> QED  BY <1>1, <1>2 DEF Relocated

\* The same for marking the claims of a crashed turn.
LEMMA MarkLost ==
    ASSUME TypeOK, CliCrashes
    PROVE  Relocated("turn")
<1> DEFINE F == [c \in hooks |-> [c EXCEPT !.lost = @ \/ c.at = "turn"]]
<1>1. \A c \in hooks : F[c].row = c.row /\ F[c].at = c.at
  BY HooksType DEF Claims
<1>2. hooks' = {F[c] : c \in hooks}  BY DEF CliCrashes
<1> HIDE DEF F
<1> QED  BY <1>1, <1>2 DEF Relocated

\* The steps of the engine that only move claims.
LEMMA RelocateSteps ==
    ASSUME TypeOK
    PROVE  /\ \A c \in hooks : \A to \in {"buffer", "turn"} : Submit(c, to) => Relocated(to)
           /\ \A c \in hooks : SubmitRaises(c) => Relocated("turn")
           /\ \A cs \in SUBSET hooks : TurnStarts(cs) => Relocated("turn")
           /\ SwitchFails => Relocated("buffer")
           /\ CliCrashes => Relocated("turn")
           /\ SwapHooks => Relocated("firing")
<1>1. ASSUME NEW c \in hooks, NEW to \in {"buffer", "turn"}, Submit(c, to)
      PROVE  Relocated(to)
  BY <1>1, MoveOne DEF Submit, Places
<1>2. ASSUME NEW c \in hooks, SubmitRaises(c) PROVE Relocated("turn")
  BY <1>2, MoveOne DEF SubmitRaises, Places
<1>3. ASSUME NEW cs \in SUBSET hooks, TurnStarts(cs) PROVE Relocated("turn")
  BY <1>3, MoveSome DEF TurnStarts, Places
<1>4. SwitchFails => Relocated("buffer")  BY MoveAll DEF SwitchFails, Places
<1>5. CliCrashes => Relocated("turn")  BY MarkLost
<1>6. SwapHooks => Relocated("firing")  BY MoveAll DEF SwapHooks, Places
<1> QED  BY <1>1, <1>2, <1>3, <1>4, <1>5, <1>6

--------------------------------------------------------------------------------
(* The parts of the invariant *)

\* The startup is alone, and no hook fires before its turn has ended.
LEMMA QuietStep ==
    ASSUME TypeOK, BootIsQuiet, FiringHasOutcome, [Next]_vars
    PROVE  BootIsQuiet' /\ FiringHasOutcome'
<1>1. ASSUME ResetStuck
      PROVE  BootIsQuiet' /\ FiringHasOutcome'
  <2>1. Ids' = Ids /\ \A j \in Ids : rows'[j].status # "processing"
    BY <1>1, ResetFields
  <2> QED  BY <1>1, <2>1 DEF BootIsQuiet, FiringHasOutcome, ResetStuck
<1>2. ASSUME SeedSelf
      PROVE  BootIsQuiet' /\ FiringHasOutcome'
  <2>1. CASE CancelKey(Self)
    <3>1. Ids' = Ids /\ \A j \in Ids : rows[j].status # "processing" => rows'[j].status # "processing"
      BY <2>1, CancelFields
    <3> QED  BY <1>2, <3>1 DEF BootIsQuiet, FiringHasOutcome, SeedSelf
  <2>2. CASE UNCHANGED <<rows, fires>>
    BY <1>2, <2>2 DEF BootIsQuiet, FiringHasOutcome, SeedSelf, Ids
  <2>3. CASE Insert(Self, TRUE)
    <3>1. Self \in AutoKeys \cup {User} /\ TRUE \in BOOLEAN  BY DEF AutoKeys
    <3>2. PICK n : /\ Ids' = Ids \cup {n} /\ rows'[n].status = "pending"
                   /\ \A j \in Ids : rows'[j] = rows[j]
      BY <2>3, <3>1, InsertFields
    <3> QED  BY <1>2, <3>2 DEF BootIsQuiet, FiringHasOutcome, SeedSelf
  <2> QED  BY <1>2, <2>1, <2>2, <2>3 DEF SeedSelf
<1>3. ASSUME NEW k \in Committed, CancelStale(k)
      PROVE  BootIsQuiet' /\ FiringHasOutcome'
  <2>1. CancelKey(k)  BY <1>3 DEF CancelStale
  <2>2. Ids' = Ids /\ \A j \in Ids : rows[j].status # "processing" => rows'[j].status # "processing"
    BY <2>1, CancelFields
  <2> QED  BY <1>3, <2>2 DEF BootIsQuiet, FiringHasOutcome, CancelStale
<1>4. ASSUME NEW k \in Committed, InsertMissing(k)
      PROVE  BootIsQuiet' /\ FiringHasOutcome'
  <2>1. k \in AutoKeys \cup {User} /\ TRUE \in BOOLEAN /\ Insert(k, TRUE)
    BY <1>4 DEF AutoKeys, InsertMissing
  <2>2. PICK n : /\ Ids' = Ids \cup {n} /\ rows'[n].status = "pending"
                 /\ \A j \in Ids : rows'[j] = rows[j]
    BY <2>1, InsertFields
  <2> QED  BY <1>4, <2>2 DEF BootIsQuiet, FiringHasOutcome, InsertMissing
<1>5. ASSUME GoLive
      PROVE  BootIsQuiet' /\ FiringHasOutcome'
    BY <1>5 DEF BootIsQuiet, FiringHasOutcome, GoLive
<1>6. ASSUME NEW i \in Ids, ComesDue(i)
      PROVE  BootIsQuiet' /\ FiringHasOutcome'
    BY <1>6 DEF BootIsQuiet, FiringHasOutcome, ComesDue
<1>7. ASSUME NEW cron \in BOOLEAN, SetReminder(cron)
      PROVE  BootIsQuiet' /\ FiringHasOutcome'
    BY <1>7 DEF BootIsQuiet, FiringHasOutcome, SetReminder
<1>8. ASSUME NEW i \in Ids, CancelReminder(i)
      PROVE  BootIsQuiet' /\ FiringHasOutcome'
    BY <1>8 DEF BootIsQuiet, FiringHasOutcome, CancelReminder
<1>9. ASSUME Poll
      PROVE  BootIsQuiet' /\ FiringHasOutcome'
    BY <1>9 DEF BootIsQuiet, FiringHasOutcome, Poll
<1>10. ASSUME NEW i \in polled, Claim(i)
      PROVE  BootIsQuiet' /\ FiringHasOutcome'
    BY <1>10 DEF BootIsQuiet, FiringHasOutcome, Claim, ClaimWon
<1>11. ASSUME NEW c \in hooks, NEW to \in {"buffer", "turn"}, Submit(c, to)
      PROVE  BootIsQuiet' /\ FiringHasOutcome'
  <2>1. boot = "run" /\ boot' = "run" /\ control' = control
    BY <1>11 DEF BootIsQuiet, Submit
  <2>2. Relocated(to)  BY <1>11, RelocateSteps
  <2>3. to # "firing"  BY <1>11
  <2> QED  BY <2>1, <2>2, <2>3 DEF BootIsQuiet, FiringHasOutcome, Relocated
<1>12. ASSUME NEW c \in hooks, SubmitRaises(c)
      PROVE  BootIsQuiet' /\ FiringHasOutcome'
  <2>1. boot = "run" /\ boot' = "run" /\ control' = control
    BY <1>12 DEF BootIsQuiet, SubmitRaises
  <2>2. Relocated("turn")  BY <1>12, RelocateSteps
  <2>3. "turn" # "firing"  BY <1>12
  <2> QED  BY <2>1, <2>2, <2>3 DEF BootIsQuiet, FiringHasOutcome, Relocated
<1>13. ASSUME NEW cs \in SUBSET hooks, TurnStarts(cs)
      PROVE  BootIsQuiet' /\ FiringHasOutcome'
  <2>1. boot = "run" /\ boot' = "run" /\ control' = control
    BY <1>13 DEF BootIsQuiet, TurnStarts
  <2>2. Relocated("turn")  BY <1>13, RelocateSteps
  <2>3. "turn" # "firing"  BY <1>13
  <2> QED  BY <2>1, <2>2, <2>3 DEF BootIsQuiet, FiringHasOutcome, Relocated
<1>14. ASSUME SwitchFails
      PROVE  BootIsQuiet' /\ FiringHasOutcome'
  <2>1. boot = "run" /\ boot' = "run" /\ control' = control
    BY <1>14 DEF BootIsQuiet, SwitchFails
  <2>2. Relocated("buffer")  BY <1>14, RelocateSteps
  <2>3. "buffer" # "firing"  BY <1>14
  <2> QED  BY <2>1, <2>2, <2>3 DEF BootIsQuiet, FiringHasOutcome, Relocated
<1>15. ASSUME CliCrashes
      PROVE  BootIsQuiet' /\ FiringHasOutcome'
  <2>1. boot = "run" /\ boot' = "run" /\ control' = control
    BY <1>15 DEF BootIsQuiet, CliCrashes
  <2>2. Relocated("turn")  BY <1>15, RelocateSteps
  <2>3. "turn" # "firing"  BY <1>15
  <2> QED  BY <2>1, <2>2, <2>3 DEF BootIsQuiet, FiringHasOutcome, Relocated
<1>16. ASSUME NEW as \in {"success", "failure"}, TurnEnds(as)
      PROVE  BootIsQuiet' /\ FiringHasOutcome'
    BY <1>16 DEF BootIsQuiet, FiringHasOutcome, TurnEnds
<1>17. ASSUME SwapHooks
      PROVE  BootIsQuiet' /\ FiringHasOutcome'
    BY <1>17 DEF BootIsQuiet, FiringHasOutcome, SwapHooks, Move
<1>18. ASSUME NEW c \in hooks, RunHook(c)
      PROVE  BootIsQuiet' /\ FiringHasOutcome'
    BY <1>18 DEF BootIsQuiet, FiringHasOutcome, RunHook
<1>19. ASSUME Restart
      PROVE  BootIsQuiet' /\ FiringHasOutcome'
    BY <1>19 DEF BootIsQuiet, FiringHasOutcome, Restart
<1>20. CASE UNCHANGED vars
    BY <1>20 DEF BootIsQuiet, FiringHasOutcome, vars, Ids
<1>21. ASSUME SendRaises
      PROVE  BootIsQuiet' /\ FiringHasOutcome'
    BY <1>21 DEF BootIsQuiet, FiringHasOutcome, Ids, SendRaises
<1> QED
    BY <1>1, <1>2, <1>3, <1>4, <1>5, <1>6, <1>7, <1>8, <1>9, <1>10,
       <1>11, <1>12, <1>13, <1>14, <1>15, <1>16, <1>17, <1>18, <1>19, <1>20, <1>21
    DEF Next, Startup, Tools, Scheduler, Engine

\* Seeded rows recur, and stay active while they are held.
LEMMA SeededStep ==
    ASSUME TypeOK, BootIsQuiet, SeededRowsRecur, [Next]_vars
    PROVE  SeededRowsRecur'
<1>1. ASSUME ResetStuck
      PROVE  SeededRowsRecur'
  <2>1. /\ Ids' = Ids
        /\ \A j \in Ids : /\ rows'[j].key = rows[j].key /\ rows'[j].cron = rows[j].cron
                          /\ Active(j) => rows'[j].status \in {"pending", "processing"}
    BY <1>1, ResetFields DEF Active
  <2>2. hooks' = {}  BY <1>1 DEF BootIsQuiet, ResetStuck
  <2> QED  BY <2>1, <2>2 DEF SeededRowsRecur
<1>2. ASSUME SeedSelf
      PROVE  SeededRowsRecur'
  <2>0. hooks' = {}  BY <1>2 DEF BootIsQuiet, SeedSelf
  <2>1. CASE CancelKey(Self)
    <3>1. /\ Ids' = Ids
          /\ \A j \in Ids : rows'[j].key = rows[j].key /\ rows'[j].cron = rows[j].cron
      BY <2>1, CancelFields
    <3> QED  BY <2>0, <3>1 DEF SeededRowsRecur
  <2>2. CASE UNCHANGED <<rows, fires>>
    BY <1>2, <2>0, <2>2 DEF SeededRowsRecur, Ids
  <2>3. CASE Insert(Self, TRUE)
    <3>1. Self \in AutoKeys \cup {User} /\ TRUE \in BOOLEAN  BY DEF AutoKeys
    <3>2. PICK n : /\ Ids' = Ids \cup {n} /\ rows'[n].cron = TRUE
                   /\ \A j \in Ids : rows'[j] = rows[j]
      BY <2>3, <3>1, InsertFields
    <3> QED  BY <2>0, <3>2 DEF SeededRowsRecur
  <2> QED  BY <1>2, <2>1, <2>2, <2>3 DEF SeedSelf
<1>3. ASSUME NEW k \in Committed, CancelStale(k)
      PROVE  SeededRowsRecur'
  <2>0. hooks' = {}  BY <1>3 DEF BootIsQuiet, CancelStale
  <2>1. CancelKey(k)  BY <1>3 DEF CancelStale
  <2>2. /\ Ids' = Ids
        /\ \A j \in Ids : rows'[j].key = rows[j].key /\ rows'[j].cron = rows[j].cron
    BY <2>1, CancelFields
  <2> QED  BY <2>0, <2>2 DEF SeededRowsRecur
<1>4. ASSUME NEW k \in Committed, InsertMissing(k)
      PROVE  SeededRowsRecur'
  <2>0. hooks' = {}  BY <1>4 DEF BootIsQuiet, InsertMissing
  <2>1. k \in AutoKeys \cup {User} /\ TRUE \in BOOLEAN /\ Insert(k, TRUE)
    BY <1>4 DEF AutoKeys, InsertMissing
  <2>2. PICK n : /\ Ids' = Ids \cup {n} /\ rows'[n].cron = TRUE
                 /\ \A j \in Ids : rows'[j] = rows[j]
    BY <2>1, InsertFields
  <2> QED  BY <2>0, <2>2 DEF SeededRowsRecur
<1>5. ASSUME GoLive
      PROVE  SeededRowsRecur'
    BY <1>5 DEF SeededRowsRecur, Active, Ids, GoLive
<1>6. ASSUME NEW i \in Ids, ComesDue(i)
      PROVE  SeededRowsRecur'
  <2>1. /\ Ids' = Ids
        /\ \A j \in Ids : /\ rows'[j].key = rows[j].key /\ rows'[j].cron = rows[j].cron
                          /\ rows'[j].status = rows[j].status
    BY <1>6, ComesDueEffect
  <2>2. hooks' = hooks /\ \A c \in hooks : c.row \in Ids  BY <1>6 DEF ComesDue, TypeOK
  <2> QED  BY <2>1, <2>2 DEF SeededRowsRecur, Active
<1>7. ASSUME NEW cron \in BOOLEAN, SetReminder(cron)
      PROVE  SeededRowsRecur'
  <2>1. User \in AutoKeys \cup {User} /\ Insert(User, cron) /\ hooks' = hooks
    BY <1>7 DEF SetReminder
  <2>2. PICK n : /\ Ids' = Ids \cup {n} /\ rows'[n].key = User
                 /\ \A j \in Ids : rows'[j] = rows[j]
    BY <1>7, <2>1, InsertFields
  <2>3. \A c \in hooks : c.row \in Ids  BY DEF TypeOK
  <2> QED  BY <2>1, <2>2, <2>3 DEF SeededRowsRecur, Active
<1>8. ASSUME NEW i \in Ids, CancelReminder(i)
      PROVE  SeededRowsRecur'
  <2>1. SetStatus(i, "cancelled") /\ "cancelled" \in Statuses /\ rows[i].key = User
        /\ hooks' = hooks
    BY <1>8 DEF CancelReminder, Statuses
  <2>2. /\ Ids' = Ids
        /\ \A j \in Ids : /\ rows'[j].key = rows[j].key /\ rows'[j].cron = rows[j].cron
                          /\ j # i => rows'[j].status = rows[j].status
    BY <1>8, <2>1, StatusEffect
  <2>3. \A c \in hooks : c.row \in Ids  BY DEF TypeOK
  <2> QED  BY <1>8, <2>1, <2>2, <2>3 DEF SeededRowsRecur, Active
<1>9. ASSUME Poll
      PROVE  SeededRowsRecur'
    BY <1>9 DEF SeededRowsRecur, Active, Ids, Poll
<1>10. ASSUME NEW i \in polled, Claim(i)
      PROVE  SeededRowsRecur'
  <2>0. i \in Ids /\ \A c \in hooks : c.row \in Ids  BY <1>10 DEF TypeOK
  <2>1. CASE rows[i].status = "pending"
    <3>1. SetStatus(i, "processing") /\ "processing" \in Statuses
      BY <1>10, <2>1 DEF Claim, ClaimWon, Statuses
    <3>2. /\ Ids' = Ids /\ rows'[i].status = "processing"
          /\ \A j \in Ids : /\ rows'[j].key = rows[j].key /\ rows'[j].cron = rows[j].cron
                            /\ j # i => rows'[j].status = rows[j].status
      BY <2>0, <3>1, StatusEffect
    <3>3. \A c \in hooks' : c \in hooks \/ c.row = i  BY <1>10, <2>1 DEF Claim, ClaimWon
    <3> QED  BY <2>0, <3>2, <3>3 DEF SeededRowsRecur, Active
  <2>2. CASE rows[i].status # "pending"
    BY <1>10, <2>2 DEF SeededRowsRecur, Active, Ids, Claim, ClaimWon
  <2> QED  BY <2>1, <2>2
<1>11. ASSUME NEW c \in hooks, NEW to \in {"buffer", "turn"}, Submit(c, to)
      PROVE  SeededRowsRecur'
  <2>1. Relocated(to) /\ UNCHANGED rows  BY <1>11, RelocateSteps DEF Submit
  <2> QED  BY <2>1 DEF SeededRowsRecur, Active, Ids, Relocated
<1>12. ASSUME NEW c \in hooks, SubmitRaises(c)
      PROVE  SeededRowsRecur'
  <2>0. c.row \in Ids /\ \A d \in hooks : d.row \in Ids  BY <1>12 DEF TypeOK
  <2>1. SetStatus(c.row, "pending") /\ "pending" \in Statuses
    BY <1>12 DEF SubmitRaises, Statuses
  <2>2. /\ Ids' = Ids /\ rows'[c.row].status = "pending"
        /\ \A j \in Ids : /\ rows'[j].key = rows[j].key /\ rows'[j].cron = rows[j].cron
                          /\ j # c.row => rows'[j].status = rows[j].status
    BY <2>0, <2>1, StatusEffect
  <2>3. Relocated("turn")  BY <1>12, RelocateSteps
  <2> QED  BY <2>0, <2>2, <2>3 DEF SeededRowsRecur, Active, Relocated
<1>13. ASSUME NEW cs \in SUBSET hooks, TurnStarts(cs)
      PROVE  SeededRowsRecur'
  <2>1. Relocated("turn") /\ UNCHANGED rows  BY <1>13, RelocateSteps DEF TurnStarts
  <2> QED  BY <2>1 DEF SeededRowsRecur, Active, Ids, Relocated
<1>14. ASSUME SwitchFails
      PROVE  SeededRowsRecur'
  <2>1. Relocated("buffer") /\ UNCHANGED rows  BY <1>14, RelocateSteps DEF SwitchFails
  <2> QED  BY <2>1 DEF SeededRowsRecur, Active, Ids, Relocated
<1>15. ASSUME CliCrashes
      PROVE  SeededRowsRecur'
  <2>1. Relocated("turn") /\ UNCHANGED rows  BY <1>15, RelocateSteps DEF CliCrashes
  <2> QED  BY <2>1 DEF SeededRowsRecur, Active, Ids, Relocated
<1>16. ASSUME NEW as \in {"success", "failure"}, TurnEnds(as)
      PROVE  SeededRowsRecur'
    BY <1>16 DEF SeededRowsRecur, Active, Ids, TurnEnds
<1>17. ASSUME SwapHooks
      PROVE  SeededRowsRecur'
  <2>1. Relocated("firing") /\ UNCHANGED rows  BY <1>17, RelocateSteps DEF SwapHooks
  <2> QED  BY <2>1 DEF SeededRowsRecur, Active, Ids, Relocated
<1>18. ASSUME NEW c \in hooks, RunHook(c)
      PROVE  SeededRowsRecur'
  <2>1. /\ Ids' = Ids /\ c.row \in Ids
        /\ \A j \in Ids : j # c.row => rows'[j] = rows[j]
        /\ rows'[c.row].key = rows[c.row].key /\ rows'[c.row].cron = rows[c.row].cron
        /\ rows[c.row].cron /\ Active(c.row) => rows'[c.row].status = "pending"
    BY <1>18, RunHookEffect
  <2>2. \A d \in hooks' : d \in hooks /\ d.row \in Ids  BY <1>18 DEF RunHook, TypeOK
  <2>3. rows[c.row].key # User => rows[c.row].cron /\ Active(c.row)
    BY <1>18, <2>1 DEF SeededRowsRecur
  <2> QED  BY <2>1, <2>2, <2>3 DEF SeededRowsRecur, Active
<1>19. ASSUME Restart
      PROVE  SeededRowsRecur'
    BY <1>19 DEF SeededRowsRecur, Active, Ids, Restart
<1>20. CASE UNCHANGED vars
    BY <1>20 DEF SeededRowsRecur, Active, Ids, vars
<1>21. ASSUME SendRaises
      PROVE  SeededRowsRecur'
    BY <1>21 DEF SeededRowsRecur, Active, Ids, SendRaises
<1> QED
    BY <1>1, <1>2, <1>3, <1>4, <1>5, <1>6, <1>7, <1>8, <1>9, <1>10,
       <1>11, <1>12, <1>13, <1>14, <1>15, <1>16, <1>17, <1>18, <1>19, <1>20, <1>21
    DEF Next, Startup, Tools, Scheduler, Engine

\* Rows in flight and claims in memory correspond.
LEMMA ExclusiveStep ==
    ASSUME TypeOK, BootIsQuiet, ClaimIsExclusive, InFlightIsHeld, [Next]_vars
    PROVE  ClaimIsExclusive' /\ InFlightIsHeld'
<1>1. ASSUME ResetStuck
      PROVE  ClaimIsExclusive' /\ InFlightIsHeld'
    BY <1>1 DEF ClaimIsExclusive, InFlightIsHeld, ResetStuck
<1>2. ASSUME SeedSelf
      PROVE  ClaimIsExclusive' /\ InFlightIsHeld'
    BY <1>2 DEF ClaimIsExclusive, InFlightIsHeld, SeedSelf
<1>3. ASSUME NEW k \in Committed, CancelStale(k)
      PROVE  ClaimIsExclusive' /\ InFlightIsHeld'
    BY <1>3 DEF ClaimIsExclusive, InFlightIsHeld, CancelStale
<1>4. ASSUME NEW k \in Committed, InsertMissing(k)
      PROVE  ClaimIsExclusive' /\ InFlightIsHeld'
    BY <1>4 DEF ClaimIsExclusive, InFlightIsHeld, InsertMissing
<1>5. ASSUME GoLive
      PROVE  ClaimIsExclusive' /\ InFlightIsHeld'
  <2>1. hooks' = {} /\ UNCHANGED rows /\ \A i \in Ids : rows[i].status # "processing"
    BY <1>5 DEF BootIsQuiet, GoLive
  <2> QED  BY <2>1 DEF ClaimIsExclusive, InFlightIsHeld, Ids
<1>6. ASSUME NEW i \in Ids, ComesDue(i)
      PROVE  ClaimIsExclusive' /\ InFlightIsHeld'
  <2>1. /\ Ids' = Ids /\ \A j \in Ids : rows'[j].status = rows[j].status
    BY <1>6, ComesDueEffect
  <2>2. UNCHANGED <<boot, raised, hooks>>  BY <1>6 DEF ComesDue
  <2> QED  BY <2>1, <2>2 DEF ClaimIsExclusive, InFlightIsHeld
<1>7. ASSUME NEW cron \in BOOLEAN, SetReminder(cron)
      PROVE  ClaimIsExclusive' /\ InFlightIsHeld'
  <2>1. User \in AutoKeys \cup {User} /\ Insert(User, cron) /\ UNCHANGED <<boot, raised, hooks>>
    BY <1>7 DEF SetReminder
  <2>2. PICK n : /\ Ids' = Ids \cup {n} /\ n \notin Ids /\ rows'[n].status = "pending"
                 /\ \A j \in Ids : rows'[j] = rows[j]
    BY <1>7, <2>1, InsertFields
  <2>3. \A c \in hooks : c.row \in Ids  BY DEF TypeOK
  <2> QED  BY <2>1, <2>2, <2>3 DEF ClaimIsExclusive, InFlightIsHeld
<1>8. ASSUME NEW i \in Ids, CancelReminder(i)
      PROVE  ClaimIsExclusive' /\ InFlightIsHeld'
  <2>1. /\ SetStatus(i, "cancelled") /\ "cancelled" \in Statuses
        /\ rows[i].status = "pending" /\ UNCHANGED <<boot, raised, hooks>>
    BY <1>8 DEF CancelReminder, Statuses
  <2>2. /\ Ids' = Ids /\ rows'[i].status = "cancelled"
        /\ \A j \in Ids : j # i => rows'[j].status = rows[j].status
    BY <1>8, <2>1, StatusEffect
  <2>3. \A j \in Ids : rows'[j].status = "processing" <=> rows[j].status = "processing"
    BY <1>8, <2>1, <2>2
  <2> QED  BY <1>8, <2>1, <2>2, <2>3 DEF ClaimIsExclusive, InFlightIsHeld
<1>9. ASSUME Poll
      PROVE  ClaimIsExclusive' /\ InFlightIsHeld'
    BY <1>9 DEF ClaimIsExclusive, InFlightIsHeld, Ids, Poll
<1>10. ASSUME NEW i \in polled, Claim(i)
      PROVE  ClaimIsExclusive' /\ InFlightIsHeld'
  <2>0. i \in Ids  BY <1>10 DEF TypeOK
  <2>1. CASE rows[i].status = "pending"
    <3>1. SetStatus(i, "processing") /\ "processing" \in Statuses
      BY <1>10, <2>1 DEF Claim, ClaimWon, Statuses
    <3>2. /\ Ids' = Ids /\ rows'[i].status = "processing"
          /\ \A j \in Ids : j # i => rows'[j].status = rows[j].status
      BY <2>0, <3>1, StatusEffect
    <3> DEFINE e == [row |-> i, n |-> fires[i] + 1, at |-> "scheduler", lost |-> FALSE]
    <3>3. hooks' = hooks \cup {e} /\ e.row = i  BY <1>10, <2>1 DEF Claim, ClaimWon
    <3> HIDE DEF e
    <3>4. UNCHANGED <<boot, raised>>  BY <1>10 DEF Claim, ClaimWon
    <3> QED  BY <2>0, <2>1, <3>2, <3>3, <3>4 DEF ClaimIsExclusive, InFlightIsHeld
  <2>2. CASE rows[i].status # "pending"
    BY <1>10, <2>2 DEF ClaimIsExclusive, InFlightIsHeld, Ids, Claim, ClaimWon
  <2> QED  BY <2>1, <2>2
<1>11. ASSUME NEW c \in hooks, NEW to \in {"buffer", "turn"}, Submit(c, to)
      PROVE  ClaimIsExclusive' /\ InFlightIsHeld'
  <2>1. Relocated(to)  BY <1>11, RelocateSteps
  <2>2. UNCHANGED <<rows, boot, raised>>  BY <1>11 DEF Submit
  <2> QED  BY <2>1, <2>2 DEF ClaimIsExclusive, InFlightIsHeld, Ids, Relocated
<1>12. ASSUME NEW c \in hooks, SubmitRaises(c)
      PROVE  ClaimIsExclusive' /\ InFlightIsHeld'
  <2>0. c.row \in Ids  BY <1>12 DEF TypeOK
  <2>1. SetStatus(c.row, "pending") /\ "pending" \in Statuses /\ raised' = TRUE /\ boot' = boot
    BY <1>12 DEF SubmitRaises, Statuses
  <2>2. /\ Ids' = Ids /\ rows'[c.row].status = "pending"
        /\ \A j \in Ids : j # c.row => rows'[j].status = rows[j].status
    BY <2>0, <2>1, StatusEffect
  <2>3. Relocated("turn")  BY <1>12, RelocateSteps
  <2> QED  BY <2>1, <2>2, <2>3 DEF ClaimIsExclusive, InFlightIsHeld, Relocated
<1>13. ASSUME NEW cs \in SUBSET hooks, TurnStarts(cs)
      PROVE  ClaimIsExclusive' /\ InFlightIsHeld'
  <2>1. Relocated("turn")  BY <1>13, RelocateSteps
  <2>2. UNCHANGED <<rows, boot, raised>>  BY <1>13 DEF TurnStarts
  <2> QED  BY <2>1, <2>2 DEF ClaimIsExclusive, InFlightIsHeld, Ids, Relocated
<1>14. ASSUME SwitchFails
      PROVE  ClaimIsExclusive' /\ InFlightIsHeld'
  <2>1. Relocated("buffer")  BY <1>14, RelocateSteps
  <2>2. UNCHANGED <<rows, boot, raised>>  BY <1>14 DEF SwitchFails
  <2> QED  BY <2>1, <2>2 DEF ClaimIsExclusive, InFlightIsHeld, Ids, Relocated
<1>15. ASSUME CliCrashes
      PROVE  ClaimIsExclusive' /\ InFlightIsHeld'
  <2>1. Relocated("turn")  BY <1>15, RelocateSteps
  <2>2. UNCHANGED <<rows, boot, raised>>  BY <1>15 DEF CliCrashes
  <2> QED  BY <2>1, <2>2 DEF ClaimIsExclusive, InFlightIsHeld, Ids, Relocated
<1>16. ASSUME NEW as \in {"success", "failure"}, TurnEnds(as)
      PROVE  ClaimIsExclusive' /\ InFlightIsHeld'
    BY <1>16 DEF ClaimIsExclusive, InFlightIsHeld, Ids, TurnEnds
<1>17. ASSUME SwapHooks
      PROVE  ClaimIsExclusive' /\ InFlightIsHeld'
  <2>1. Relocated("firing")  BY <1>17, RelocateSteps
  <2>2. UNCHANGED <<rows, boot, raised>>  BY <1>17 DEF SwapHooks
  <2> QED  BY <2>1, <2>2 DEF ClaimIsExclusive, InFlightIsHeld, Ids, Relocated
<1>18. ASSUME NEW c \in hooks, RunHook(c)
      PROVE  ClaimIsExclusive' /\ InFlightIsHeld'
  <2>1. /\ Ids' = Ids /\ c.row \in Ids /\ rows'[c.row].status # "processing"
        /\ \A j \in Ids : j # c.row => rows'[j] = rows[j]
    BY <1>18, RunHookEffect
  <2>2. hooks' = hooks \ {c} /\ UNCHANGED <<boot, raised>>  BY <1>18 DEF RunHook
  <2> QED  BY <2>1, <2>2 DEF ClaimIsExclusive, InFlightIsHeld
<1>19. ASSUME Restart
      PROVE  ClaimIsExclusive' /\ InFlightIsHeld'
    BY <1>19 DEF ClaimIsExclusive, InFlightIsHeld, Restart
<1>20. CASE UNCHANGED vars
    BY <1>20 DEF ClaimIsExclusive, InFlightIsHeld, Ids, vars
<1>21. ASSUME SendRaises
      PROVE  ClaimIsExclusive' /\ InFlightIsHeld'
    BY <1>21 DEF ClaimIsExclusive, InFlightIsHeld, Ids, SendRaises
<1> QED
    BY <1>1, <1>2, <1>3, <1>4, <1>5, <1>6, <1>7, <1>8, <1>9, <1>10,
       <1>11, <1>12, <1>13, <1>14, <1>15, <1>16, <1>17, <1>18, <1>19, <1>20, <1>21
    DEF Next, Startup, Tools, Scheduler, Engine

\* No row becomes active again, unless it is the agent's.
NoneRevived ==
    /\ Ids' = Ids
    /\ \A j \in Ids : /\ rows'[j].key = rows[j].key
                      /\ rows[j].key # User /\ Active(j)' => Active(j)

\* Seeded rows stay unique when none becomes active.
LEMMA RevivedNone == ASSUME OneRowPerKey, NoneRevived PROVE OneRowPerKey'
BY DEF OneRowPerKey, NoneRevived

\* A row is seeded only when its key has no active row.
LEMMA OneRowStep ==
    ASSUME TypeOK, BootIsQuiet, SeededRowsRecur, OneRowPerKey, [Next]_vars
    PROVE  OneRowPerKey'
<1>1. ASSUME ResetStuck
      PROVE  OneRowPerKey'
  <2>1. NoneRevived  BY <1>1, ResetFields DEF NoneRevived, Active
  <2> QED  BY <2>1, RevivedNone
<1>2. ASSUME SeedSelf
      PROVE  OneRowPerKey'
  <2>0. boot = "seed"  BY <1>2 DEF SeedSelf
  <2>1. CASE CancelKey(Self)
    <3>1. NoneRevived  BY <2>1, CancelFields DEF NoneRevived, Active
    <3> QED  BY <3>1, RevivedNone
  <2>2. CASE UNCHANGED <<rows, fires>>
    BY <2>2 DEF OneRowPerKey, Active, Ids
  <2>3. CASE Insert(Self, TRUE) /\ Pending(Self) = {}
    <3>1. Self \in AutoKeys \cup {User} /\ TRUE \in BOOLEAN  BY DEF AutoKeys
    <3>2. PICK n : /\ Ids' = Ids \cup {n} /\ rows'[n].key = Self
                   /\ \A j \in Ids : rows'[j] = rows[j]
      BY <2>3, <3>1, InsertFields
    <3>3. \A j \in Ids : rows[j].key = Self => ~Active(j)
      BY <2>0, <2>3 DEF BootIsQuiet, Pending, Active
    <3> QED  BY <3>2, <3>3 DEF OneRowPerKey, Active
  <2> QED  BY <1>2, <2>1, <2>2, <2>3 DEF SeedSelf
<1>3. ASSUME NEW k \in Committed, CancelStale(k)
      PROVE  OneRowPerKey'
  <2>1. CancelKey(k)  BY <1>3 DEF CancelStale
  <2>2. NoneRevived  BY <2>1, CancelFields DEF NoneRevived, Active
  <2> QED  BY <2>2, RevivedNone
<1>4. ASSUME NEW k \in Committed, InsertMissing(k)
      PROVE  OneRowPerKey'
  <2>1. k \in AutoKeys \cup {User} /\ TRUE \in BOOLEAN /\ Insert(k, TRUE)
    BY <1>4 DEF AutoKeys, InsertMissing
  <2>2. PICK n : /\ Ids' = Ids \cup {n} /\ rows'[n].key = k
                 /\ \A j \in Ids : rows'[j] = rows[j]
    BY <2>1, InsertFields
  <2>3. \A j \in Ids : rows[j].key = k => ~Active(j)
    BY <1>4 DEF InsertMissing, Existing, BootIsQuiet, Pending, Active
  <2> QED  BY <2>2, <2>3 DEF OneRowPerKey, Active
<1>5. ASSUME GoLive
      PROVE  OneRowPerKey'
    BY <1>5 DEF OneRowPerKey, Active, Ids, GoLive
<1>6. ASSUME NEW i \in Ids, ComesDue(i)
      PROVE  OneRowPerKey'
  <2>1. NoneRevived  BY <1>6, ComesDueEffect DEF NoneRevived, Active
  <2> QED  BY <2>1, RevivedNone
<1>7. ASSUME NEW cron \in BOOLEAN, SetReminder(cron)
      PROVE  OneRowPerKey'
  <2>1. User \in AutoKeys \cup {User} /\ Insert(User, cron)
    BY <1>7 DEF SetReminder
  <2>2. PICK n : /\ Ids' = Ids \cup {n} /\ rows'[n].key = User
                 /\ \A j \in Ids : rows'[j] = rows[j]
    BY <1>7, <2>1, InsertFields
  <2> QED  BY <2>2 DEF OneRowPerKey, Active
<1>8. ASSUME NEW i \in Ids, CancelReminder(i)
      PROVE  OneRowPerKey'
  <2>1. SetStatus(i, "cancelled") /\ "cancelled" \in Statuses
    BY <1>8 DEF CancelReminder, Statuses
  <2>2. NoneRevived  BY <1>8, <2>1, StatusEffect DEF NoneRevived, Active
  <2> QED  BY <2>2, RevivedNone
<1>9. ASSUME Poll
      PROVE  OneRowPerKey'
    BY <1>9 DEF OneRowPerKey, Active, Ids, Poll
<1>10. ASSUME NEW i \in polled, Claim(i)
      PROVE  OneRowPerKey'
  <2>0. i \in Ids  BY <1>10 DEF TypeOK
  <2>1. CASE rows[i].status = "pending"
    <3>1. SetStatus(i, "processing") /\ "processing" \in Statuses
      BY <1>10, <2>1 DEF Claim, ClaimWon, Statuses
    <3>2. NoneRevived  BY <2>0, <2>1, <3>1, StatusEffect DEF NoneRevived, Active
    <3> QED  BY <3>2, RevivedNone
  <2>2. CASE rows[i].status # "pending"
    BY <1>10, <2>2 DEF OneRowPerKey, Active, Ids, Claim, ClaimWon
  <2> QED  BY <2>1, <2>2
<1>11. ASSUME NEW c \in hooks, NEW to \in {"buffer", "turn"}, Submit(c, to)
      PROVE  OneRowPerKey'
    BY <1>11 DEF OneRowPerKey, Active, Ids, Submit
<1>12. ASSUME NEW c \in hooks, SubmitRaises(c)
      PROVE  OneRowPerKey'
  <2>0. c.row \in Ids  BY <1>12 DEF TypeOK
  <2>1. SetStatus(c.row, "pending") /\ "pending" \in Statuses
    BY <1>12 DEF SubmitRaises, Statuses
  <2>2. rows[c.row].key # User => Active(c.row)  BY <1>12 DEF SeededRowsRecur
  <2>3. NoneRevived  BY <2>0, <2>1, <2>2, StatusEffect DEF NoneRevived, Active
  <2> QED  BY <2>3, RevivedNone
<1>13. ASSUME NEW cs \in SUBSET hooks, TurnStarts(cs)
      PROVE  OneRowPerKey'
    BY <1>13 DEF OneRowPerKey, Active, Ids, TurnStarts
<1>14. ASSUME SwitchFails
      PROVE  OneRowPerKey'
    BY <1>14 DEF OneRowPerKey, Active, Ids, SwitchFails
<1>15. ASSUME CliCrashes
      PROVE  OneRowPerKey'
    BY <1>15 DEF OneRowPerKey, Active, Ids, CliCrashes
<1>16. ASSUME NEW as \in {"success", "failure"}, TurnEnds(as)
      PROVE  OneRowPerKey'
    BY <1>16 DEF OneRowPerKey, Active, Ids, TurnEnds
<1>17. ASSUME SwapHooks
      PROVE  OneRowPerKey'
    BY <1>17 DEF OneRowPerKey, Active, Ids, SwapHooks
<1>18. ASSUME NEW c \in hooks, RunHook(c)
      PROVE  OneRowPerKey'
  <2>1. /\ Ids' = Ids /\ c.row \in Ids
        /\ \A j \in Ids : j # c.row => rows'[j] = rows[j]
        /\ rows'[c.row].key = rows[c.row].key
    BY <1>18, RunHookEffect
  <2>2. rows[c.row].key # User => Active(c.row)  BY <1>18 DEF SeededRowsRecur
  <2>3. NoneRevived  BY <2>1, <2>2 DEF NoneRevived, Active
  <2> QED  BY <2>3, RevivedNone
<1>19. ASSUME Restart
      PROVE  OneRowPerKey'
    BY <1>19 DEF OneRowPerKey, Active, Ids, Restart
<1>20. CASE UNCHANGED vars
    BY <1>20 DEF OneRowPerKey, Active, Ids, vars
<1>21. ASSUME SendRaises
      PROVE  OneRowPerKey'
    BY <1>21 DEF OneRowPerKey, Active, Ids, SendRaises
<1> QED
    BY <1>1, <1>2, <1>3, <1>4, <1>5, <1>6, <1>7, <1>8, <1>9, <1>10,
       <1>11, <1>12, <1>13, <1>14, <1>15, <1>16, <1>17, <1>18, <1>19, <1>20, <1>21
    DEF Next, Startup, Tools, Scheduler, Engine

\* Seeded rows stay as active as they were.
KeysKept ==
    /\ Ids \subseteq Ids'
    /\ \A j \in Ids : /\ rows'[j].key = rows[j].key
                      /\ rows[j].key # User => (Active(j)' <=> Active(j))
    /\ \A j \in Ids' \ Ids : rows'[j].key = User

\* The loops stay as configured when no key loses or gains an active row.
LEMMA KeptLoops ==
    ASSUME RemindersAssumption, LoopsAsConfigured, KeysKept, boot = "run", boot' = "run",
           desired' = desired
    PROVE  SelfIsSettled' /\ LoopsAsConfigured'
<1> SUFFICES ASSUME NEW k \in AutoKeys
             PROVE  k \in desired <=> \E i \in Ids' : rows'[i].key = k /\ Active(i)'
  BY DEF SelfIsSettled, LoopsAsConfigured
<1>1. k # User  BY DEF RemindersAssumption
<1>2. k \in desired <=> \E i \in Ids : rows[i].key = k /\ Active(i)
  BY DEF LoopsAsConfigured
<1>3. ASSUME NEW i \in Ids, rows[i].key = k, Active(i)
      PROVE  \E j \in Ids' : rows'[j].key = k /\ Active(j)'
  BY <1>1, <1>3 DEF KeysKept
<1>4. ASSUME NEW i \in Ids', rows'[i].key = k, Active(i)'
      PROVE  \E j \in Ids : rows[j].key = k /\ Active(j)
  BY <1>1, <1>4 DEF KeysKept
<1> QED  BY <1>2, <1>3, <1>4

\* The seeded rows are those of the configuration.
LEMMA ConfiguredStep == ASSUME RemindersAssumption, TypeOK, BootIsQuiet, SeededRowsRecur,
              SelfIsSettled, LoopsAsConfigured, [Next]_vars PROVE SelfIsSettled' /\ LoopsAsConfigured'
<1>1. ASSUME ResetStuck
      PROVE  SelfIsSettled' /\ LoopsAsConfigured'
    BY <1>1 DEF SelfIsSettled, LoopsAsConfigured, ResetStuck
<1>2. ASSUME SeedSelf
      PROVE  SelfIsSettled' /\ LoopsAsConfigured'
  <2>0. boot' = "reconcile" /\ desired' = desired  BY <1>2 DEF SeedSelf
  <2> SUFFICES Self \in desired <=> \E j \in Ids' : rows'[j].key = Self /\ rows'[j].status = "pending"
    BY <2>0 DEF SelfIsSettled, LoopsAsConfigured, Pending
  <2>1. CASE Self \notin desired /\ CancelKey(Self)
    <3>1. /\ Ids' = Ids
          /\ \A j \in Ids : rows'[j].key = Self => rows'[j].status # "pending"
      BY <2>1, CancelFields
    <3> QED  BY <2>1, <3>1
  <2>2. CASE Self \in desired /\ UNCHANGED <<rows, fires>> /\ Pending(Self) # {}
    BY <2>2 DEF Pending, Ids
  <2>3. CASE Self \in desired /\ Insert(Self, TRUE)
    <3>1. Self \in AutoKeys \cup {User} /\ TRUE \in BOOLEAN  BY DEF AutoKeys
    <3>2. PICK n : /\ n \notin Ids /\ Ids' = Ids \cup {n}
                   /\ rows'[n].key = Self /\ rows'[n].cron = TRUE
                   /\ rows'[n].status = "pending"
                   /\ \A j \in Ids : rows'[j] = rows[j]
      BY <2>3, <3>1, InsertFields
    <3> QED  BY <2>3, <3>2
  <2> QED  BY <1>2, <2>1, <2>2, <2>3 DEF SeedSelf
<1>3. ASSUME NEW k \in Committed, CancelStale(k)
      PROVE  SelfIsSettled' /\ LoopsAsConfigured'
  <2>1. CancelKey(k) /\ boot = "reconcile" /\ boot' = boot /\ desired' = desired /\ k # Self
    BY <1>3 DEF CancelStale, RemindersAssumption
  <2>2. /\ Ids' = Ids
        /\ \A j \in Ids : /\ rows'[j].key = rows[j].key
                          /\ rows[j].key = Self => rows'[j].status = rows[j].status
    BY <2>1, CancelFields
  <2> QED  BY <2>1, <2>2 DEF SelfIsSettled, LoopsAsConfigured, Pending
<1>4. ASSUME NEW k \in Committed, InsertMissing(k)
      PROVE  SelfIsSettled' /\ LoopsAsConfigured'
  <2>1. /\ k \in AutoKeys \cup {User} /\ TRUE \in BOOLEAN /\ Insert(k, TRUE) /\ k # Self
        /\ boot = "reconcile" /\ boot' = boot /\ desired' = desired
    BY <1>4 DEF AutoKeys, InsertMissing, RemindersAssumption
  <2>2. PICK n : /\ Ids' = Ids \cup {n} /\ n \notin Ids /\ rows'[n].key = k
                 /\ \A j \in Ids : rows'[j] = rows[j]
    BY <2>1, InsertFields
  <2> QED  BY <2>1, <2>2 DEF SelfIsSettled, LoopsAsConfigured, Pending
<1>5. ASSUME GoLive
      PROVE  SelfIsSettled' /\ LoopsAsConfigured'
  <2>1. boot' = "run" /\ UNCHANGED <<rows, desired>>  BY <1>5 DEF GoLive
  <2>2. \A k \in AutoKeys : k \in desired <=> Pending(k) # {}
    BY <1>5 DEF GoLive, SelfIsSettled, Existing, AutoKeys
  <2>3. \A k \in AutoKeys : Pending(k) = {i \in Ids : rows[i].key = k /\ Active(i)}
    BY <1>5 DEF GoLive, BootIsQuiet, Pending, Active
  <2> QED  BY <2>1, <2>2, <2>3 DEF SelfIsSettled, LoopsAsConfigured, Active, Ids
<1>6. ASSUME NEW i \in Ids, ComesDue(i)
      PROVE  SelfIsSettled' /\ LoopsAsConfigured'
  <2>1. boot = "run" /\ boot' = "run" /\ desired' = desired
    BY <1>6 DEF BootIsQuiet, ComesDue
  <2>9. KeysKept  BY <1>6, ComesDueEffect DEF KeysKept, Active
  <2> QED  BY <2>1, <2>9, KeptLoops
<1>7. ASSUME NEW cron \in BOOLEAN, SetReminder(cron)
      PROVE  SelfIsSettled' /\ LoopsAsConfigured'
  <2>1. boot = "run" /\ boot' = "run" /\ desired' = desired
    BY <1>7 DEF BootIsQuiet, SetReminder
  <2>2. User \in AutoKeys \cup {User} /\ Insert(User, cron)  BY <1>7 DEF SetReminder
  <2>3. PICK n : /\ Ids' = Ids \cup {n} /\ rows'[n].key = User
                 /\ \A j \in Ids : rows'[j] = rows[j]
    BY <1>7, <2>2, InsertFields
  <2>9. KeysKept  BY <2>3 DEF KeysKept, Active
  <2> QED  BY <2>1, <2>9, KeptLoops
<1>8. ASSUME NEW i \in Ids, CancelReminder(i)
      PROVE  SelfIsSettled' /\ LoopsAsConfigured'
  <2>1. boot = "run" /\ boot' = "run" /\ desired' = desired
    BY <1>8 DEF BootIsQuiet, CancelReminder
  <2>2. SetStatus(i, "cancelled") /\ "cancelled" \in Statuses /\ rows[i].key = User
    BY <1>8 DEF CancelReminder, Statuses
  <2>9. KeysKept  BY <1>8, <2>2, StatusEffect DEF KeysKept, Active
  <2> QED  BY <2>1, <2>9, KeptLoops
<1>9. ASSUME Poll
      PROVE  SelfIsSettled' /\ LoopsAsConfigured'
  <2>1. UNCHANGED <<rows, boot, desired>>  BY <1>9 DEF Poll
  <2> QED  BY <2>1 DEF SelfIsSettled, LoopsAsConfigured, Active, Ids, Pending
<1>10. ASSUME NEW i \in polled, Claim(i)
      PROVE  SelfIsSettled' /\ LoopsAsConfigured'
  <2>1. boot = "run" /\ boot' = "run" /\ desired' = desired
    BY <1>10 DEF BootIsQuiet, Claim, ClaimWon
  <2>2. i \in Ids  BY <1>10 DEF TypeOK
  <2>3. CASE rows[i].status = "pending"
    <3>1. SetStatus(i, "processing") /\ "processing" \in Statuses
      BY <1>10, <2>3 DEF Claim, ClaimWon, Statuses
    <3>2. KeysKept  BY <2>2, <2>3, <3>1, StatusEffect DEF KeysKept, Active
    <3> QED  BY <2>1, <3>2, KeptLoops
  <2>4. CASE rows[i].status # "pending"
    <3>1. KeysKept  BY <1>10, <2>4 DEF KeysKept, Active, Ids, Claim, ClaimWon
    <3> QED  BY <2>1, <3>1, KeptLoops
  <2> QED  BY <2>3, <2>4
<1>11. ASSUME NEW c \in hooks, NEW to \in {"buffer", "turn"}, Submit(c, to)
      PROVE  SelfIsSettled' /\ LoopsAsConfigured'
  <2>1. UNCHANGED <<rows, boot, desired>>  BY <1>11 DEF Submit
  <2> QED  BY <2>1 DEF SelfIsSettled, LoopsAsConfigured, Active, Ids, Pending
<1>12. ASSUME NEW c \in hooks, SubmitRaises(c)
      PROVE  SelfIsSettled' /\ LoopsAsConfigured'
  <2>1. boot = "run" /\ boot' = "run" /\ desired' = desired
    BY <1>12 DEF BootIsQuiet, SubmitRaises
  <2>2. c.row \in Ids  BY <1>12 DEF TypeOK
  <2>3. SetStatus(c.row, "pending") /\ "pending" \in Statuses
    BY <1>12 DEF SubmitRaises, Statuses
  <2>4. rows[c.row].key # User => Active(c.row)  BY <1>12 DEF SeededRowsRecur
  <2>9. KeysKept  BY <2>2, <2>3, <2>4, StatusEffect DEF KeysKept, Active
  <2> QED  BY <2>1, <2>9, KeptLoops
<1>13. ASSUME NEW cs \in SUBSET hooks, TurnStarts(cs)
      PROVE  SelfIsSettled' /\ LoopsAsConfigured'
  <2>1. UNCHANGED <<rows, boot, desired>>  BY <1>13 DEF TurnStarts
  <2> QED  BY <2>1 DEF SelfIsSettled, LoopsAsConfigured, Active, Ids, Pending
<1>14. ASSUME SwitchFails
      PROVE  SelfIsSettled' /\ LoopsAsConfigured'
  <2>1. UNCHANGED <<rows, boot, desired>>  BY <1>14 DEF SwitchFails
  <2> QED  BY <2>1 DEF SelfIsSettled, LoopsAsConfigured, Active, Ids, Pending
<1>15. ASSUME CliCrashes
      PROVE  SelfIsSettled' /\ LoopsAsConfigured'
  <2>1. UNCHANGED <<rows, boot, desired>>  BY <1>15 DEF CliCrashes
  <2> QED  BY <2>1 DEF SelfIsSettled, LoopsAsConfigured, Active, Ids, Pending
<1>16. ASSUME NEW as \in {"success", "failure"}, TurnEnds(as)
      PROVE  SelfIsSettled' /\ LoopsAsConfigured'
  <2>1. UNCHANGED <<rows, boot, desired>>  BY <1>16 DEF TurnEnds
  <2> QED  BY <2>1 DEF SelfIsSettled, LoopsAsConfigured, Active, Ids, Pending
<1>17. ASSUME SwapHooks
      PROVE  SelfIsSettled' /\ LoopsAsConfigured'
  <2>1. UNCHANGED <<rows, boot, desired>>  BY <1>17 DEF SwapHooks
  <2> QED  BY <2>1 DEF SelfIsSettled, LoopsAsConfigured, Active, Ids, Pending
<1>18. ASSUME NEW c \in hooks, RunHook(c)
      PROVE  SelfIsSettled' /\ LoopsAsConfigured'
  <2>1. boot = "run" /\ boot' = "run" /\ desired' = desired
    BY <1>18 DEF BootIsQuiet, RunHook
  <2>2. /\ Ids' = Ids /\ c.row \in Ids
        /\ \A j \in Ids : j # c.row => rows'[j] = rows[j]
        /\ rows'[c.row].key = rows[c.row].key
        /\ rows[c.row].cron /\ Active(c.row) => rows'[c.row].status = "pending"
    BY <1>18, RunHookEffect
  <2>3. rows[c.row].key # User => rows[c.row].cron /\ Active(c.row)
    BY <1>18, <2>2 DEF SeededRowsRecur
  <2>9. KeysKept  BY <2>2, <2>3 DEF KeysKept, Active
  <2> QED  BY <2>1, <2>9, KeptLoops
<1>19. ASSUME Restart
      PROVE  SelfIsSettled' /\ LoopsAsConfigured'
    BY <1>19 DEF SelfIsSettled, LoopsAsConfigured, Restart
<1>20. CASE UNCHANGED vars
    BY <1>20 DEF SelfIsSettled, LoopsAsConfigured, Active, Ids, Pending, vars
<1>21. ASSUME SendRaises
      PROVE  SelfIsSettled' /\ LoopsAsConfigured'
    BY <1>21 DEF SelfIsSettled, LoopsAsConfigured, Active, Ids, Pending, SendRaises
<1> QED
    BY <1>1, <1>2, <1>3, <1>4, <1>5, <1>6, <1>7, <1>8, <1>9, <1>10,
       <1>11, <1>12, <1>13, <1>14, <1>15, <1>16, <1>17, <1>18, <1>19, <1>20, <1>21
    DEF Next, Startup, Tools, Scheduler, Engine

\* No step re-arms a closed row.
LEMMA ClosedStep ==
    ASSUME TypeOK, BootIsQuiet, ClaimIsExclusive, ~raised, [Next]_vars
    PROVE  \A m \in Ids : Closed(m) => rows'[m].status = rows[m].status
<1>1. ASSUME ResetStuck
      PROVE  \A m \in Ids : Closed(m) => rows'[m].status = rows[m].status
    BY <1>1, ResetFields DEF Closed
<1>2. ASSUME SeedSelf
      PROVE  \A m \in Ids : Closed(m) => rows'[m].status = rows[m].status
  <2>1. CASE CancelKey(Self)
    BY <2>1, CancelFields DEF Closed
  <2>2. CASE UNCHANGED <<rows, fires>>
    BY <2>2
  <2>3. CASE Insert(Self, TRUE)
    <3>1. Self \in AutoKeys \cup {User} /\ TRUE \in BOOLEAN  BY DEF AutoKeys
    <3> QED  BY <2>3, <3>1, InsertFields
  <2> QED  BY <1>2, <2>1, <2>2, <2>3 DEF SeedSelf
<1>3. ASSUME NEW k \in Committed, CancelStale(k)
      PROVE  \A m \in Ids : Closed(m) => rows'[m].status = rows[m].status
    BY <1>3, CancelFields DEF CancelStale, Closed
<1>4. ASSUME NEW k \in Committed, InsertMissing(k)
      PROVE  \A m \in Ids : Closed(m) => rows'[m].status = rows[m].status
  <2>1. k \in AutoKeys \cup {User} /\ TRUE \in BOOLEAN /\ Insert(k, TRUE)
    BY <1>4 DEF AutoKeys, InsertMissing
  <2> QED  BY <2>1, InsertFields
<1>5. ASSUME GoLive
      PROVE  \A m \in Ids : Closed(m) => rows'[m].status = rows[m].status
    BY <1>5 DEF GoLive
<1>6. ASSUME NEW i \in Ids, ComesDue(i)
      PROVE  \A m \in Ids : Closed(m) => rows'[m].status = rows[m].status
    BY <1>6, ComesDueEffect
<1>7. ASSUME NEW cron \in BOOLEAN, SetReminder(cron)
      PROVE  \A m \in Ids : Closed(m) => rows'[m].status = rows[m].status
  <2>1. User \in AutoKeys \cup {User} /\ Insert(User, cron)  BY <1>7 DEF SetReminder
  <2> QED  BY <1>7, <2>1, InsertFields
<1>8. ASSUME NEW i \in Ids, CancelReminder(i)
      PROVE  \A m \in Ids : Closed(m) => rows'[m].status = rows[m].status
  <2>1. SetStatus(i, "cancelled") /\ "cancelled" \in Statuses /\ rows[i].status = "pending"
    BY <1>8 DEF CancelReminder, Statuses
  <2>2. \A j \in Ids : j # i => rows'[j].status = rows[j].status  BY <1>8, <2>1, StatusEffect
  <2> QED  BY <2>1, <2>2 DEF Closed
<1>9. ASSUME Poll
      PROVE  \A m \in Ids : Closed(m) => rows'[m].status = rows[m].status
    BY <1>9 DEF Poll
<1>10. ASSUME NEW i \in polled, Claim(i)
      PROVE  \A m \in Ids : Closed(m) => rows'[m].status = rows[m].status
  <2>0. i \in Ids  BY <1>10 DEF TypeOK
  <2>1. CASE rows[i].status = "pending"
    <3>1. SetStatus(i, "processing") /\ "processing" \in Statuses
      BY <1>10, <2>1 DEF Claim, ClaimWon, Statuses
    <3>2. \A j \in Ids : j # i => rows'[j].status = rows[j].status  BY <2>0, <3>1, StatusEffect
    <3> QED  BY <2>1, <3>2 DEF Closed
  <2>2. CASE rows[i].status # "pending"
    BY <1>10, <2>2 DEF Claim, ClaimWon
  <2> QED  BY <2>1, <2>2
<1>11. ASSUME NEW c \in hooks, NEW to \in {"buffer", "turn"}, Submit(c, to)
      PROVE  \A m \in Ids : Closed(m) => rows'[m].status = rows[m].status
    BY <1>11 DEF Submit
<1>12. ASSUME NEW c \in hooks, SubmitRaises(c)
      PROVE  \A m \in Ids : Closed(m) => rows'[m].status = rows[m].status
  <2>0. c.row \in Ids /\ boot = "run"  BY <1>12 DEF TypeOK, BootIsQuiet
  <2>1. ~Closed(c.row)  BY <1>12, <2>0 DEF ClaimIsExclusive, Closed
  <2>2. SetStatus(c.row, "pending") /\ "pending" \in Statuses
    BY <1>12 DEF SubmitRaises, Statuses
  <2>3. \A j \in Ids : j # c.row => rows'[j].status = rows[j].status
    BY <2>0, <2>2, StatusEffect
  <2> QED  BY <2>1, <2>3
<1>13. ASSUME NEW cs \in SUBSET hooks, TurnStarts(cs)
      PROVE  \A m \in Ids : Closed(m) => rows'[m].status = rows[m].status
    BY <1>13 DEF TurnStarts
<1>14. ASSUME SwitchFails
      PROVE  \A m \in Ids : Closed(m) => rows'[m].status = rows[m].status
    BY <1>14 DEF SwitchFails
<1>15. ASSUME CliCrashes
      PROVE  \A m \in Ids : Closed(m) => rows'[m].status = rows[m].status
    BY <1>15 DEF CliCrashes
<1>16. ASSUME NEW as \in {"success", "failure"}, TurnEnds(as)
      PROVE  \A m \in Ids : Closed(m) => rows'[m].status = rows[m].status
    BY <1>16 DEF TurnEnds
<1>17. ASSUME SwapHooks
      PROVE  \A m \in Ids : Closed(m) => rows'[m].status = rows[m].status
    BY <1>17 DEF SwapHooks
<1>18. ASSUME NEW c \in hooks, RunHook(c)
      PROVE  \A m \in Ids : Closed(m) => rows'[m].status = rows[m].status
  <2>0. c.row \in Ids /\ boot = "run"  BY <1>18 DEF TypeOK, BootIsQuiet
  <2>1. ~Closed(c.row)  BY <1>18, <2>0 DEF ClaimIsExclusive, Closed
  <2>2. \A j \in Ids : j # c.row => rows'[j] = rows[j]  BY <1>18, RunHookEffect
  <2> QED  BY <2>1, <2>2
<1>19. ASSUME Restart
      PROVE  \A m \in Ids : Closed(m) => rows'[m].status = rows[m].status
    BY <1>19 DEF Restart
<1>20. CASE UNCHANGED vars
    BY <1>20 DEF vars
<1>21. ASSUME SendRaises
      PROVE  \A m \in Ids : Closed(m) => rows'[m].status = rows[m].status
    BY <1>21 DEF SendRaises
<1> QED
    BY <1>1, <1>2, <1>3, <1>4, <1>5, <1>6, <1>7, <1>8, <1>9, <1>10,
       <1>11, <1>12, <1>13, <1>14, <1>15, <1>16, <1>17, <1>18, <1>19, <1>20, <1>21
    DEF Next, Startup, Tools, Scheduler, Engine

--------------------------------------------------------------------------------
(* The theorems *)

\* The inductive invariant holds always.
LEMMA Invariant == Spec => []IInv
<1>1. Init => IInv
  <2> SUFFICES ASSUME Init PROVE IInv
    OBVIOUS
  <2>1. Ids = {} /\ rows \in Seq(Row) /\ fires \in Seq(Nat) /\ Len(fires) = Len(rows)
    BY DEF Init, Ids
  <2>2. TypeOK  BY <2>1 DEF Init, TypeOK
  <2> QED  BY <2>1, <2>2 DEF Init, IInv, BootIsQuiet, FiringHasOutcome, SeededRowsRecur,
                 SelfIsSettled, ClaimIsExclusive, InFlightIsHeld, OneRowPerKey,
                 LoopsAsConfigured
<1>2. IInv /\ [Next]_vars => IInv'
  BY RemindersAssumption, TypeStep, QuietStep, SeededStep, ExclusiveStep, OneRowStep, ConfiguredStep
     DEF IInv
<1> QED  BY <1>1, <1>2, PTL DEF Spec

\* Every variable of the reminder subsystem keeps its type: the table, the
\* startup's stage, the claims in memory.
THEOREM TypeCorrect == Spec => []TypeOK
<1>1. IInv => TypeOK  BY DEF IInv
<1> QED  BY <1>1, Invariant, PTL

\* The claim (claim_reminder) is exclusive: a row is in flight exactly when one
\* party holds its hooks, as long as no submit raised.
THEOREM Exclusive == Spec => []ClaimIsExclusive
<1>1. IInv => ClaimIsExclusive  BY DEF IInv
<1> QED  BY <1>1, Invariant, PTL

\* No row in flight is forgotten before the next boot, whatever fails.
THEOREM Held == Spec => []InFlightIsHeld
<1>1. IInv => InFlightIsHeld  BY DEF IInv
<1> QED  BY <1>1, Invariant, PTL

\* Two startups, or a startup and a delivery the last boot left behind, never
\* make a seeded loop run twice.
THEOREM OneRow == Spec => []OneRowPerKey
<1>1. IInv => OneRowPerKey  BY DEF IInv
<1> QED  BY <1>1, Invariant, PTL

\* While the bot is live its seeded loops are those of its configuration.
THEOREM Configured == Spec => []LoopsAsConfigured
<1>1. IInv => LoopsAsConfigured  BY DEF IInv
<1> QED  BY <1>1, Invariant, PTL

\* A reminder that was sent or cancelled stays so, as long as no submit raised.
THEOREM Final == Spec => ClosedIsFinal
<1>1. IInv /\ [Next]_vars => [~raised => \A i \in Ids : Closed(i) => rows'[i].status = rows[i].status]_vars
  BY ClosedStep DEF IInv
<1> QED  BY <1>1, Invariant, PTL DEF Spec, ClosedIsFinal
================================================================================
