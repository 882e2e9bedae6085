----------------------------- MODULE Engine_proofs -----------------------------
(***************************************************************************)
(* Proofs about Engine: the type invariant, that no message is held twice  *)
(* or again after it was sent, that the consumed rows and the buffer do    *)
(* not overlap, and that a reminder's hooks run at most once, for any      *)
(* messages, reminders, private chats and bounds.                          *)
(***************************************************************************)
EXTENDS Engine, FiniteSetTheorems, SequenceTheorems, TLAPS

--------------------------------------------------------------------------------
(* Sequences: the entries at some positions, and what a buffer is made of *)

\* Entries(s, I) is a sequence of what s has at the positions I, and of nothing
\* twice if s has nothing twice.  The n-th position of I is the one of rank n;
\* the ranks count I through, so each n has one.
LEMMA EntriesFacts ==
    ASSUME NEW S, NEW s \in Seq(S), NEW I \in SUBSET DOMAIN s
    PROVE  /\ Entries(s, I) \in Seq(S)
           /\ ToSet(Entries(s, I)) = {s[i] : i \in I}
           /\ IsInjective(s) => IsInjective(Entries(s, I))
<1> DEFINE Upto(i) == {j \in I : j <= i}
           Rank(i) == Cardinality(Upto(i))
           N == Cardinality(I)
           Nth(n) == CHOOSE i \in I : Rank(i) = n
           rank == [i \in I |-> Rank(i)]
<1>1. DOMAIN s = 1..Len(s) /\ Len(s) \in Nat
    BY LenProperties
<1>2. IsFiniteSet(I) /\ N \in Nat
    <2>1. IsFiniteSet(1..Len(s)) /\ I \in SUBSET (1..Len(s))
        BY <1>1, FS_Interval
    <2>2. IsFiniteSet(I)
        BY <2>1, FS_Subset
    <2> QED BY <2>2, FS_CardinalityType
<1>3. I \subseteq Int
    BY <1>1
<1>4. \A i \in I : IsFiniteSet(Upto(i)) /\ Rank(i) \in 1..N
    <2> SUFFICES ASSUME NEW i \in I PROVE IsFiniteSet(Upto(i)) /\ Rank(i) \in 1..N
        OBVIOUS
    <2>1. Upto(i) \in SUBSET I
        OBVIOUS
    <2>2. IsFiniteSet(Upto(i)) /\ Rank(i) <= N
        BY <1>2, <2>1, FS_Subset
    <2>3. Upto(i) # {}
        BY <1>3
    <2>4. Rank(i) \in Nat /\ Rank(i) # 0
        BY <2>2, <2>3, FS_CardinalityType, FS_EmptySet
    <2> HIDE DEF Rank, N, Upto
    <2> QED BY <1>2, <2>2, <2>4
<1>5. \A i, j \in I : Rank(i) = Rank(j) => i = j
    <2>1. ASSUME NEW i \in I, NEW j \in I, i < j PROVE Rank(i) # Rank(j)
        <3>1. Upto(i) \in SUBSET Upto(j) /\ j \in Upto(j) /\ j \notin Upto(i)
            BY <1>3, <2>1
        <3>2. Cardinality(Upto(j)) = Cardinality(Upto(i)) => Upto(j) = Upto(i)
            BY <3>1, <1>4, FS_Subset
        <3> QED BY <3>1, <3>2
    <2> HIDE DEF Rank
    <2> QED BY <1>3, <2>1
<1>6. \A n \in 1..N : Nth(n) \in I /\ Rank(Nth(n)) = n
    <2>1. rank \in Injection(I, 1..N)
        <3> HIDE DEF Rank, N
        <3> QED BY <1>4, <1>5 DEF Injection, IsInjective
    <2>2. IsFiniteSet(1..N) /\ Cardinality(1..N) = N
        BY <1>2, FS_Interval
    <2>3. rank \in Surjection(I, 1..N)
        BY <1>2, <2>1, <2>2, FS_Injection
    <2>4. \A n \in 1..N : \E i \in I : Rank(i) = n
        <3> HIDE DEF Rank, N
        <3> QED BY <2>3 DEF Surjection
    <2> HIDE DEF Rank, N
    <2> QED BY <2>4
<1>7. Entries(s, I) = [n \in 1..N |-> s[Nth(n)]]
    BY DEF Entries
<1> HIDE DEF Rank, N, Nth
<1>8. \A n \in 1..N : s[Nth(n)] \in S
    BY <1>1, <1>6, ElementOfSeq
<1>9. Entries(s, I) \in Seq(S)
    <2>1. Entries(s, I) \in [1..N -> S]
        BY <1>7, <1>8
    <2> QED BY <2>1, <1>2, SeqDef
<1>10. ToSet(Entries(s, I)) = {s[i] : i \in I}
    <2>1. \A i \in I : Rank(i) \in 1..N /\ Nth(Rank(i)) = i
        BY <1>4, <1>5, <1>6
    <2> QED BY <1>6, <1>7, <2>1 DEF ToSet
<1>11. ASSUME IsInjective(s) PROVE IsInjective(Entries(s, I))
    <2>1. \A m, n \in 1..N : s[Nth(m)] = s[Nth(n)] => Nth(m) = Nth(n)
        BY <1>1, <1>6, <1>11 DEF IsInjective
    <2> QED BY <1>6, <1>7, <2>1 DEF IsInjective
<1> QED BY <1>9, <1>10, <1>11

\* A message appended to a buffer.
LEMMA AppendFacts ==
    ASSUME NEW S, NEW s \in Seq(S), NEW e \in S
    PROVE  /\ Append(s, e) \in Seq(S)
           /\ ToSet(Append(s, e)) = ToSet(s) \cup {e}
           /\ IsInjective(s) /\ e \notin ToSet(s) => IsInjective(Append(s, e))
<1>1. /\ Append(s, e) \in Seq(S)
      /\ Len(Append(s, e)) = Len(s) + 1
      /\ \A i \in 1..Len(s) : Append(s, e)[i] = s[i]
      /\ Append(s, e)[Len(s) + 1] = e
    BY AppendProperties
<1>2. /\ DOMAIN s = 1..Len(s) /\ Len(s) \in Nat
      /\ DOMAIN Append(s, e) = 1..(Len(s) + 1)
    BY <1>1, LenProperties
<1> DEFINE t == Append(s, e)
<1> HIDE DEF t
<1>3. ToSet(t) = ToSet(s) \cup {e}
    BY <1>1, <1>2 DEF ToSet, t
<1>4. ASSUME IsInjective(s), e \notin ToSet(s) PROVE IsInjective(t)
    BY <1>1, <1>2, <1>4 DEF ToSet, IsInjective, t
<1> QED BY <1>1, <1>3, <1>4 DEF t

\* A batch put back in front of a buffer.
LEMMA ConcatFacts ==
    ASSUME NEW S, NEW s \in Seq(S), NEW t \in Seq(S)
    PROVE  /\ s \o t \in Seq(S)
           /\ ToSet(s \o t) = ToSet(s) \cup ToSet(t)
           /\ IsInjective(s) /\ IsInjective(t) /\ ToSet(s) \cap ToSet(t) = {}
                => IsInjective(s \o t)
<1> DEFINE u == s \o t
<1>1. /\ u \in Seq(S) /\ Len(u) = Len(s) + Len(t)
      /\ \A i \in 1..(Len(s) + Len(t)) :
            u[i] = IF i <= Len(s) THEN s[i] ELSE t[i - Len(s)]
    BY ConcatProperties
<1>2. /\ DOMAIN s = 1..Len(s) /\ Len(s) \in Nat /\ DOMAIN t = 1..Len(t) /\ Len(t) \in Nat
      /\ DOMAIN u = 1..(Len(s) + Len(t))
    BY <1>1, LenProperties
<1> HIDE DEF u
<1>3. \A i \in DOMAIN t : i + Len(s) \in DOMAIN u /\ u[i + Len(s)] = t[i]
    BY <1>1, <1>2
<1>4. \A i \in DOMAIN s : i \in DOMAIN u /\ u[i] = s[i]
    BY <1>1, <1>2
<1>5. \A i \in DOMAIN u : \/ i \in DOMAIN s /\ u[i] = s[i]
                          \/ i - Len(s) \in DOMAIN t /\ u[i] = t[i - Len(s)]
    BY <1>1, <1>2
<1>6. ToSet(u) = ToSet(s) \cup ToSet(t)
    BY <1>3, <1>4, <1>5 DEF ToSet
<1>7. ASSUME IsInjective(s), IsInjective(t), ToSet(s) \cap ToSet(t) = {}
      PROVE  IsInjective(u)
    <2> SUFFICES ASSUME NEW i \in DOMAIN u, NEW j \in DOMAIN u, u[i] = u[j] PROVE i = j
        BY DEF IsInjective
    <2>1. \A x \in DOMAIN s, y \in DOMAIN t : s[x] # t[y]
        BY <1>7 DEF ToSet
    <2>2. CASE i \in DOMAIN s /\ j \in DOMAIN s
        BY <1>4, <1>7, <2>2 DEF IsInjective
    <2>3. CASE i \notin DOMAIN s /\ j \notin DOMAIN s
        <3>1. i - Len(s) = j - Len(s)
            BY <1>5, <1>7, <2>3 DEF IsInjective
        <3> QED BY <1>2, <3>1
    <2>4. CASE (i \in DOMAIN s) # (j \in DOMAIN s)
        BY <1>4, <1>5, <2>1, <2>4
    <2> QED BY <2>2, <2>3, <2>4
<1> QED BY <1>1, <1>6, <1>7 DEF u

\* No batch at all.
LEMMA NoBatch ==
    \A S : <<>> \in Seq(S) /\ ToSet(<<>>) = {} /\ IsInjective(<<>>)
BY EmptySeq DEF ToSet, IsInjective

\* split_by_key loses and invents nothing.
LEMMA SplitFacts ==
    ASSUME NEW k, NEW s \in Seq(Msgs)
    PROVE  /\ OfKey(k, s) \in Seq(Msgs) /\ NotOfKey(k, s) \in Seq(Msgs)
           /\ ToSet(OfKey(k, s)) = {m \in ToSet(s) : Key(m) = k}
           /\ ToSet(NotOfKey(k, s)) = {m \in ToSet(s) : Key(m) # k}
           /\ IsInjective(s) => IsInjective(OfKey(k, s)) /\ IsInjective(NotOfKey(k, s))
<1> DEFINE I == {i \in DOMAIN s : Key(s[i]) = k}
           J == {i \in DOMAIN s : Key(s[i]) # k}
<1>1. I \in SUBSET DOMAIN s /\ J \in SUBSET DOMAIN s
    OBVIOUS
<1>2. /\ Entries(s, I) \in Seq(Msgs) /\ ToSet(Entries(s, I)) = {s[i] : i \in I}
      /\ IsInjective(s) => IsInjective(Entries(s, I))
    BY <1>1, EntriesFacts
<1>3. /\ Entries(s, J) \in Seq(Msgs) /\ ToSet(Entries(s, J)) = {s[i] : i \in J}
      /\ IsInjective(s) => IsInjective(Entries(s, J))
    BY <1>1, EntriesFacts
<1>4. /\ {s[i] : i \in I} = {m \in ToSet(s) : Key(m) = k}
      /\ {s[i] : i \in J} = {m \in ToSet(s) : Key(m) # k}
    BY DEF ToSet
<1> QED BY <1>2, <1>3, <1>4 DEF OfKey, NotOfKey

\* The boot replays the stored rows that are not consumed.
LEMMA ReplayFacts ==
    ASSUME rows \in Seq(Humans)
    PROVE  /\ Replay \in Seq(Humans) /\ ToSet(Replay) = ToSet(rows) \ consumed
           /\ IsInjective(rows) => IsInjective(Replay)
<1> DEFINE I == {i \in DOMAIN rows : rows[i] \notin consumed}
<1>1. I \in SUBSET DOMAIN rows
    OBVIOUS
<1>2. /\ Entries(rows, I) \in Seq(Humans) /\ ToSet(Entries(rows, I)) = {rows[i] : i \in I}
      /\ IsInjective(rows) => IsInjective(Entries(rows, I))
    BY <1>1, EntriesFacts
<1>3. {rows[i] : i \in I} = ToSet(rows) \ consumed
    BY DEF ToSet
<1> QED BY <1>2, <1>3 DEF Replay
--------------------------------------------------------------------------------
(* Types *)

\* What a sequence has is of the sequence's type.
LEMMA EntryTypes ==
    ASSUME NEW S, NEW s \in Seq(S) PROVE ToSet(s) \subseteq S
BY LenProperties, ElementOfSeq DEF ToSet

\* The parts of a handler keep the types of what they assign.
LEMMA TakeTypes ==
    ASSUME NEW k, NEW s \in Seq(Msgs), NEW hooks \in SUBSET (Keys \X Reminders),
           turnHooks \subseteq Reminders, TakeOfKey(k, s, hooks)
    PROVE  /\ pending' \in Seq(Msgs)
           /\ pendingHooks' \subseteq Keys \X Reminders
           /\ turnHooks' \subseteq Reminders
BY SplitFacts DEF TakeOfKey, HooksOfKey

LEMMA MarkTypes ==
    ASSUME turn \in Turns, marking \cup misfiled \subseteq Humans, NEW batch, Mark(batch)
    PROVE  turn' \in Turns /\ marking' \cup misfiled' \subseteq Humans
BY DEF Mark, HumansOf, Turns

LEMMA ReplayTypes ==
    ASSUME rows \in Seq(Humans)
    PROVE  Replay \in Seq(Msgs) /\ <<>> \in Seq(Results) /\ (Replay # <<>>) \in BOOLEAN
BY ReplayFacts, SeqMonotonic, NoBatch DEF Msgs

LEMMA BoundTypes ==
    /\ MaxHeartbeats \in Nat /\ MaxSwitchFailures \in Nat /\ MaxCrashes \in Nat
    /\ MaxResets \in Nat /\ MaxRestarts \in Nat
BY EngineAssumption

LEMMA TurnTypes ==
    /\ \A t \in Turns : /\ t.key \in Keys /\ t.keys \subseteq Humans
                         /\ t.heartbeats \in 0..MaxHeartbeats
    /\ \A t \in Turns, b \in BOOLEAN : [t EXCEPT !.awaiting = b] \in Turns
    /\ \A t \in Turns : [t EXCEPT !.retried = TRUE] \in Turns
    /\ \A t \in Turns, n \in 0..MaxHeartbeats, b \in BOOLEAN :
          [t EXCEPT !.heartbeats = n, !.awaiting = b] \in Turns
    /\ \A t \in Turns, b \in BOOLEAN :
          [t EXCEPT !.keys = {}, !.heartbeats = 0, !.retried = FALSE, !.awaiting = b] \in Turns
    /\ [key |-> "shared", keys |-> {}, heartbeats |-> 0, retried |-> FALSE,
        awaiting |-> FALSE] \in Turns
<1>1. 0 \in 0..MaxHeartbeats /\ "shared" \in Keys
    BY BoundTypes DEF Keys
<1>2. \A t \in Turns, b \in BOOLEAN :
          [t EXCEPT !.keys = {}, !.heartbeats = 0, !.retried = FALSE, !.awaiting = b] \in Turns
    BY <1>1 DEF Turns
<1>3. [key |-> "shared", keys |-> {}, heartbeats |-> 0, retried |-> FALSE,
       awaiting |-> FALSE] \in Turns
    BY <1>1 DEF Turns
<1> QED BY <1>2, <1>3 DEF Turns

LEMMA LoopTypes ==
    /\ \A b : Rest(b) \in Positions
    /\ \A pc \in Points : At(pc) \in Positions
    /\ \A pc \in Points, o \in Results : [At(pc) EXCEPT !.outcome = o] \in Positions
    /\ \A pc \in Points, s \in Seq(Msgs) : [At(pc) EXCEPT !.batch = s] \in Positions
    /\ \A pc \in Points, K \in SUBSET Humans : [At(pc) EXCEPT !.keys = K] \in Positions
    /\ \A l \in Positions, pc \in Points : [l EXCEPT !.pc = pc] \in Positions
    /\ \A l \in Positions : l.batch \in Seq(Msgs) /\ l.keys \subseteq Humans
<1>1. \A pc \in Points : At(pc) \in Positions
    BY NoBatch DEF At, Positions
<1>2. \A b : Rest(b) \in Positions
    BY <1>1 DEF Rest, Points
<1> QED BY <1>1, <1>2 DEF Positions

LEMMA KickTaskTypes ==
    \A k \in KickTasks :
        /\ k.batch \in Seq(Msgs) /\ k.by \in {"debounce", "retry", "loop"}
        /\ \A pc \in {"switch", "entered", "send"} : [k EXCEPT !.pc = pc] \in KickTasks
BY DEF KickTasks

LEMMA ResetTypes ==
    ASSUME open \in {"none", "sent", "orphan"}, answers \in Seq(Results), ResetWorker
    PROVE  /\ open' \in {"none", "sent", "orphan"} /\ answers' \in Seq(Results)
           /\ proc' \in {"up", "gone"}
<1>1. "session-reset" \in Results
    BY DEF Results
<1>2. Append(answers, "session-reset") \in Seq(Results)
    BY <1>1, AppendFacts
<1> QED BY <1>2 DEF ResetWorker

LEMMA HookTypes ==
    ASSUME hookRuns \in [Reminders -> Nat], RunHooks
    PROVE  hookRuns' \in [Reminders -> Nat] /\ turnHooks' = {}
BY DEF RunHooks

LEMMA KickTypes ==
    ASSUME TypeOK, NEW by \in {"debounce", "retry", "loop"}, Kick(by)
    PROVE  /\ pending' \in Seq(Msgs)
           /\ pendingHooks' \subseteq Keys \X Reminders /\ turnHooks' \subseteq Reminders
           /\ processing' \in BOOLEAN /\ turn' \in Turns /\ kicks' \subseteq KickTasks
           /\ proc' \in {"up", "gone"}
<1>1. CASE pending = <<>> \/ processing
    BY <1>1 DEF Kick, TypeOK
<1>2. CASE ~(pending = <<>> \/ processing)
    <2> DEFINE k == Key(Head(pending))
               kick == [by |-> by, batch |-> OfKey(k, pending),
                        pc |-> IF k = session THEN "entered" ELSE "switch"]
    <2>1. /\ TakeOfKey(k, pending, pendingHooks)
          /\ processing' = TRUE /\ turn' = [turn EXCEPT !.key = k]
          /\ kicks' = kicks \cup {kick}
          /\ proc' = IF k = session THEN proc ELSE "gone"
        BY <1>2 DEF Kick
    <2>2. k \in Keys
        BY DEF Key, Keys
    <2> HIDE DEF k
    <2>3. kick \in KickTasks
        BY <2>2, SplitFacts DEF KickTasks, TypeOK
    <2>4. turn' \in Turns
        BY <2>1, <2>2 DEF Turns, TypeOK
    <2> QED BY <2>1, <2>3, <2>4, TakeTypes DEF TypeOK
<1> QED BY <1>1, <1>2

\* One step keeps the types.
LEMMA TypeStep ==
    ASSUME TypeOK, [Next]_vars PROVE TypeOK'
<1> USE DEF TypeOK, Points, procVars, dbVars, boundVars
<1>1. ASSUME NEW m \in Msgs, Submit(m) PROVE TypeOK'
    <2> DEFINE buffer == Append(pending, m)
               hooks == pendingHooks \cup ({Key(m)} \X ({m} \cap Reminders))
               batch == OfKey(turn.key, buffer)
    <2>1. buffer \in Seq(Msgs)
        BY <1>1, AppendFacts
    <2>2. hooks \in SUBSET (Keys \X Reminders)
        BY DEF Key, Keys
    <2>3. batch \in Seq(Msgs)
        BY <2>1, SplitFacts
    <2>4. rows' \in Seq(Humans)
        BY <1>1, AppendFacts DEF Submit
    <2>5. [turn EXCEPT !.awaiting = @ \/ AwaitsReply(batch)] \in Turns
        BY DEF AwaitsReply, Turns
    <2>6. processing => TakeOfKey(turn.key, buffer, hooks)
        BY <1>1 DEF Submit
    <2>7. /\ processing => /\ injects' = injects \cup ({batch} \ {<<>>})
                           /\ turn' = [turn EXCEPT !.awaiting = @ \/ AwaitsReply(batch)]
                           /\ UNCHANGED <<debounce, kicks>>
          /\ ~processing => /\ pending' = buffer /\ pendingHooks' = hooks /\ debounce' = TRUE
                            /\ kicks' = {k \in kicks : k.by # "debounce"}
                            /\ UNCHANGED <<turnHooks, injects, turn>>
          /\ submitted' = submitted \cup {m}
          /\ UNCHANGED <<processing, retries, marking, loop, procVars, consumed, processed,
                         handed, delivered, misfiled, hookRuns, boundVars>>
        BY <1>1 DEF Submit
    <2> HIDE DEF buffer, hooks, batch
    <2>8. pending' \in Seq(Msgs) /\ pendingHooks' \subseteq Keys \X Reminders
          /\ turnHooks' \subseteq Reminders
        BY <2>1, <2>2, <2>6, <2>7, TakeTypes
    <2> QED BY <1>1, <2>3, <2>4, <2>5, <2>7, <2>8
<1>2. ASSUME NEW b \in injects, Inject(b) PROVE TypeOK'
    BY <1>2, MarkTypes, EntryTypes DEF Inject, Write
<1>3. ASSUME DebounceFires PROVE TypeOK'
    BY <1>3, KickTypes DEF DebounceFires
<1>4. ASSUME RetryFires PROVE TypeOK'
    BY <1>4, KickTypes DEF RetryFires
<1>5. ASSUME NEW k \in kicks, SwitchDone(k) PROVE TypeOK'
    BY <1>5, KickTaskTypes, TurnTypes DEF SwitchDone
<1>6. ASSUME NEW k \in kicks, SwitchFails(k) PROVE TypeOK'
    <2>1. k.batch \in Seq(Msgs) /\ turn.key \in Keys
        BY <1>6, KickTaskTypes, TurnTypes
    <2>2. k.batch \o pending \in Seq(Msgs)
        BY <2>1, ConcatFacts
    <2>3. failures' \in 0..MaxSwitchFailures /\ retries' \in 0..failures'
        BY <1>6, BoundTypes DEF SwitchFails
    <2> QED BY <1>6, <2>1, <2>2, <2>3, LoopTypes DEF SwitchFails
<1>7. ASSUME NEW k \in kicks, Prepare(k) PROVE TypeOK'
    BY <1>7, KickTaskTypes, TurnTypes DEF Prepare, AwaitsReply
<1>8. ASSUME NEW k \in kicks, SendBatch(k) PROVE TypeOK'
    <2>1. loop' \in Positions
        <3>1. loop' \in {Rest(processing), At("dead"), loop}
            BY <1>8 DEF SendBatch
        <3> QED BY <3>1, LoopTypes DEF Points
    <2>2. ToSet(k.batch) \subseteq Msgs
        BY <1>8, EntryTypes, KickTaskTypes
    <2>3. turn' \in Turns /\ marking' \cup misfiled' \subseteq Humans
        BY <1>8, MarkTypes DEF SendBatch
    <2>4. open' \in {"none", "sent", "orphan"} /\ handed' \cup delivered' \subseteq Msgs
        BY <1>8, <2>2 DEF SendBatch, Write
    <2>5. /\ kicks' \subseteq kicks
          /\ UNCHANGED <<pending, pendingHooks, turnHooks, processing, debounce, retries, injects,
                         proc, session, answers, dbVars, submitted, hookRuns, boundVars>>
        BY <1>8 DEF SendBatch
    <2> QED BY <2>1, <2>3, <2>4, <2>5
<1>9. ASSUME MarkDone PROVE TypeOK'
    BY <1>9 DEF MarkDone
<1>10. ASSUME SeeTurn PROVE TypeOK'
    BY <1>10, LoopTypes DEF SeeTurn
<1>11. ASSUME TakeAnswer PROVE TypeOK'
    BY <1>11, HeadTailProperties, LoopTypes DEF TakeAnswer
<1>12. ASSUME HandleReset PROVE TypeOK'
    BY <1>12, HookTypes, LoopTypes DEF HandleReset, Handle
<1>13. ASSUME HandleUndelivered PROVE TypeOK'
    BY <1>13, LoopTypes DEF HandleUndelivered, Handle
<1>14. ASSUME HandleApiError PROVE TypeOK'
    <2>1. loop' \in Positions
        BY <1>14, LoopTypes DEF HandleApiError, Points
    <2>2. hookRuns' \in [Reminders -> Nat] /\ turnHooks' \subseteq Reminders
        BY <1>14, HookTypes DEF HandleApiError
    <2>3. UNCHANGED <<pending, pendingHooks, processing, turn, debounce, retries, kicks, injects,
                      marking, procVars, dbVars, submitted, handed, delivered, misfiled, boundVars>>
        BY <1>14 DEF HandleApiError, Handle
    <2> QED BY <2>1, <2>2, <2>3
<1>15. ASSUME HandleHeartbeat PROVE TypeOK'
    <2> DEFINE batch == OfKey(turn.key, pending)
    <2>1. batch \in Seq(Msgs)
        BY SplitFacts
    <2>2. TakeOfKey(turn.key, pending, pendingHooks)
        BY <1>15 DEF HandleHeartbeat
    <2>3. turn' \in Turns
        <3>1. turn.heartbeats + 1 \in 0..MaxHeartbeats
            <4>1. turn.heartbeats < MaxHeartbeats
                BY <1>15 DEF HandleHeartbeat
            <4>2. turn.heartbeats \in 0..MaxHeartbeats
                BY TurnTypes
            <4> QED BY <4>1, <4>2, BoundTypes
        <3>2. turn' = [turn EXCEPT !.heartbeats = @ + 1,
                                   !.awaiting = @ \/ AwaitsReply(batch)]
            BY <1>15 DEF HandleHeartbeat
        <3> QED BY <3>1, <3>2 DEF AwaitsReply, Turns
    <2>4. loop' \in Positions
        BY <1>15, <2>1, LoopTypes DEF HandleHeartbeat
    <2>5. /\ processing' = (processing \/ batch = <<>>)
          /\ UNCHANGED <<debounce, retries, kicks, injects, marking, procVars, dbVars,
                         submitted, handed, delivered, misfiled, boundVars, hookRuns>>
        BY <1>15 DEF HandleHeartbeat, Handle
    <2> HIDE DEF batch
    <2> QED BY <2>2, <2>3, <2>4, <2>5, TakeTypes
<1>16. ASSUME HandleSilentStop PROVE TypeOK'
    BY <1>16, LoopTypes, TurnTypes DEF HandleSilentStop, Handle
<1>17. ASSUME HandleFinish PROVE TypeOK'
    BY <1>17, LoopTypes, TurnTypes DEF HandleFinish, Handle
<1>18. ASSUME Delivered PROVE TypeOK'
    BY <1>18, HookTypes, LoopTypes DEF Delivered
<1>19. ASSUME Notified PROVE TypeOK'
    BY <1>19, HookTypes, LoopTypes DEF Notified
<1>20. ASSUME ResetAfterApiError PROVE TypeOK'
    BY <1>20, ResetTypes, LoopTypes DEF ResetAfterApiError
<1>21. ASSUME Formatted PROVE TypeOK'
    BY <1>21, LoopTypes DEF Formatted
<1>22. ASSUME Resume PROVE TypeOK'
    <2>1. loop' \in Positions
        BY <1>22, LoopTypes DEF Resume, Points
    <2>2. ToSet(loop.batch) \subseteq Msgs
        BY EntryTypes, LoopTypes
    <2>3. turn' \in Turns /\ marking' \cup misfiled' \subseteq Humans
        BY <1>22, MarkTypes DEF Resume
    <2>4. open' \in {"none", "sent", "orphan"} /\ handed' \cup delivered' \subseteq Msgs
        BY <1>22, <2>2 DEF Resume, Write
    <2>5. UNCHANGED <<pending, pendingHooks, turnHooks, processing, debounce, retries, kicks,
                      injects, proc, session, answers, dbVars, submitted, hookRuns, boundVars>>
        BY <1>22 DEF Resume
    <2> QED BY <2>1, <2>3, <2>4, <2>5
<1>23. ASSUME Commit PROVE TypeOK'
    BY <1>23, HookTypes, LoopTypes DEF Commit
<1>24. ASSUME Drain PROVE TypeOK'
    BY <1>24, KickTypes, LoopTypes DEF Drain
<1>25. ASSUME NEW o \in Outcomes, AnswerTurn(o) PROVE TypeOK'
    BY <1>25, AppendFacts, EngineAssumption DEF AnswerTurn, memVars, Results
<1>26. ASSUME WorkerCrash PROVE TypeOK'
    BY <1>26, BoundTypes DEF WorkerCrash, memVars, FaultLeft
<1>27. ASSUME Respawn PROVE TypeOK'
    BY <1>27 DEF Respawn, memVars
<1>28. ASSUME OwnerReset PROVE TypeOK'
    BY <1>28, ResetTypes, BoundTypes DEF OwnerReset, memVars, FaultLeft
<1>29. ASSUME Restart PROVE TypeOK'
    <2>1. Replay \in Seq(Msgs) /\ <<>> \in Seq(Results) /\ (Replay # <<>>) \in BOOLEAN
        BY ReplayTypes
    <2>2. restarts' \in 0..MaxRestarts /\ 0 \in 0..failures /\ "shared" \in Keys
        BY <1>29, BoundTypes DEF Restart, Keys
    <2>3. turn' \in Turns /\ loop' \in Positions
        BY <1>29, TurnTypes, LoopTypes DEF Restart
    <2>4. /\ pending' = Replay /\ debounce' = (Replay # <<>>)
          /\ pendingHooks' = {} /\ turnHooks' = {} /\ processing' = FALSE /\ retries' = 0
          /\ kicks' = {} /\ injects' = {} /\ marking' = {}
          /\ proc' = "up" /\ session' = "shared" /\ open' = "none" /\ answers' = <<>>
          /\ handed' = {}
          /\ UNCHANGED <<rows, consumed, processed, submitted, delivered, misfiled, hookRuns,
                         failures, crashes, resets>>
        BY <1>29 DEF Restart
    <2> QED BY <2>1, <2>2, <2>3, <2>4
<1>30. ASSUME UNCHANGED vars PROVE TypeOK'
    BY <1>30 DEF vars, memVars
<1> QED BY <1>1, <1>2, <1>3, <1>4, <1>5, <1>6, <1>7, <1>8, <1>9, <1>10, <1>11, <1>12, <1>13, <1>14, <1>15, <1>16, <1>17, <1>18, <1>19, <1>20, <1>21, <1>22, <1>23, <1>24, <1>25, <1>26, <1>27, <1>28, <1>29, <1>30
    DEF Next, Inbound, KickStep, ControlLoop, Worker
--------------------------------------------------------------------------------
(* Who holds what *)

\* Hands that are let go, and hands with nothing in them, disturb nobody; what a
\* hand let go of is held no more.
LEMMA Dropped ==
    ASSUME NEW s, NEW H, NEW G, Apart(s, H),
           \A g \in G : g \in H \/ g.batch = <<>>
    PROVE  /\ Apart(s, G) /\ HeldIn(s, G) \subseteq HeldIn(s, H)
           /\ \A h \in H \ G : ToSet(h.batch) \cap HeldIn(s, G) = {}
<1>1. \A g \in G : g \notin H => ToSet(g.batch) = {} /\ IsInjective(g.batch)
    BY NoBatch
<1>2. Apart(s, G)
    <2>1. \A g \in G : IsInjective(g.batch) /\ ToSet(g.batch) \cap ToSet(s) = {}
        BY <1>1 DEF Apart
    <2>2. ASSUME NEW g \in G, NEW h \in G, g # h
          PROVE  ToSet(g.batch) \cap ToSet(h.batch) = {}
        <3>1. CASE g \in H /\ h \in H
            BY <2>2, <3>1 DEF Apart
        <3>2. CASE g \notin H \/ h \notin H
            BY <1>1, <3>2
        <3> QED BY <3>1, <3>2
    <2> QED BY <2>1, <2>2 DEF Apart
<1>3. HeldIn(s, G) \subseteq HeldIn(s, H)
    BY <1>1 DEF HeldIn
<1>4. ASSUME NEW h \in H \ G PROVE ToSet(h.batch) \cap HeldIn(s, G) = {}
    <2>1. ASSUME NEW g \in G PROVE ToSet(h.batch) \cap ToSet(g.batch) = {}
        <3>1. CASE g \in H
            BY <1>4, <2>1, <3>1 DEF Apart
        <3>2. CASE g \notin H
            BY <1>1, <3>2
        <3> QED BY <3>1, <3>2
    <2>2. ToSet(h.batch) \cap ToSet(s) = {}
        BY <1>4 DEF Apart
    <2> QED BY <2>1, <2>2 DEF HeldIn
<1> QED BY <1>2, <1>3, <1>4

\* A kick that goes on holds the batch it held.
LEMMA Moved ==
    ASSUME NEW s, NEW H, NEW h \in H, NEW g, g.batch = h.batch, Apart(s, H)
    PROVE  Apart(s, (H \ {h}) \cup {g}) /\ HeldIn(s, (H \ {h}) \cup {g}) \subseteq HeldIn(s, H)
BY DEF Apart, HeldIn

\* One session's messages go from the buffer into a hand.
LEMMA Taken ==
    ASSUME NEW s \in Seq(Msgs), NEW H, NEW k, NEW g, g.batch = OfKey(k, s), Apart(s, H)
    PROVE  /\ Apart(NotOfKey(k, s), H \cup {g})
           /\ HeldIn(NotOfKey(k, s), H \cup {g}) \subseteq HeldIn(s, H)
<1> DEFINE n == NotOfKey(k, s)
           o == OfKey(k, s)
<1>1. /\ ToSet(o) = {m \in ToSet(s) : Key(m) = k} /\ ToSet(n) = {m \in ToSet(s) : Key(m) # k}
      /\ IsInjective(o) /\ IsInjective(n)
    BY SplitFacts DEF Apart
<1> HIDE DEF n, o
<1>2. ToSet(o) \cap ToSet(n) = {} /\ ToSet(o) \cup ToSet(n) = ToSet(s)
    BY <1>1
<1>3. g.batch = o
    BY DEF o
<1>4. Apart(n, H \cup {g})
    BY <1>1, <1>2, <1>3 DEF Apart
<1>5. HeldIn(n, H \cup {g}) \subseteq HeldIn(s, H)
    BY <1>2, <1>3 DEF HeldIn
<1> QED BY <1>4, <1>5 DEF n

\* A batch goes back in front of the buffer.
LEMMA PutBack ==
    ASSUME NEW s \in Seq(Msgs), NEW H, NEW h \in H, h.batch \in Seq(Msgs), Apart(s, H)
    PROVE  /\ Apart(h.batch \o s, H \ {h})
           /\ HeldIn(h.batch \o s, H \ {h}) \subseteq HeldIn(s, H)
<1>1. /\ ToSet(h.batch \o s) = ToSet(h.batch) \cup ToSet(s)
      /\ IsInjective(h.batch \o s)
    BY ConcatFacts DEF Apart
<1> DEFINE u == h.batch \o s
<1> HIDE DEF u
<1>2. Apart(u, H \ {h}) /\ HeldIn(u, H \ {h}) \subseteq HeldIn(s, H)
    BY <1>1 DEF Apart, HeldIn, u
<1> QED BY <1>2 DEF u

\* A message nobody holds comes in.
LEMMA CameIn ==
    ASSUME NEW s \in Seq(Msgs), NEW H, NEW m \in Msgs, m \notin HeldIn(s, H), Apart(s, H)
    PROVE  Apart(Append(s, m), H) /\ HeldIn(Append(s, m), H) = HeldIn(s, H) \cup {m}
<1>1. m \notin ToSet(s) /\ \A h \in H : m \notin ToSet(h.batch)
    BY DEF HeldIn
<1>2. IsInjective(Append(s, m)) /\ ToSet(Append(s, m)) = ToSet(s) \cup {m}
    BY <1>1, AppendFacts DEF Apart
<1> DEFINE u == Append(s, m)
<1> HIDE DEF u
<1>3. Apart(u, H) /\ HeldIn(u, H) = HeldIn(s, H) \cup {m}
    BY <1>1, <1>2 DEF Apart, HeldIn, u
<1> QED BY <1>3 DEF u

\* Who holds a batch, by kind.
LEMMA HandFacts ==
    /\ \A b : FollowUp(b).batch = b /\ Continuation(b).batch = b
    /\ \A b, c : FollowUp(b) = FollowUp(c) => b = c
    /\ \A b, c : FollowUp(b) # Continuation(c)
    /\ \A k \in KickTasks : \A b : k # FollowUp(b) /\ k # Continuation(b)
    /\ TypeOK => \A h \in Hands : h.batch \in Seq(Msgs)
<1>1. \A b : FollowUp(b).batch = b /\ Continuation(b).batch = b
    BY DEF FollowUp, Continuation
<1>2. \A b, c : FollowUp(b) = FollowUp(c) => b = c
    BY <1>1
<1>3. \A b, c : FollowUp(b).pc # Continuation(c).pc
    BY DEF FollowUp, Continuation
<1>4. \A k \in KickTasks : \A b : k.pc # FollowUp(b).pc /\ k.pc # Continuation(b).pc
    BY DEF KickTasks, FollowUp, Continuation
<1>5. TypeOK => \A h \in Hands : h.batch \in Seq(Msgs)
    <2> SUFFICES ASSUME TypeOK, NEW h \in Hands PROVE h.batch \in Seq(Msgs)
        OBVIOUS
    <2>1. CASE h \in kicks
        BY <2>1, KickTaskTypes DEF TypeOK
    <2>2. ASSUME NEW b \in injects, h = FollowUp(b) PROVE h.batch \in Seq(Msgs)
        BY <1>1, <2>2 DEF TypeOK
    <2>3. CASE h = Continuation(loop.batch)
        BY <1>1, <2>3, LoopTypes DEF TypeOK
    <2> QED BY <2>1, <2>2, <2>3 DEF Hands
<1> QED BY <1>1, <1>2, <1>3, <1>4, <1>5

\* Where the control loop holds no batch after a step, nothing new is held.
LEMMA HandsAfter ==
    ASSUME kicks' \subseteq kicks, injects' \subseteq injects,
           loop'.batch = <<>> \/ loop'.batch = loop.batch
    PROVE  \A h \in Hands' : h \in Hands \/ h.batch = <<>>
BY HandFacts DEF Hands

\* The rows of a batch, and the writing and marking of one.
LEMMA SentFacts ==
    ASSUME NEW batch, Mark(batch)
    PROVE  marking' \subseteq marking \cup ToSet(batch)
BY DEF Mark, HumansOf

\* The kinds of step: nothing is moved; one session's messages are taken from the
\* buffer; one hand is emptied and its batch sent, or lost, or put back.
LEMMA QuietStep ==
    ASSUME HeldIsUnsent, pending' = pending, \A h \in Hands' : h \in Hands \/ h.batch = <<>>,
           handed' = handed, rows' = rows, submitted' = submitted,
           consumed' \cup marking' \subseteq consumed \cup marking
    PROVE  HeldIsUnsent'
<1>1. Apart(pending, Hands') /\ HeldIn(pending, Hands') \subseteq HeldIn(pending, Hands)
    BY Dropped DEF HeldIsUnsent
<1>2. Apart(pending', Hands') /\ HeldIn(pending', Hands') \subseteq HeldIn(pending, Hands)
    BY <1>1
<1> QED BY <1>2 DEF HeldIsUnsent

LEMMA TakeStep ==
    ASSUME HeldIsUnsent, pending \in Seq(Msgs), NEW k, NEW g, g.batch = OfKey(k, pending),
           pending' = NotOfKey(k, pending),
           \A h \in Hands' : h \in Hands \/ h = g \/ h.batch = <<>>,
           handed' = handed, rows' = rows, submitted' = submitted, consumed' = consumed,
           marking' = marking
    PROVE  HeldIsUnsent'
<1> DEFINE s == NotOfKey(k, pending)
<1>1. Apart(s, Hands \cup {g}) /\ HeldIn(s, Hands \cup {g}) \subseteq HeldIn(pending, Hands)
    BY Taken DEF HeldIsUnsent
<1> HIDE DEF s
<1>2. Apart(s, Hands') /\ HeldIn(s, Hands') \subseteq HeldIn(s, Hands \cup {g})
    BY <1>1, Dropped
<1>3. Apart(pending', Hands') /\ HeldIn(pending', Hands') \subseteq HeldIn(pending, Hands)
    BY <1>1, <1>2 DEF s
<1> QED BY <1>3 DEF HeldIsUnsent

LEMMA SendStep ==
    ASSUME HeldIsUnsent, NEW h \in Hands, pending' = pending,
           \A g \in Hands' : (g \in Hands /\ g # h) \/ g.batch = <<>>,
           handed' \subseteq handed \cup ToSet(h.batch),
           marking' \subseteq marking \cup ToSet(h.batch),
           consumed' = consumed, rows' = rows, submitted' = submitted
    PROVE  HeldIsUnsent'
<1>1. /\ Apart(pending, Hands') /\ HeldIn(pending, Hands') \subseteq HeldIn(pending, Hands)
      /\ h \notin Hands' => ToSet(h.batch) \cap HeldIn(pending, Hands') = {}
    BY Dropped DEF HeldIsUnsent
<1>2. ToSet(h.batch) \cap HeldIn(pending, Hands') = {}
    BY <1>1, NoBatch
<1>3. ToSet(h.batch) \subseteq HeldIn(pending, Hands)
    BY DEF HeldIn
<1>4. Apart(pending', Hands') /\ HeldIn(pending', Hands') = HeldIn(pending, Hands')
    BY <1>1
<1> QED BY <1>1, <1>2, <1>3, <1>4 DEF HeldIsUnsent

LEMMA BackStep ==
    ASSUME HeldIsUnsent, pending \in Seq(Msgs), NEW k \in Hands, k.batch \in Seq(Msgs),
           pending' = k.batch \o pending,
           \A g \in Hands' : (g \in Hands /\ g # k) \/ g.batch = <<>>,
           handed' = handed, rows' = rows, submitted' = submitted, consumed' = consumed,
           marking' = marking
    PROVE  HeldIsUnsent'
<1> DEFINE s == k.batch \o pending
<1>1. Apart(s, Hands \ {k}) /\ HeldIn(s, Hands \ {k}) \subseteq HeldIn(pending, Hands)
    BY PutBack DEF HeldIsUnsent
<1> HIDE DEF s
<1>2. Apart(s, Hands') /\ HeldIn(s, Hands') \subseteq HeldIn(s, Hands \ {k})
    BY <1>1, Dropped
<1>3. Apart(pending', Hands') /\ HeldIn(pending', Hands') \subseteq HeldIn(pending, Hands)
    BY <1>1, <1>2 DEF s
<1> QED BY <1>3 DEF HeldIsUnsent

\* A kick moves on within itself.
LEMMA MoveStep ==
    ASSUME TypeOK, HeldIsUnsent, NEW k \in kicks,
           NEW pc \in {"switch", "entered", "send"},
           kicks' = (kicks \ {k}) \cup {[k EXCEPT !.pc = pc]},
           UNCHANGED <<pending, injects, loop, handed, rows, submitted, consumed, marking>>
    PROVE  HeldIsUnsent'
<1> DEFINE g == [k EXCEPT !.pc = pc]
<1>1. g.batch = k.batch
    BY DEF TypeOK, KickTasks
<1>2. Hands' = (kicks \ {k}) \cup {g} \cup {FollowUp(b) : b \in injects}
                             \cup {Continuation(loop.batch)}
    BY DEF Hands
<1>3. k \notin {FollowUp(b) : b \in injects} \cup {Continuation(loop.batch)}
    BY HandFacts DEF TypeOK
<1> HIDE DEF g
<1>4. Hands' = (Hands \ {k}) \cup {g} /\ k \in Hands
    BY <1>2, <1>3 DEF Hands
<1>5. Apart(pending, Hands') /\ HeldIn(pending, Hands') \subseteq HeldIn(pending, Hands)
    BY <1>1, <1>4, Moved DEF HeldIsUnsent
<1>6. Apart(pending', Hands') /\ HeldIn(pending', Hands') \subseteq HeldIn(pending, Hands)
    BY <1>5
<1> QED BY <1>6 DEF HeldIsUnsent

\* A kick takes a batch, or does nothing.
LEMMA KickStepHeld ==
    ASSUME TypeOK, HeldIsUnsent, NEW by \in {"debounce", "retry", "loop"}, Kick(by),
           injects' = injects, loop'.batch = <<>> \/ loop'.batch = loop.batch,
           UNCHANGED <<handed, rows, submitted, consumed, marking>>
    PROVE  HeldIsUnsent'
<1>1. CASE pending = <<>> \/ processing
    <2>1. pending' = pending /\ kicks' = kicks
        BY <1>1 DEF Kick
    <2>2. \A h \in Hands' : h \in Hands \/ h.batch = <<>>
        BY <2>1, HandsAfter
    <2> QED BY <2>1, <2>2, QuietStep
<1>2. CASE ~(pending = <<>> \/ processing)
    <2> DEFINE k == Key(Head(pending))
               kick == [by |-> by, batch |-> OfKey(k, pending),
                        pc |-> IF k = session THEN "entered" ELSE "switch"]
    <2>1. pending' = NotOfKey(k, pending) /\ kicks' = kicks \cup {kick}
        BY <1>2 DEF Kick, TakeOfKey
    <2>2. kick.batch = OfKey(k, pending)
        OBVIOUS
    <2> HIDE DEF kick, k
    <2>3. \A h \in Hands' : h \in Hands \/ h = kick \/ h.batch = <<>>
        BY <2>1, HandFacts DEF Hands
    <2>4. pending \in Seq(Msgs)
        BY DEF TypeOK
    <2> QED BY <2>1, <2>2, <2>3, <2>4, TakeStep
<1> QED BY <1>1, <1>2
\* No step puts a message into two hands, or into one again once it was sent or marked.
LEMMA HeldStep ==
    ASSUME TypeOK, HeldIsUnsent, [Next]_vars PROVE HeldIsUnsent'
<1>1. ASSUME NEW m \in Msgs, Submit(m) PROVE HeldIsUnsent'
    <2> DEFINE buffer == Append(pending, m)
    <2>0. m \notin HeldIn(pending, Hands) /\ m \notin handed \cup consumed \cup marking
        BY <1>1 DEF Submit, HeldIsUnsent
    <2>1. /\ Apart(buffer, Hands) /\ HeldIn(buffer, Hands) = HeldIn(pending, Hands) \cup {m}
          /\ buffer \in Seq(Msgs)
        BY <1>1, <2>0, CameIn, AppendFacts DEF HeldIsUnsent, TypeOK
    <2>2. Apart(pending', Hands') /\ HeldIn(pending', Hands') \subseteq HeldIn(buffer, Hands)
        <3>1. CASE processing
            <4> DEFINE g == FollowUp(OfKey(turn.key, buffer))
            <4>1. pending' = NotOfKey(turn.key, buffer)
                BY <1>1, <3>1 DEF Submit, TakeOfKey
            <4>2. /\ injects' \subseteq injects \cup {OfKey(turn.key, buffer)}
                  /\ kicks' = kicks /\ loop' = loop
                BY <1>1, <3>1 DEF Submit
            <4>3. \A h \in Hands' : h \in Hands \/ h = g
                BY <4>2 DEF Hands
            <4>4. g.batch = OfKey(turn.key, buffer)
                BY HandFacts
            <4> HIDE DEF g, buffer
            <4>5. /\ Apart(NotOfKey(turn.key, buffer), Hands \cup {g})
                  /\ HeldIn(NotOfKey(turn.key, buffer), Hands \cup {g}) \subseteq HeldIn(buffer, Hands)
                BY <2>1, <4>4, Taken
            <4>6. /\ Apart(NotOfKey(turn.key, buffer), Hands')
                  /\ HeldIn(NotOfKey(turn.key, buffer), Hands') \subseteq HeldIn(buffer, Hands)
                BY <4>3, <4>5, Dropped
            <4> QED BY <4>1, <4>6
        <3>2. CASE ~processing
            <4>1. /\ pending' = buffer /\ kicks' \subseteq kicks
                  /\ injects' = injects /\ loop' = loop
                BY <1>1, <3>2 DEF Submit
            <4>2. \A h \in Hands' : h \in Hands \/ h.batch = <<>>
                BY <4>1, HandsAfter
            <4> HIDE DEF buffer
            <4>3. Apart(buffer, Hands') /\ HeldIn(buffer, Hands') \subseteq HeldIn(buffer, Hands)
                BY <2>1, <4>2, Dropped
            <4> QED BY <4>1, <4>3
        <3> QED BY <3>1, <3>2
    <2>3. IsInjective(rows') /\ ToSet(rows') \subseteq ToSet(rows) \cup {m}
        BY <1>1, AppendFacts DEF Submit, HeldIsUnsent, TypeOK
    <2>4. submitted' = submitted \cup {m} /\ UNCHANGED <<handed, consumed, marking>>
        BY <1>1 DEF Submit
    <2> HIDE DEF buffer
    <2> QED BY <2>0, <2>1, <2>2, <2>3, <2>4 DEF HeldIsUnsent
<1>2. ASSUME NEW b \in injects, Inject(b) PROVE HeldIsUnsent'
    <2> DEFINE h == FollowUp(b)
    <2>1. h \in Hands /\ h.batch = b
        BY <1>2, HandFacts DEF Hands
    <2>2. \A g \in Hands' : g \in Hands /\ g # h
        <3>1. injects' = injects \ {b} /\ kicks' = kicks /\ loop' = loop
            BY <1>2 DEF Inject
        <3> QED BY <3>1, HandFacts DEF Hands, TypeOK
    <2>3. /\ pending' = pending /\ handed' \subseteq handed \cup ToSet(b)
          /\ marking' \subseteq marking \cup ToSet(b)
          /\ UNCHANGED <<consumed, rows, submitted>>
        BY <1>2, SentFacts DEF Inject, Write, dbVars
    <2> HIDE DEF h
    <2> QED BY <2>1, <2>2, <2>3, SendStep
<1>3. ASSUME DebounceFires PROVE HeldIsUnsent'
    <2>1. /\ injects' = injects
          /\ loop'.batch = <<>> \/ loop'.batch = loop.batch
          /\ UNCHANGED <<handed, rows, submitted, consumed, marking>>
        BY <1>3 DEF DebounceFires, dbVars, At, Rest
    <2> QED BY <1>3, <2>1, KickStepHeld DEF DebounceFires
<1>4. ASSUME RetryFires PROVE HeldIsUnsent'
    <2>1. /\ injects' = injects
          /\ loop'.batch = <<>> \/ loop'.batch = loop.batch
          /\ UNCHANGED <<handed, rows, submitted, consumed, marking>>
        BY <1>4 DEF RetryFires, dbVars, At, Rest
    <2> QED BY <1>4, <2>1, KickStepHeld DEF RetryFires
<1>5. ASSUME NEW k \in kicks, SwitchDone(k) PROVE HeldIsUnsent'
    BY <1>5, MoveStep DEF SwitchDone, dbVars, procVars
<1>6. ASSUME NEW k \in kicks, SwitchFails(k) PROVE HeldIsUnsent'
    <2>1. k \in Hands /\ k.batch \in Seq(Msgs) /\ pending \in Seq(Msgs)
        BY <1>6, KickTaskTypes DEF Hands, TypeOK
    <2>2. \A g \in Hands' : (g \in Hands /\ g # k) \/ g.batch = <<>>
        <3>1. /\ kicks' = kicks \ {k} /\ injects' = injects
              /\ loop' = loop \/ loop'.batch = <<>>
            BY <1>6 DEF SwitchFails, Rest, At
        <3> QED BY <3>1, HandFacts DEF Hands, TypeOK
    <2>3. /\ pending' = k.batch \o pending
          /\ UNCHANGED <<handed, rows, submitted, consumed, marking>>
        BY <1>6 DEF SwitchFails, dbVars
    <2> QED BY <2>1, <2>2, <2>3, BackStep
<1>7. ASSUME NEW k \in kicks, Prepare(k) PROVE HeldIsUnsent'
    BY <1>7, MoveStep DEF Prepare, dbVars, procVars
<1>8. ASSUME NEW k \in kicks, SendBatch(k) PROVE HeldIsUnsent'
    <2>1. k \in Hands
        BY <1>8 DEF Hands
    <2>2. \A g \in Hands' : (g \in Hands /\ g # k) \/ g.batch = <<>>
        <3>1. /\ kicks' = kicks \ {k} /\ injects' = injects
              /\ loop' = loop \/ loop'.batch = <<>>
            BY <1>8 DEF SendBatch, Rest, At
        <3> QED BY <3>1, HandFacts DEF Hands, TypeOK
    <2>3. /\ pending' = pending /\ handed' \subseteq handed \cup ToSet(k.batch)
          /\ marking' \subseteq marking \cup ToSet(k.batch)
          /\ UNCHANGED <<consumed, rows, submitted>>
        BY <1>8, SentFacts DEF SendBatch, Write, dbVars
    <2> QED BY <2>1, <2>2, <2>3, SendStep
<1>9. ASSUME MarkDone PROVE HeldIsUnsent'
    <2>1. /\ pending' = pending /\ kicks' = kicks /\ injects' = injects
          /\ loop'.batch = <<>> \/ loop'.batch = loop.batch
          /\ UNCHANGED <<handed, rows, submitted>>
          /\ consumed' \cup marking' \subseteq consumed \cup marking
        BY <1>9 DEF MarkDone, dbVars, At, Rest
    <2>2. \A h \in Hands' : h \in Hands \/ h.batch = <<>>
        BY <2>1, HandsAfter
    <2> QED BY <2>1, <2>2, QuietStep
<1>10. ASSUME SeeTurn PROVE HeldIsUnsent'
    <2>1. /\ pending' = pending /\ kicks' = kicks /\ injects' = injects
          /\ loop'.batch = <<>> \/ loop'.batch = loop.batch
          /\ UNCHANGED <<handed, rows, submitted>>
          /\ consumed' \cup marking' \subseteq consumed \cup marking
        BY <1>10 DEF SeeTurn, dbVars, At, Rest
    <2>2. \A h \in Hands' : h \in Hands \/ h.batch = <<>>
        BY <2>1, HandsAfter
    <2> QED BY <2>1, <2>2, QuietStep
<1>11. ASSUME TakeAnswer PROVE HeldIsUnsent'
    <2>1. /\ pending' = pending /\ kicks' = kicks /\ injects' = injects
          /\ loop'.batch = <<>> \/ loop'.batch = loop.batch
          /\ UNCHANGED <<handed, rows, submitted>>
          /\ consumed' \cup marking' \subseteq consumed \cup marking
        BY <1>11 DEF TakeAnswer, dbVars, At, Rest
    <2>2. \A h \in Hands' : h \in Hands \/ h.batch = <<>>
        BY <2>1, HandsAfter
    <2> QED BY <2>1, <2>2, QuietStep
<1>12. ASSUME HandleReset PROVE HeldIsUnsent'
    <2>1. /\ pending' = pending /\ kicks' = kicks /\ injects' = injects
          /\ loop'.batch = <<>> \/ loop'.batch = loop.batch
          /\ UNCHANGED <<handed, rows, submitted>>
          /\ consumed' \cup marking' \subseteq consumed \cup marking
        BY <1>12 DEF HandleReset, Handle, dbVars, At, Rest
    <2>2. \A h \in Hands' : h \in Hands \/ h.batch = <<>>
        BY <2>1, HandsAfter
    <2> QED BY <2>1, <2>2, QuietStep
<1>13. ASSUME HandleUndelivered PROVE HeldIsUnsent'
    <2>1. /\ pending' = pending /\ kicks' = kicks /\ injects' = injects
          /\ loop'.batch = <<>> \/ loop'.batch = loop.batch
          /\ UNCHANGED <<handed, rows, submitted>>
          /\ consumed' \cup marking' \subseteq consumed \cup marking
        BY <1>13 DEF HandleUndelivered, Handle, dbVars, At, Rest
    <2>2. \A h \in Hands' : h \in Hands \/ h.batch = <<>>
        BY <2>1, HandsAfter
    <2> QED BY <2>1, <2>2, QuietStep
<1>14. ASSUME HandleApiError PROVE HeldIsUnsent'
    <2>1. /\ pending' = pending /\ kicks' = kicks /\ injects' = injects
          /\ loop'.batch = <<>> \/ loop'.batch = loop.batch
          /\ UNCHANGED <<handed, rows, submitted>>
          /\ consumed' \cup marking' \subseteq consumed \cup marking
        BY <1>14 DEF HandleApiError, Handle, dbVars, At, Rest
    <2>2. \A h \in Hands' : h \in Hands \/ h.batch = <<>>
        BY <2>1, HandsAfter
    <2> QED BY <2>1, <2>2, QuietStep
<1>15. ASSUME HandleHeartbeat PROVE HeldIsUnsent'
    <2> DEFINE batch == OfKey(turn.key, pending)
               g == Continuation(batch)
    <2>1. pending' = NotOfKey(turn.key, pending) /\ pending \in Seq(Msgs)
        BY <1>15 DEF HandleHeartbeat, TakeOfKey, TypeOK
    <2>2. kicks' = kicks /\ injects' = injects /\ loop'.batch = batch
        BY <1>15 DEF HandleHeartbeat, Handle, At
    <2>3. g.batch = OfKey(turn.key, pending)
        BY HandFacts
    <2>4. \A h \in Hands' : h \in Hands \/ h = g \/ h.batch = <<>>
        BY <2>2 DEF Hands
    <2>5. UNCHANGED <<handed, rows, submitted, consumed, marking>>
        BY <1>15 DEF HandleHeartbeat, Handle, dbVars
    <2> HIDE DEF g, batch
    <2> QED BY <2>1, <2>3, <2>4, <2>5, TakeStep
<1>16. ASSUME HandleSilentStop PROVE HeldIsUnsent'
    <2>1. /\ pending' = pending /\ kicks' = kicks /\ injects' = injects
          /\ loop'.batch = <<>> \/ loop'.batch = loop.batch
          /\ UNCHANGED <<handed, rows, submitted>>
          /\ consumed' \cup marking' \subseteq consumed \cup marking
        BY <1>16 DEF HandleSilentStop, Handle, dbVars, At, Rest
    <2>2. \A h \in Hands' : h \in Hands \/ h.batch = <<>>
        BY <2>1, HandsAfter
    <2> QED BY <2>1, <2>2, QuietStep
<1>17. ASSUME HandleFinish PROVE HeldIsUnsent'
    <2>1. /\ pending' = pending /\ kicks' = kicks /\ injects' = injects
          /\ loop'.batch = <<>> \/ loop'.batch = loop.batch
          /\ UNCHANGED <<handed, rows, submitted>>
          /\ consumed' \cup marking' \subseteq consumed \cup marking
        BY <1>17 DEF HandleFinish, Handle, dbVars, At, Rest
    <2>2. \A h \in Hands' : h \in Hands \/ h.batch = <<>>
        BY <2>1, HandsAfter
    <2> QED BY <2>1, <2>2, QuietStep
<1>18. ASSUME Delivered PROVE HeldIsUnsent'
    <2>1. /\ pending' = pending /\ kicks' = kicks /\ injects' = injects
          /\ loop'.batch = <<>> \/ loop'.batch = loop.batch
          /\ UNCHANGED <<handed, rows, submitted>>
          /\ consumed' \cup marking' \subseteq consumed \cup marking
        BY <1>18 DEF Delivered, dbVars, At, Rest
    <2>2. \A h \in Hands' : h \in Hands \/ h.batch = <<>>
        BY <2>1, HandsAfter
    <2> QED BY <2>1, <2>2, QuietStep
<1>19. ASSUME Notified PROVE HeldIsUnsent'
    <2>1. /\ pending' = pending /\ kicks' = kicks /\ injects' = injects
          /\ loop'.batch = <<>> \/ loop'.batch = loop.batch
          /\ UNCHANGED <<handed, rows, submitted>>
          /\ consumed' \cup marking' \subseteq consumed \cup marking
        BY <1>19 DEF Notified, dbVars, At, Rest
    <2>2. \A h \in Hands' : h \in Hands \/ h.batch = <<>>
        BY <2>1, HandsAfter
    <2> QED BY <2>1, <2>2, QuietStep
<1>20. ASSUME ResetAfterApiError PROVE HeldIsUnsent'
    <2>1. /\ pending' = pending /\ kicks' = kicks /\ injects' = injects
          /\ loop'.batch = <<>> \/ loop'.batch = loop.batch
          /\ UNCHANGED <<handed, rows, submitted>>
          /\ consumed' \cup marking' \subseteq consumed \cup marking
        BY <1>20 DEF ResetAfterApiError, dbVars, At, Rest
    <2>2. \A h \in Hands' : h \in Hands \/ h.batch = <<>>
        BY <2>1, HandsAfter
    <2> QED BY <2>1, <2>2, QuietStep
<1>21. ASSUME Formatted PROVE HeldIsUnsent'
    <2>1. /\ pending' = pending /\ kicks' = kicks /\ injects' = injects
          /\ loop'.batch = <<>> \/ loop'.batch = loop.batch
          /\ UNCHANGED <<handed, rows, submitted>>
          /\ consumed' \cup marking' \subseteq consumed \cup marking
        BY <1>21 DEF Formatted, dbVars, At, Rest
    <2>2. \A h \in Hands' : h \in Hands \/ h.batch = <<>>
        BY <2>1, HandsAfter
    <2> QED BY <2>1, <2>2, QuietStep
<1>22. ASSUME Resume PROVE HeldIsUnsent'
    <2> DEFINE h == Continuation(loop.batch)
    <2>1. h \in Hands /\ h.batch = loop.batch
        BY HandFacts DEF Hands
    <2>2. \A g \in Hands' : (g \in Hands /\ g # h) \/ g.batch = <<>>
        <3>1. kicks' = kicks /\ injects' = injects /\ loop'.batch = <<>>
            BY <1>22 DEF Resume, Rest, At
        <3> QED BY <3>1, HandFacts DEF Hands, TypeOK
    <2>3. /\ pending' = pending /\ handed' \subseteq handed \cup ToSet(loop.batch)
          /\ marking' \subseteq marking \cup ToSet(loop.batch)
          /\ UNCHANGED <<consumed, rows, submitted>>
        BY <1>22, SentFacts DEF Resume, Write, dbVars
    <2> HIDE DEF h
    <2> QED BY <2>1, <2>2, <2>3, SendStep
<1>23. ASSUME Commit PROVE HeldIsUnsent'
    <2>1. /\ pending' = pending /\ kicks' = kicks /\ injects' = injects
          /\ loop'.batch = <<>> \/ loop'.batch = loop.batch
          /\ UNCHANGED <<handed, rows, submitted>>
          /\ consumed' \cup marking' \subseteq consumed \cup marking
        BY <1>23 DEF Commit, dbVars, At, Rest
    <2>2. \A h \in Hands' : h \in Hands \/ h.batch = <<>>
        BY <2>1, HandsAfter
    <2> QED BY <2>1, <2>2, QuietStep
<1>24. ASSUME Drain PROVE HeldIsUnsent'
    <2>1. /\ injects' = injects
          /\ loop'.batch = <<>> \/ loop'.batch = loop.batch
          /\ UNCHANGED <<handed, rows, submitted, consumed, marking>>
        BY <1>24 DEF Drain, dbVars, At, Rest
    <2> QED BY <1>24, <2>1, KickStepHeld DEF Drain
<1>25. ASSUME NEW o \in Outcomes, AnswerTurn(o) PROVE HeldIsUnsent'
    <2>1. /\ pending' = pending /\ kicks' = kicks /\ injects' = injects
          /\ loop'.batch = <<>> \/ loop'.batch = loop.batch
          /\ UNCHANGED <<handed, rows, submitted>>
          /\ consumed' \cup marking' \subseteq consumed \cup marking
        BY <1>25 DEF AnswerTurn, memVars, dbVars, At, Rest
    <2>2. \A h \in Hands' : h \in Hands \/ h.batch = <<>>
        BY <2>1, HandsAfter
    <2> QED BY <2>1, <2>2, QuietStep
<1>26. ASSUME WorkerCrash PROVE HeldIsUnsent'
    <2>1. /\ pending' = pending /\ kicks' = kicks /\ injects' = injects
          /\ loop'.batch = <<>> \/ loop'.batch = loop.batch
          /\ UNCHANGED <<handed, rows, submitted>>
          /\ consumed' \cup marking' \subseteq consumed \cup marking
        BY <1>26 DEF WorkerCrash, memVars, dbVars, At, Rest
    <2>2. \A h \in Hands' : h \in Hands \/ h.batch = <<>>
        BY <2>1, HandsAfter
    <2> QED BY <2>1, <2>2, QuietStep
<1>27. ASSUME Respawn PROVE HeldIsUnsent'
    <2>1. /\ pending' = pending /\ kicks' = kicks /\ injects' = injects
          /\ loop'.batch = <<>> \/ loop'.batch = loop.batch
          /\ UNCHANGED <<handed, rows, submitted>>
          /\ consumed' \cup marking' \subseteq consumed \cup marking
        BY <1>27 DEF Respawn, memVars, dbVars, At, Rest
    <2>2. \A h \in Hands' : h \in Hands \/ h.batch = <<>>
        BY <2>1, HandsAfter
    <2> QED BY <2>1, <2>2, QuietStep
<1>28. ASSUME OwnerReset PROVE HeldIsUnsent'
    <2>1. /\ pending' = pending /\ kicks' = kicks /\ injects' = injects
          /\ loop'.batch = <<>> \/ loop'.batch = loop.batch
          /\ UNCHANGED <<handed, rows, submitted>>
          /\ consumed' \cup marking' \subseteq consumed \cup marking
        BY <1>28 DEF OwnerReset, memVars, dbVars, At, Rest
    <2>2. \A h \in Hands' : h \in Hands \/ h.batch = <<>>
        BY <2>1, HandsAfter
    <2> QED BY <2>1, <2>2, QuietStep
<1>29. ASSUME Restart PROVE HeldIsUnsent'
    <2>1. Hands' = {Continuation(<<>>)}
        BY <1>29 DEF Restart, Hands, Rest, At
    <2>2. Continuation(<<>>).batch = <<>>
        BY HandFacts
    <2>3. ToSet(Replay) = ToSet(rows) \ consumed /\ IsInjective(Replay)
        BY ReplayFacts DEF TypeOK, HeldIsUnsent
    <2>4. /\ pending' = Replay /\ handed' = {} /\ marking' = {}
          /\ UNCHANGED <<rows, submitted, consumed>>
        BY <1>29 DEF Restart, dbVars
    <2> HIDE DEF Replay
    <2>5. Apart(pending', Hands') /\ HeldIn(pending', Hands') = ToSet(rows) \ consumed
        BY <2>1, <2>2, <2>3, <2>4, NoBatch DEF Apart, HeldIn
    <2> QED BY <2>4, <2>5 DEF HeldIsUnsent
<1>30. ASSUME UNCHANGED vars PROVE HeldIsUnsent'
    <2>1. /\ pending' = pending /\ kicks' = kicks /\ injects' = injects
          /\ loop'.batch = <<>> \/ loop'.batch = loop.batch
          /\ UNCHANGED <<handed, rows, submitted>>
          /\ consumed' \cup marking' \subseteq consumed \cup marking
        BY <1>30 DEF vars, memVars, dbVars, At, Rest
    <2>2. \A h \in Hands' : h \in Hands \/ h.batch = <<>>
        BY <2>1, HandsAfter
    <2> QED BY <2>1, <2>2, QuietStep
<1> QED BY <1>1, <1>2, <1>3, <1>4, <1>5, <1>6, <1>7, <1>8, <1>9, <1>10, <1>11, <1>12, <1>13, <1>14, <1>15, <1>16, <1>17, <1>18, <1>19, <1>20, <1>21, <1>22, <1>23, <1>24, <1>25, <1>26, <1>27, <1>28, <1>29, <1>30
    DEF Next, Inbound, KickStep, ControlLoop, Worker
--------------------------------------------------------------------------------
(* Hooks and rows *)

\* A turn that takes a session's hooks moves them from one list to the other.
LEMMA HooksTaken ==
    ASSUME NEW k, NEW s, NEW hooks, OneList(hooks, turnHooks), TakeOfKey(k, s, hooks)
    PROVE  /\ OneList(pendingHooks', turnHooks')
           /\ HooksWaiting(pendingHooks', turnHooks') = HooksWaiting(hooks, turnHooks)
<1>1. /\ pendingHooks' = hooks \ HooksOfKey(k, hooks)
      /\ turnHooks' = turnHooks \cup {h[2] : h \in HooksOfKey(k, hooks)}
      /\ HooksOfKey(k, hooks) \subseteq hooks
    BY DEF TakeOfKey, HooksOfKey
<1>2. OneList(pendingHooks', turnHooks')
    BY <1>1 DEF OneList
<1>3. HooksWaiting(pendingHooks', turnHooks') = HooksWaiting(hooks, turnHooks)
    BY <1>1 DEF HooksWaiting
<1> QED BY <1>2, <1>3

\* Hooks that run were waiting, and wait no more.
LEMMA HooksRun ==
    ASSUME TypeOK, HooksApart, RunHooks, pendingHooks' = pendingHooks, submitted' = submitted
    PROVE  HooksApart'
<1>1. /\ turnHooks' = {}
      /\ \A m \in Reminders : hookRuns'[m] = hookRuns[m] + (IF m \in turnHooks THEN 1 ELSE 0)
    BY DEF RunHooks
<1>2. /\ turnHooks \subseteq Reminders
      /\ \A m \in turnHooks : m \in submitted /\ hookRuns[m] = 0
      /\ \A h \in pendingHooks : /\ h[2] \in Reminders /\ h[2] \notin turnHooks
                                 /\ h[2] \in submitted /\ hookRuns[h[2]] = 0
    BY DEF HooksApart, OneList, HooksWaiting, TypeOK
<1>3. OneList(pendingHooks', turnHooks')
    BY <1>1 DEF HooksApart, OneList
<1>4. \A m \in HooksWaiting(pendingHooks', turnHooks') : m \in submitted /\ hookRuns'[m] = 0
    BY <1>1, <1>2 DEF HooksWaiting
<1>5. \A m \in Reminders : hookRuns'[m] # 0 => m \in submitted /\ hookRuns'[m] = 1
    BY <1>1, <1>2 DEF HooksApart, TypeOK
<1> QED BY <1>3, <1>4, <1>5 DEF HooksApart

\* No step puts a pair of hooks into two lists, or into one after it ran.
LEMMA HooksStep ==
    ASSUME TypeOK, HooksApart, [Next]_vars PROVE HooksApart'
<1>1. ASSUME NEW m \in Msgs, Submit(m) PROVE HooksApart'
    <2> DEFINE hooks == pendingHooks \cup ({Key(m)} \X ({m} \cap Reminders))
    <2>1. m \notin submitted /\ submitted' = submitted \cup {m} /\ hookRuns' = hookRuns
        BY <1>1 DEF Submit
    <2>2. \A h \in hooks : h \in pendingHooks \/ (h[2] = m /\ m \in Reminders /\ h = <<Key(m), m>>)
        OBVIOUS
    <2>3. m \notin HooksWaiting(pendingHooks, turnHooks)
        BY <2>1 DEF HooksApart
    <2>4. m \in Reminders => hookRuns[m] = 0
        BY <2>1 DEF HooksApart
    <2>5. OneList(hooks, turnHooks)
        BY <2>2, <2>3 DEF HooksApart, OneList, HooksWaiting
    <2>6. \A x \in HooksWaiting(hooks, turnHooks) : x \in submitted' /\ hookRuns[x] = 0
        BY <2>1, <2>2, <2>4 DEF HooksApart, HooksWaiting
    <2>7. \/ TakeOfKey(turn.key, Append(pending, m), hooks)
          \/ pendingHooks' = hooks /\ turnHooks' = turnHooks
        BY <1>1 DEF Submit
    <2> HIDE DEF hooks
    <2>8. OneList(pendingHooks', turnHooks')
          /\ HooksWaiting(pendingHooks', turnHooks') \subseteq HooksWaiting(hooks, turnHooks)
        BY <2>5, <2>7, HooksTaken
    <2> QED BY <2>1, <2>6, <2>8 DEF HooksApart
<1>2. ASSUME NEW b \in injects, Inject(b) PROVE HooksApart'
    BY <1>2 DEF Inject, HooksApart
<1>3. ASSUME DebounceFires PROVE HooksApart'
    <2>1. hookRuns' = hookRuns /\ submitted' = submitted
        BY <1>3 DEF DebounceFires
    <2>2. \/ \E k : TakeOfKey(k, pending, pendingHooks)
          \/ UNCHANGED <<pendingHooks, turnHooks>>
        BY <1>3 DEF DebounceFires, Kick
    <2> QED BY <2>1, <2>2, HooksTaken DEF HooksApart
<1>4. ASSUME RetryFires PROVE HooksApart'
    <2>1. hookRuns' = hookRuns /\ submitted' = submitted
        BY <1>4 DEF RetryFires
    <2>2. \/ \E k : TakeOfKey(k, pending, pendingHooks)
          \/ UNCHANGED <<pendingHooks, turnHooks>>
        BY <1>4 DEF RetryFires, Kick
    <2> QED BY <2>1, <2>2, HooksTaken DEF HooksApart
<1>5. ASSUME NEW k \in kicks, SwitchDone(k) PROVE HooksApart'
    BY <1>5 DEF SwitchDone, HooksApart
<1>6. ASSUME NEW k \in kicks, SwitchFails(k) PROVE HooksApart'
    <2>1. pendingHooks' = pendingHooks \cup ({turn.key} \X turnHooks) /\ turnHooks' = {}
          /\ hookRuns' = hookRuns /\ submitted' = submitted
        BY <1>6 DEF SwitchFails
    <2>2. \A h \in pendingHooks' :
              h \in pendingHooks \/ (h[2] \in turnHooks /\ h = <<turn.key, h[2]>>)
        <3>1. \A h \in {turn.key} \X turnHooks : h[2] \in turnHooks /\ h = <<turn.key, h[2]>>
            OBVIOUS
        <3> QED BY <2>1, <3>1
    <2>3. OneList(pendingHooks', turnHooks')
        BY <2>1, <2>2 DEF HooksApart, OneList
    <2>4. HooksWaiting(pendingHooks', turnHooks') \subseteq HooksWaiting(pendingHooks, turnHooks)
        BY <2>1, <2>2 DEF HooksWaiting
    <2> QED BY <2>1, <2>3, <2>4 DEF HooksApart
<1>7. ASSUME NEW k \in kicks, Prepare(k) PROVE HooksApart'
    BY <1>7 DEF Prepare, HooksApart
<1>8. ASSUME NEW k \in kicks, SendBatch(k) PROVE HooksApart'
    BY <1>8 DEF SendBatch, HooksApart
<1>9. ASSUME MarkDone PROVE HooksApart'
    BY <1>9 DEF MarkDone, HooksApart
<1>10. ASSUME SeeTurn PROVE HooksApart'
    BY <1>10 DEF SeeTurn, HooksApart
<1>11. ASSUME TakeAnswer PROVE HooksApart'
    BY <1>11 DEF TakeAnswer, HooksApart
<1>12. ASSUME HandleReset PROVE HooksApart'
    <2>1. submitted' = submitted /\ pendingHooks' = pendingHooks
          /\ (RunHooks \/ UNCHANGED <<turnHooks, hookRuns>>)
        BY <1>12 DEF HandleReset, Handle
    <2> QED BY <2>1, HooksRun DEF HooksApart
<1>13. ASSUME HandleUndelivered PROVE HooksApart'
    BY <1>13 DEF HandleUndelivered, Handle, HooksApart
<1>14. ASSUME HandleApiError PROVE HooksApart'
    <2>1. submitted' = submitted /\ pendingHooks' = pendingHooks
          /\ (RunHooks \/ UNCHANGED <<turnHooks, hookRuns>>)
        BY <1>14 DEF HandleApiError, Handle
    <2> QED BY <2>1, HooksRun DEF HooksApart
<1>15. ASSUME HandleHeartbeat PROVE HooksApart'
    <2>1. TakeOfKey(turn.key, pending, pendingHooks) /\ hookRuns' = hookRuns
          /\ submitted' = submitted
        BY <1>15 DEF HandleHeartbeat, Handle
    <2> QED BY <2>1, HooksTaken DEF HooksApart
<1>16. ASSUME HandleSilentStop PROVE HooksApart'
    BY <1>16 DEF HandleSilentStop, Handle, HooksApart
<1>17. ASSUME HandleFinish PROVE HooksApart'
    BY <1>17 DEF HandleFinish, Handle, HooksApart
<1>18. ASSUME Delivered PROVE HooksApart'
    <2>1. submitted' = submitted /\ pendingHooks' = pendingHooks
          /\ (RunHooks \/ UNCHANGED <<turnHooks, hookRuns>>)
        BY <1>18 DEF Delivered
    <2> QED BY <2>1, HooksRun DEF HooksApart
<1>19. ASSUME Notified PROVE HooksApart'
    <2>1. submitted' = submitted /\ pendingHooks' = pendingHooks
          /\ (RunHooks \/ UNCHANGED <<turnHooks, hookRuns>>)
        BY <1>19 DEF Notified
    <2> QED BY <2>1, HooksRun DEF HooksApart
<1>20. ASSUME ResetAfterApiError PROVE HooksApart'
    BY <1>20 DEF ResetAfterApiError, HooksApart
<1>21. ASSUME Formatted PROVE HooksApart'
    BY <1>21 DEF Formatted, HooksApart
<1>22. ASSUME Resume PROVE HooksApart'
    BY <1>22 DEF Resume, HooksApart
<1>23. ASSUME Commit PROVE HooksApart'
    <2>1. submitted' = submitted /\ pendingHooks' = pendingHooks
          /\ (RunHooks \/ UNCHANGED <<turnHooks, hookRuns>>)
        BY <1>23 DEF Commit
    <2> QED BY <2>1, HooksRun DEF HooksApart
<1>24. ASSUME Drain PROVE HooksApart'
    <2>1. hookRuns' = hookRuns /\ submitted' = submitted
        BY <1>24 DEF Drain
    <2>2. \/ \E k : TakeOfKey(k, pending, pendingHooks)
          \/ UNCHANGED <<pendingHooks, turnHooks>>
        BY <1>24 DEF Drain, Kick
    <2> QED BY <2>1, <2>2, HooksTaken DEF HooksApart
<1>25. ASSUME NEW o \in Outcomes, AnswerTurn(o) PROVE HooksApart'
    BY <1>25 DEF AnswerTurn, memVars, HooksApart
<1>26. ASSUME WorkerCrash PROVE HooksApart'
    BY <1>26 DEF WorkerCrash, memVars, HooksApart
<1>27. ASSUME Respawn PROVE HooksApart'
    BY <1>27 DEF Respawn, memVars, HooksApart
<1>28. ASSUME OwnerReset PROVE HooksApart'
    BY <1>28 DEF OwnerReset, memVars, HooksApart
<1>29. ASSUME Restart PROVE HooksApart'
    <2>1. pendingHooks' = {} /\ turnHooks' = {} /\ hookRuns' = hookRuns /\ submitted' = submitted
        BY <1>29 DEF Restart
    <2> QED BY <2>1 DEF HooksApart, OneList, HooksWaiting
<1>30. ASSUME UNCHANGED vars PROVE HooksApart'
    BY <1>30 DEF vars, memVars, HooksApart
<1> QED BY <1>1, <1>2, <1>3, <1>4, <1>5, <1>6, <1>7, <1>8, <1>9, <1>10, <1>11, <1>12, <1>13, <1>14, <1>15, <1>16, <1>17, <1>18, <1>19, <1>20, <1>21, <1>22, <1>23, <1>24, <1>25, <1>26, <1>27, <1>28, <1>29, <1>30
    DEF Next, Inbound, KickStep, ControlLoop, Worker

\* The turn remembers the rows it marks, wherever the UPDATE goes.
LEMMA MarkedRows ==
    ASSUME turn \in Turns, NEW batch, Mark(batch)
    PROVE  /\ turn'.keys \subseteq turn.keys \cup marking' \cup misfiled'
           /\ marking \subseteq marking' /\ misfiled \subseteq misfiled'
BY DEF Mark, HumansOf, Turns

\* No step commits as trusted, or is about to, what is not marked.
RowsMarked == TurnRowsMarked /\ processed \subseteq consumed \cup misfiled

LEMMA RowsStep ==
    ASSUME TypeOK, RowsMarked, [Next]_vars PROVE RowsMarked'
<1> USE DEF RowsMarked, TurnRowsMarked, TypeOK, Turns, Positions
<1>1. ASSUME NEW m \in Msgs, Submit(m) PROVE RowsMarked'
    BY <1>1 DEF Submit, At, Rest, dbVars
<1>2. ASSUME NEW b \in injects, Inject(b) PROVE RowsMarked'
    BY <1>2, MarkedRows DEF Inject, At, Rest, dbVars
<1>3. ASSUME DebounceFires PROVE RowsMarked'
    BY <1>3 DEF DebounceFires, Kick, At, Rest, dbVars
<1>4. ASSUME RetryFires PROVE RowsMarked'
    BY <1>4 DEF RetryFires, Kick, At, Rest, dbVars
<1>5. ASSUME NEW k \in kicks, SwitchDone(k) PROVE RowsMarked'
    BY <1>5 DEF SwitchDone, At, Rest, dbVars
<1>6. ASSUME NEW k \in kicks, SwitchFails(k) PROVE RowsMarked'
    BY <1>6 DEF SwitchFails, At, Rest, dbVars
<1>7. ASSUME NEW k \in kicks, Prepare(k) PROVE RowsMarked'
    BY <1>7 DEF Prepare, At, Rest, dbVars
<1>8. ASSUME NEW k \in kicks, SendBatch(k) PROVE RowsMarked'
    BY <1>8, MarkedRows DEF SendBatch, At, Rest, dbVars
<1>9. ASSUME MarkDone PROVE RowsMarked'
    BY <1>9 DEF MarkDone, At, Rest, dbVars
<1>10. ASSUME SeeTurn PROVE RowsMarked'
    BY <1>10 DEF SeeTurn, At, Rest, dbVars
<1>11. ASSUME TakeAnswer PROVE RowsMarked'
    BY <1>11 DEF TakeAnswer, At, Rest, dbVars
<1>12. ASSUME HandleReset PROVE RowsMarked'
    BY <1>12 DEF HandleReset, Handle, At, Rest, dbVars
<1>13. ASSUME HandleUndelivered PROVE RowsMarked'
    BY <1>13 DEF HandleUndelivered, Handle, At, Rest, dbVars
<1>14. ASSUME HandleApiError PROVE RowsMarked'
    BY <1>14 DEF HandleApiError, Handle, At, Rest, dbVars
<1>15. ASSUME HandleHeartbeat PROVE RowsMarked'
    BY <1>15 DEF HandleHeartbeat, Handle, At, Rest, dbVars
<1>16. ASSUME HandleSilentStop PROVE RowsMarked'
    BY <1>16 DEF HandleSilentStop, Handle, At, Rest, dbVars
<1>17. ASSUME HandleFinish PROVE RowsMarked'
    BY <1>17 DEF HandleFinish, Handle, At, Rest, dbVars
<1>18. ASSUME Delivered PROVE RowsMarked'
    BY <1>18 DEF Delivered, At, Rest, dbVars
<1>19. ASSUME Notified PROVE RowsMarked'
    BY <1>19 DEF Notified, At, Rest, dbVars
<1>20. ASSUME ResetAfterApiError PROVE RowsMarked'
    BY <1>20 DEF ResetAfterApiError, At, Rest, dbVars
<1>21. ASSUME Formatted PROVE RowsMarked'
    BY <1>21 DEF Formatted, At, Rest, dbVars
<1>22. ASSUME Resume PROVE RowsMarked'
    BY <1>22, MarkedRows DEF Resume, At, Rest, dbVars
<1>23. ASSUME Commit PROVE RowsMarked'
    BY <1>23 DEF Commit, At, Rest, dbVars
<1>24. ASSUME Drain PROVE RowsMarked'
    BY <1>24 DEF Drain, Kick, At, Rest, dbVars
<1>25. ASSUME NEW o \in Outcomes, AnswerTurn(o) PROVE RowsMarked'
    BY <1>25 DEF AnswerTurn, memVars, At, Rest, dbVars
<1>26. ASSUME WorkerCrash PROVE RowsMarked'
    BY <1>26 DEF WorkerCrash, memVars, At, Rest, dbVars
<1>27. ASSUME Respawn PROVE RowsMarked'
    BY <1>27 DEF Respawn, memVars, At, Rest, dbVars
<1>28. ASSUME OwnerReset PROVE RowsMarked'
    BY <1>28 DEF OwnerReset, memVars, At, Rest, dbVars
<1>29. ASSUME Restart PROVE RowsMarked'
    BY <1>29 DEF Restart, At, Rest, dbVars
<1>30. ASSUME UNCHANGED vars PROVE RowsMarked'
    BY <1>30 DEF vars, memVars, At, Rest, dbVars
<1> QED BY <1>1, <1>2, <1>3, <1>4, <1>5, <1>6, <1>7, <1>8, <1>9, <1>10, <1>11, <1>12, <1>13, <1>14, <1>15, <1>16, <1>17, <1>18, <1>19, <1>20, <1>21, <1>22, <1>23, <1>24, <1>25, <1>26, <1>27, <1>28, <1>29, <1>30
    DEF Next, Inbound, KickStep, ControlLoop, Worker
--------------------------------------------------------------------------------
(* The theorems *)

LEMMA Initially == Init => IInv
<1> SUFFICES ASSUME Init PROVE IInv
    OBVIOUS
<1>1. TypeOK
    <2>1. turn \in Turns /\ loop \in Positions
        BY TurnTypes, LoopTypes DEF Init
    <2>2. <<>> \in Seq(Msgs) /\ <<>> \in Seq(Humans) /\ <<>> \in Seq(Results)
        BY NoBatch
    <2>3. 0 \in 0..MaxSwitchFailures /\ 0 \in 0..0 /\ 0 \in 0..MaxCrashes /\ 0 \in 0..MaxResets
          /\ 0 \in 0..MaxRestarts
        BY BoundTypes
    <2> QED BY <2>1, <2>2, <2>3 DEF Init, TypeOK, Keys
<1>2. HeldIsUnsent
    <2>1. Hands = {Continuation(<<>>)}
        BY DEF Init, Hands, Rest, At
    <2>2. Continuation(<<>>).batch = <<>>
        BY HandFacts
    <2> QED BY <2>1, <2>2, NoBatch DEF Init, HeldIsUnsent, Apart, HeldIn
<1>3. HooksApart
    BY DEF Init, HooksApart, OneList, HooksWaiting
<1>4. TurnRowsMarked /\ processed \subseteq consumed \cup misfiled
    BY DEF Init, TurnRowsMarked, Rest, At
<1> QED BY <1>1, <1>2, <1>3, <1>4 DEF IInv

LEMMA Invariance == IInv /\ [Next]_vars => IInv'
BY TypeStep, HeldStep, HooksStep, RowsStep DEF IInv, RowsMarked

LEMMA Invariant == Spec => []IInv
BY Initially, Invariance, PTL DEF Spec

\* A set with at most one element.
LEMMA AtMostOne ==
    ASSUME NEW S, \A x, y \in S : x = y
    PROVE  Cardinality(S) = IF S = {} THEN 0 ELSE 1
<1>1. CASE S = {}
    BY <1>1, FS_EmptySet
<1>2. ASSUME NEW x \in S PROVE Cardinality(S) = 1
    <2>1. S = {x}
        OBVIOUS
    <2> QED BY <2>1, FS_Singleton
<1> QED BY <1>1, <1>2

\* Where the buffer and the hands are apart, no message has two copies, and one
\* that has a copy is held.
LEMMA CopiesFacts ==
    ASSUME TypeOK, HeldIsUnsent, NEW m
    PROVE  /\ Copies(m) \in {0, 1}
           /\ Copies(m) = 1 => m \in HeldIn(pending, Hands)
<1> DEFINE A == {i \in DOMAIN pending : pending[i] = m}
           B == {k \in kicks : m \in ToSet(k.batch)}
           C == {b \in injects : m \in ToSet(b)}
           D == m \in ToSet(loop.batch)
<1>1. /\ \A k \in kicks : k \in Hands
      /\ \A b \in injects : FollowUp(b) \in Hands /\ FollowUp(b).batch = b
      /\ Continuation(loop.batch) \in Hands /\ Continuation(loop.batch).batch = loop.batch
    BY HandFacts DEF Hands
<1>2. /\ \A k \in kicks, b \in injects : k # FollowUp(b) /\ k # Continuation(loop.batch)
      /\ \A b, c \in injects : FollowUp(b) = FollowUp(c) => b = c
      /\ \A b \in injects : FollowUp(b) # Continuation(loop.batch)
    BY HandFacts DEF TypeOK
<1>3. /\ IsInjective(pending)
      /\ \A h \in Hands : ToSet(h.batch) \cap ToSet(pending) = {}
      /\ \A g, h \in Hands : g # h => ToSet(g.batch) \cap ToSet(h.batch) = {}
    BY DEF HeldIsUnsent, Apart
<1>4. A # {} => m \in ToSet(pending)
    BY DEF ToSet
<1>5. Cardinality(A) = IF A = {} THEN 0 ELSE 1
    <2>1. \A i, j \in A : i = j
        BY <1>3 DEF IsInjective
    <2> QED BY <2>1, AtMostOne
<1>6. Cardinality(B) = IF B = {} THEN 0 ELSE 1
    <2>1. \A k, l \in B : k = l
        BY <1>1, <1>3
    <2> QED BY <2>1, AtMostOne
<1>7. Cardinality(C) = IF C = {} THEN 0 ELSE 1
    <2>1. \A b, c \in C : b = c
        BY <1>1, <1>2, <1>3
    <2> QED BY <2>1, AtMostOne
<1>8. A # {} => B = {} /\ C = {} /\ ~D
    BY <1>1, <1>3, <1>4
<1>9. ASSUME NEW k \in B PROVE C = {} /\ ~D
    <2>1. \A b \in injects : ToSet(k.batch) \cap ToSet(b) = {}
        BY <1>1, <1>2, <1>3
    <2>2. ToSet(k.batch) \cap ToSet(loop.batch) = {}
        <3> DEFINE c == Continuation(loop.batch)
        <3>1. k \in Hands /\ c \in Hands /\ c.batch = loop.batch
            BY <1>1
        <3>2. k # c
            <4>1. k \in KickTasks
                BY DEF TypeOK
            <4> QED BY <4>1, HandFacts
        <3> HIDE DEF c
        <3>3. ToSet(k.batch) \cap ToSet(c.batch) = {}
            BY <1>3, <3>1, <3>2
        <3> QED BY <3>1, <3>3
    <2> QED BY <2>1, <2>2
<1>10. C # {} => ~D
    BY <1>1, <1>2, <1>3
<1>11. A # {} \/ B # {} \/ C # {} \/ D => m \in HeldIn(pending, Hands)
    BY <1>1, <1>4 DEF HeldIn
<1>12. Copies(m) = Cardinality(A) + Cardinality(B) + Cardinality(C) + (IF D THEN 1 ELSE 0)
    BY DEF Copies
<1> HIDE DEF A, B, C, D
<1> QED BY <1>5, <1>6, <1>7, <1>8, <1>9, <1>10, <1>11, <1>12

LEMMA Consequences == IInv => HeldOnce /\ HooksRunOnce /\ ConsumedNotHeld
<1> SUFFICES ASSUME IInv PROVE HeldOnce /\ HooksRunOnce /\ ConsumedNotHeld
    OBVIOUS
<1>1. TypeOK /\ HeldIsUnsent /\ HooksApart /\ processed \subseteq consumed \cup misfiled
    BY DEF IInv
<1>2. HeldOnce
    BY <1>1, CopiesFacts DEF HeldOnce, HeldIsUnsent
<1>3. HooksRunOnce
    BY <1>1 DEF HooksRunOnce, HooksApart
<1>4. ConsumedNotHeld
    BY <1>1, CopiesFacts DEF ConsumedNotHeld, HeldIsUnsent
<1> QED BY <1>2, <1>3, <1>4

\* Every variable of the engine keeps its type; the counters and the heartbeat
\* count of a turn stay within their bounds.
THEOREM EngineTypes == Spec => []TypeOK
<1>1. IInv => TypeOK
    BY DEF IInv
<1> QED BY Invariant, <1>1, PTL

\* Whatever kicks, follow-ups, continuations and failed switches interleave, no
\* message is held in two places, nor in any once it was written to the CLI.
THEOREM MessagesHeldOnce == Spec => []HeldOnce
BY Invariant, Consequences, PTL

\* A reminder's hooks run at most once, over failed switches and restarts.
THEOREM HooksRunAtMostOnce == Spec => []HooksRunOnce
BY Invariant, Consequences, PTL

\* A row said to be consumed is held by nobody and so never replayed, and rows are
\* trusted for recaps only once they are marked consumed, or were marked in the
\* database of another session.
THEOREM ConsumedIsDone == Spec => []ConsumedNotHeld
BY Invariant, Consequences, PTL
================================================================================
