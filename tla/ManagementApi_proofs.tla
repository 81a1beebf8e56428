------------------------ MODULE ManagementApi_proofs ------------------------
(***************************************************************************)
(* Proofs about ManagementApi, for any agents, rules and number of calls:  *)
(* the counters and the log agree although the log drops entries, a        *)
(* stopped agent is allowed nothing, and a client that pages through the   *)
(* log while it grows is given nothing twice, and nothing is left out of   *)
(* its pages while the log drops nothing.                                  *)
(***************************************************************************)
EXTENDS ManagementApi, SequenceTheorems, FiniteSetTheorems, WellFoundedInduction, TLAPS

-----------------------------------------------------------------------------
(* What the log keeps.                                                     *)

\* addLog keeps to its limit.
LEMMA LastOfType ==
    ASSUME NEW S, NEW seq \in Seq(S), NEW n \in Nat \ {0}
    PROVE  LastOf(seq, n) \in Seq(S) /\ Len(LastOf(seq, n)) <= n
<1>1. CASE Len(seq) <= n
  BY <1>1 DEF LastOf
<1>2. CASE ~ (Len(seq) <= n)
  <2> DEFINE m == Len(seq) - n + 1
  <2>1. Len(seq) \in Nat /\ m \in 1..(Len(seq) + 1) /\ m <= Len(seq)
    BY <1>2, LenProperties
  <2>2. LastOf(seq, n) = SubSeq(seq, m, Len(seq))
    BY <1>2 DEF LastOf
  <2>3. \A i \in m..Len(seq) : seq[i] \in S
    BY <2>1, ElementOfSeq
  <2> HIDE DEF m
  <2>4. /\ SubSeq(seq, m, Len(seq)) \in Seq(S)
        /\ Len(SubSeq(seq, m, Len(seq))) = IF m <= Len(seq) THEN Len(seq) - m + 1 ELSE 0
    BY <2>1, <2>3, SubSeqProperties
  <2> QED
    BY <2>1, <2>2, <2>4 DEF m
<1> QED
  BY <1>1, <1>2

\* What LastOf keeps, by position.
LEMMA LastOfAt ==
    ASSUME NEW S, NEW seq \in Seq(S), NEW n \in Nat \ {0}
    PROVE  /\ Len(LastOf(seq, n)) = IF Len(seq) <= n THEN Len(seq) ELSE n
           /\ \A i \in 1..Len(LastOf(seq, n)) :
                 /\ Len(seq) - Len(LastOf(seq, n)) + i \in 1..Len(seq)
                 /\ LastOf(seq, n)[i] = seq[Len(seq) - Len(LastOf(seq, n)) + i]
<1>0. Len(seq) \in Nat
  BY LenProperties
<1>1. CASE Len(seq) <= n
  BY <1>0, <1>1 DEF LastOf
<1>2. CASE ~ (Len(seq) <= n)
  <2> DEFINE m == Len(seq) - n + 1
  <2>1. m \in 1..Len(seq) /\ LastOf(seq, n) = SubSeq(seq, m, Len(seq)) /\ Len(seq) - m + 1 = n
    BY <1>0, <1>2 DEF LastOf
  <2>2. \A i \in m..Len(seq) : seq[i] \in S
    BY <1>0, <2>1, ElementOfSeq
  <2> HIDE DEF m
  <2>3. /\ Len(SubSeq(seq, m, Len(seq))) = IF m <= Len(seq) THEN Len(seq) - m + 1 ELSE 0
        /\ \A i \in 1..(Len(seq) - m + 1) : SubSeq(seq, m, Len(seq))[i] = seq[m + i - 1]
    BY <1>0, <2>1, <2>2, SubSeqProperties
  <2>4. Len(LastOf(seq, n)) = n /\ \A i \in 1..n : LastOf(seq, n)[i] = seq[m + i - 1]
    BY <1>0, <2>1, <2>3
  <2> QED
    BY <1>0, <1>2, <2>4 DEF m
<1> QED
  BY <1>1, <1>2

\* Cutting before an entry is added changes nothing of what is kept after.
LEMMA LastOfAppend ==
    ASSUME NEW S, NEW seq \in Seq(S), NEW e \in S, NEW n \in Nat \ {0}
    PROVE  LastOf(Append(LastOf(seq, n), e), n) = LastOf(Append(seq, e), n)
<1> DEFINE kept == LastOf(seq, n)
           short == Append(kept, e)
           long == Append(seq, e)
<1>1. kept \in Seq(S) /\ Len(seq) \in Nat /\ Len(kept) \in Nat
  BY LastOfType, LenProperties
<1>2. /\ Len(kept) = IF Len(seq) <= n THEN Len(seq) ELSE n
      /\ \A i \in 1..Len(kept) : Len(seq) - Len(kept) + i \in 1..Len(seq)
                                /\ kept[i] = seq[Len(seq) - Len(kept) + i]
  BY LastOfAt
<1>3. /\ short \in Seq(S) /\ Len(short) = Len(kept) + 1 /\ short[Len(kept) + 1] = e
      /\ \A i \in 1..Len(kept) : short[i] = kept[i]
  BY <1>1, AppendProperties
<1>4. /\ long \in Seq(S) /\ Len(long) = Len(seq) + 1 /\ long[Len(seq) + 1] = e
      /\ \A i \in 1..Len(seq) : long[i] = seq[i]
  BY <1>1, AppendProperties
<1> HIDE DEF kept, short, long
<1>5. /\ Len(LastOf(short, n)) = IF Len(short) <= n THEN Len(short) ELSE n
      /\ \A i \in 1..Len(LastOf(short, n)) :
            /\ Len(short) - Len(LastOf(short, n)) + i \in 1..Len(short)
            /\ LastOf(short, n)[i] = short[Len(short) - Len(LastOf(short, n)) + i]
  BY <1>3, LastOfAt
<1>6. /\ Len(LastOf(long, n)) = IF Len(long) <= n THEN Len(long) ELSE n
      /\ \A i \in 1..Len(LastOf(long, n)) :
            /\ Len(long) - Len(LastOf(long, n)) + i \in 1..Len(long)
            /\ LastOf(long, n)[i] = long[Len(long) - Len(LastOf(long, n)) + i]
  BY <1>4, LastOfAt
<1>7. Len(LastOf(short, n)) = Len(LastOf(long, n))
  BY <1>1, <1>2, <1>3, <1>4, <1>5, <1>6
\* From the end, both sequences hold the same.
<1>8. \A j \in 0..Len(kept) : short[Len(short) - j] = long[Len(long) - j]
  <2> TAKE j \in 0..Len(kept)
  <2>1. CASE j = 0
    BY <1>1, <1>3, <1>4, <2>1
  <2>2. CASE j # 0
    <3>1. Len(kept) + 1 - j \in 1..Len(kept) /\ Len(seq) + 1 - j \in 1..Len(seq)
      BY <1>1, <1>2, <2>2
    <3>2. short[Len(kept) + 1 - j] = kept[Len(kept) + 1 - j]
      BY <1>3, <3>1
    <3>3. kept[Len(kept) + 1 - j] = seq[Len(seq) - Len(kept) + (Len(kept) + 1 - j)]
      BY <1>2, <3>1
    <3>4. Len(seq) - Len(kept) + (Len(kept) + 1 - j) = Len(seq) + 1 - j
      BY <1>1
    <3>5. long[Len(seq) + 1 - j] = seq[Len(seq) + 1 - j]
      BY <1>4, <3>1
    <3> QED
      BY <1>3, <1>4, <3>2, <3>3, <3>4, <3>5
  <2> QED
    BY <2>1, <2>2
<1>9. ASSUME NEW i \in 1..Len(LastOf(short, n))
      PROVE  LastOf(short, n)[i] = LastOf(long, n)[i]
  <2> DEFINE j == Len(LastOf(short, n)) - i
  <2>1. j \in 0..Len(kept)
    BY <1>1, <1>2, <1>3, <1>5
  <2>2. LastOf(short, n)[i] = short[Len(short) - j]
    <3>1. Len(short) - Len(LastOf(short, n)) + i = Len(short) - j
      BY <1>1, <1>3, <1>5
    <3> QED
      BY <1>5, <3>1
  <2>3. LastOf(long, n)[i] = long[Len(long) - j]
    <3>1. Len(long) - Len(LastOf(long, n)) + i = Len(long) - j
      BY <1>1, <1>4, <1>6, <1>7
    <3> QED
      BY <1>6, <1>7, <3>1
  <2> QED
    BY <1>8, <2>1, <2>2, <2>3
<1>10. LastOf(short, n) \in Seq(S) /\ LastOf(long, n) \in Seq(S)
  BY <1>3, <1>4, LastOfType
<1>11. LastOf(short, n) = LastOf(long, n)
  BY <1>7, <1>9, <1>10, SeqEqual
<1> QED
  BY <1>11 DEF kept, short, long

-----------------------------------------------------------------------------
(* The calls.  Only an exec check writes the log and the counters, and     *)
(* only Pause, Kill, Resume and RegisterAgent write a status.              *)

\* The entry that addLog makes of the request it is called for.
NewEntry(a, action, rule) ==
    [id |-> requestsTotal', agent |-> a, action |-> action, rule |-> rule]

LogTypes ==
    /\ DOMAIN rules \subseteq RuleId
    /\ rulesMade \in 0..MaxRules
    /\ requestsTotal \in 0..MaxRequests
    /\ trail \in Seq(Entry)
    /\ requestsTotal = Len(trail)
    /\ logs = LastOf(trail, LogCap)

\* An exec check is logged once, and as blocked if the agent is stopped.
LEMMA ExecCheckLogs ==
    ASSUME LogTypes, NEW a \in Agents, NEW command \in Commands, ExecCheck(a, command)
    PROVE  \E e \in Entry :
              /\ requestsTotal' = requestsTotal + 1 /\ requestsTotal' \in 0..MaxRequests
              /\ logs' = LastOf(Append(logs, e), LogCap) /\ trail' = Append(trail, e)
              /\ blockedTotal' = IF e.action = "blocked" THEN blockedTotal + 1 ELSE blockedTotal
              /\ e.agent = a /\ e.id = requestsTotal'
              /\ Stopped(a) => e.action = "blocked"
<1>1. requestsTotal' \in 1..MaxRequests /\ requestsTotal' = requestsTotal + 1
  BY ApiAssumption DEF ExecCheck, LogTypes
<1>2. \A action \in {"blocked", "allowed"}, rule \in RuleId \cup {NoRule, AgentStatus} :
        NewEntry(a, action, rule) \in Entry
  BY <1>1 DEF NewEntry, Entry
<1>3. CASE Refused(a) /\ Blocked(a, AgentStatus)
  <2> DEFINE e == NewEntry(a, "blocked", AgentStatus)
  <2>1. /\ logs' = LastOf(Append(logs, e), LogCap) /\ trail' = Append(trail, e)
        /\ blockedTotal' = blockedTotal + 1 /\ e \in Entry
        /\ e.action = "blocked" /\ e.agent = a /\ e.id = requestsTotal'
    BY <1>2, <1>3 DEF Blocked, AddLog, NewEntry
  <2> QED
    BY <1>1, <2>1
<1>4. ASSUME NEW i \in Stopping(command), Blocked(a, i)
      PROVE  \E e \in Entry :
                /\ logs' = LastOf(Append(logs, e), LogCap) /\ trail' = Append(trail, e)
                /\ blockedTotal' = blockedTotal + 1
                /\ e.action = "blocked" /\ e.agent = a /\ e.id = requestsTotal'
  <2> DEFINE e == NewEntry(a, "blocked", i)
  <2>1. i \in RuleId
    BY DEF Stopping, LogTypes
  <2>2. /\ logs' = LastOf(Append(logs, e), LogCap) /\ trail' = Append(trail, e)
        /\ blockedTotal' = blockedTotal + 1 /\ e \in Entry
        /\ e.action = "blocked" /\ e.agent = a /\ e.id = requestsTotal'
    BY <1>2, <1>4, <2>1 DEF Blocked, AddLog, NewEntry
  <2> QED
    BY <2>2
<1>5. CASE ~ Refused(a) /\ AddLog(a, "allowed", NoRule) /\ UNCHANGED blockedTotal
  <2> DEFINE e == NewEntry(a, "allowed", NoRule)
  <2>1. /\ logs' = LastOf(Append(logs, e), LogCap) /\ trail' = Append(trail, e)
        /\ blockedTotal' = blockedTotal /\ e \in Entry
        /\ e.action = "allowed" /\ e.agent = a /\ e.id = requestsTotal'
    BY <1>2, <1>5 DEF AddLog, NewEntry
  <2>2. ~ Stopped(a)
    BY <1>5 DEF Refused, Stopped
  <2> QED
    BY <1>1, <2>1, <2>2
<1>6. \/ Refused(a) /\ Blocked(a, AgentStatus)
      \/ \E i \in Stopping(command) : Blocked(a, i)
      \/ ~ Refused(a) /\ AddLog(a, "allowed", NoRule) /\ UNCHANGED blockedTotal
  BY DEF ExecCheck
<1>7. CASE \E i \in Stopping(command) : Blocked(a, i)
  BY <1>1, <1>4, <1>7
<1> QED
  BY <1>3, <1>5, <1>6, <1>7

\* Every other call leaves the log and the counters alone.
LEMMA StepKinds ==
    ASSUME [Next]_vars
    PROVE  \/ \E a \in Agents, command \in Commands : ExecCheck(a, command)
           \/ /\ UNCHANGED <<logs, requestsTotal, blockedTotal, trail>>
              /\ \/ UNCHANGED <<status, stoppedAt>>
                 \/ \E a \in Agents : \/ RegisterAgent(a) \/ Resume(a)
                                       \/ \E how \in {"paused", "killed"} : Stop(a, how)
<1> USE DEF storeVars, historyVars
<1>1. CASE UNCHANGED vars
  BY <1>1 DEF vars
<1>2. ASSUME NEW a \in Agents, RegisterAgent(a) \/ Resume(a)
      PROVE  UNCHANGED <<logs, requestsTotal, blockedTotal, trail>>
  BY <1>2 DEF RegisterAgent, Resume
<1>3. ASSUME NEW a \in Agents, Pause(a) \/ Kill(a)
      PROVE  /\ UNCHANGED <<logs, requestsTotal, blockedTotal, trail>>
             /\ \E how \in {"paused", "killed"} : Stop(a, how)
  BY <1>3 DEF Pause, Kill, Stop
<1>4. ASSUME \/ \E body \in RuleBodies : CreateRule(body)
             \/ \E i \in RuleId : DeleteRule(i)
             \/ \E of \in Filters, size \in PageSizes : StartReading(of, size)
             \/ ReadPage
      PROVE  UNCHANGED <<logs, requestsTotal, blockedTotal, trail, status, stoppedAt>>
  BY <1>4 DEF CreateRule, DeleteRule, StartReading, ReadPage
<1> QED
  BY <1>1, <1>2, <1>3, <1>4 DEF Next

\* The rules keep to their numbers.
LEMMA RulesStep ==
    ASSUME DOMAIN rules \subseteq RuleId, rulesMade \in 0..MaxRules, [Next]_vars
    PROVE  DOMAIN rules' \subseteq RuleId /\ rulesMade' \in 0..MaxRules
<1> USE DEF storeVars, historyVars
<1>1. ASSUME NEW body \in RuleBodies, CreateRule(body)
      PROVE  DOMAIN rules' \subseteq RuleId /\ rulesMade' \in 0..MaxRules
  <2>1. rulesMade' \in 1..MaxRules
    BY <1>1, ApiAssumption DEF CreateRule
  <2>2. DOMAIN rules' = DOMAIN rules \cup {rulesMade'}
    BY <1>1 DEF CreateRule
  <2> QED
    BY <2>1, <2>2 DEF RuleId
<1>2. ASSUME NEW i \in RuleId, DeleteRule(i)
      PROVE  DOMAIN rules' \subseteq RuleId /\ rulesMade' \in 0..MaxRules
  <2>1. DOMAIN rules' = DOMAIN rules \ {i} /\ rulesMade' = rulesMade
    BY <1>2 DEF DeleteRule
  <2> QED
    BY <2>1
<1>3. ASSUME \/ UNCHANGED vars \/ ReadPage \/ \E of \in Filters, size \in PageSizes : StartReading(of, size)
             \/ \E a \in Agents :
                  \/ RegisterAgent(a) \/ Pause(a) \/ Kill(a) \/ Resume(a)
                  \/ \E command \in Commands : ExecCheck(a, command)
      PROVE  UNCHANGED <<rules, rulesMade>>
  BY <1>3 DEF vars, ReadPage, StartReading, RegisterAgent, Pause, Kill, Stop, Resume, ExecCheck
<1> QED
  BY <1>1, <1>2, <1>3 DEF Next

LEMMA LogTypesStep ==
    ASSUME LogTypes, [Next]_vars
    PROVE  LogTypes'
<1>1. DOMAIN rules' \subseteq RuleId /\ rulesMade' \in 0..MaxRules
  BY RulesStep DEF LogTypes
<1>2. CASE UNCHANGED <<logs, requestsTotal, blockedTotal, trail>>
  BY <1>1, <1>2 DEF LogTypes
<1>3. ASSUME NEW a \in Agents, NEW command \in Commands, ExecCheck(a, command)
      PROVE  LogTypes'
  <2>1. PICK e \in Entry :
           /\ requestsTotal' = requestsTotal + 1 /\ requestsTotal' \in 0..MaxRequests
           /\ logs' = LastOf(Append(logs, e), LogCap) /\ trail' = Append(trail, e)
    BY <1>3, ExecCheckLogs
  <2>2. trail' \in Seq(Entry) /\ Len(trail') = Len(trail) + 1
    BY <2>1, AppendProperties DEF LogTypes
  <2>3. logs' = LastOf(trail', LogCap)
    BY <2>1, LastOfAppend, ApiAssumption DEF LogTypes
  <2> QED
    BY <1>1, <2>1, <2>2, <2>3 DEF LogTypes
<1> QED
  BY <1>2, <1>3, StepKinds

LEMMA LogTypesAlways == Spec => []LogTypes
<1>1. Init => LogTypes
  BY EmptySeq, ApiAssumption DEF Init, LogTypes, LastOf
<1>2. LogTypes /\ [Next]_vars => LogTypes'
  BY LogTypesStep
<1> QED
  BY <1>1, <1>2, PTL DEF Spec

-----------------------------------------------------------------------------
(* The counters.                                                           *)

BlockedIn(seq) == {i \in DOMAIN seq : seq[i].action = "blocked"}

BlockedCounted == IsFiniteSet(BlockedIn(trail)) /\ blockedTotal = Cardinality(BlockedIn(trail))

LEMMA BlockedStep ==
    ASSUME LogTypes, BlockedCounted, [Next]_vars
    PROVE  BlockedCounted'
<1>1. CASE UNCHANGED <<logs, requestsTotal, blockedTotal, trail>>
  BY <1>1 DEF BlockedCounted
<1>2. ASSUME NEW a \in Agents, NEW command \in Commands, ExecCheck(a, command)
      PROVE  BlockedCounted'
  <2>1. PICK e \in Entry :
           /\ trail' = Append(trail, e)
           /\ blockedTotal' = IF e.action = "blocked" THEN blockedTotal + 1 ELSE blockedTotal
    BY <1>2, ExecCheckLogs
  <2>2. /\ Len(trail) \in Nat /\ DOMAIN trail = 1..Len(trail)
        /\ trail' \in Seq(Entry) /\ Len(trail') = Len(trail) + 1
        /\ trail'[Len(trail) + 1] = e /\ \A i \in 1..Len(trail) : trail'[i] = trail[i]
    BY <2>1, LenProperties, AppendProperties DEF LogTypes
  <2>3. DOMAIN trail' = DOMAIN trail \cup {Len(trail) + 1} /\ Len(trail) + 1 \notin DOMAIN trail
    BY <2>2, LenProperties
  <2>4. CASE e.action = "blocked"
    <3>1. BlockedIn(trail') = BlockedIn(trail) \cup {Len(trail) + 1}
      BY <2>2, <2>3, <2>4 DEF BlockedIn
    <3>2. Len(trail) + 1 \notin BlockedIn(trail)
      BY <2>3 DEF BlockedIn
    <3> QED
      BY <2>1, <2>4, <3>1, <3>2, FS_AddElement DEF BlockedCounted
  <2>5. CASE e.action # "blocked"
    <3>1. BlockedIn(trail') = BlockedIn(trail)
      BY <2>2, <2>3, <2>5 DEF BlockedIn
    <3> QED
      BY <2>1, <2>5, <3>1 DEF BlockedCounted
  <2> QED
    BY <2>4, <2>5
<1> QED
  BY <1>1, <1>2, StepKinds

\* handlers.go, addLog and StatusHandler: however often the log has dropped its
\* oldest entries, it holds the latest ones in their order, and the counters are
\* those of all that was ever logged.
THEOREM CountersAlwaysMatchLog == Spec => []CountersMatchLog
<1>1. Init => BlockedCounted
  <2> SUFFICES ASSUME Init PROVE BlockedCounted
    OBVIOUS
  <2>1. BlockedIn(trail) = {} /\ blockedTotal = 0
    BY DEF Init, BlockedIn
  <2> QED
    BY <2>1, FS_EmptySet DEF BlockedCounted
<1>2. LogTypes /\ BlockedCounted /\ [Next]_vars => BlockedCounted'
  BY BlockedStep
<1>3. LogTypes /\ BlockedCounted => CountersMatchLog
  BY DEF LogTypes, BlockedCounted, BlockedIn, CountersMatchLog
<1> QED
  BY <1>1, <1>2, <1>3, LogTypesAlways, PTL DEF Spec

-----------------------------------------------------------------------------
(* Stopped agents.                                                         *)

StopInv ==
    /\ status \in [Agents -> Statuses]
    /\ stoppedAt \in [Agents -> Nat]
    /\ StoppedMeansStopped

LEMMA StopStep ==
    ASSUME LogTypes, StopInv, [Next]_vars
    PROVE  StopInv'
<1>0. /\ status \in [Agents -> Statuses] /\ stoppedAt \in [Agents -> Nat]
      /\ Len(trail) \in Nat /\ DOMAIN trail = 1..Len(trail)
  BY LenProperties DEF LogTypes, StopInv
<1>1. CASE UNCHANGED <<trail, status, stoppedAt>>
  BY <1>1 DEF StopInv, StoppedMeansStopped, Stopped
<1>2. ASSUME NEW a \in Agents, RegisterAgent(a) \/ Resume(a)
      PROVE  StopInv'
  <2>1. /\ status' = [status EXCEPT ![a] = "active"] /\ UNCHANGED <<trail, stoppedAt>>
    BY <1>2 DEF RegisterAgent, Resume, historyVars
  <2>2. \A b \in Agents : Stopped(b)' => Stopped(b)
    BY <1>0, <2>1 DEF Stopped
  <2> QED
    BY <1>0, <2>1, <2>2 DEF StopInv, StoppedMeansStopped, Statuses
<1>3. ASSUME NEW a \in Agents, NEW how \in {"paused", "killed"}, Stop(a, how)
      PROVE  StopInv'
  <2>1. /\ status' = [status EXCEPT ![a] = how] /\ trail' = trail
        /\ stoppedAt' = IF Stopped(a) THEN stoppedAt ELSE [stoppedAt EXCEPT ![a] = Len(trail)]
    BY <1>3 DEF Stop
  <2>2. status' \in [Agents -> Statuses] /\ stoppedAt' \in [Agents -> Nat]
    BY <1>0, <2>1 DEF Statuses
  <2>3. ASSUME NEW b \in Agents, Stopped(b)', NEW i \in (stoppedAt'[b] + 1)..Len(trail),
               trail[i].agent = b
        PROVE  trail[i].action = "blocked"
    <3>1. CASE Stopped(b)
      <4>1. stoppedAt'[b] = stoppedAt[b]
        BY <1>0, <2>1, <3>1
      <4> QED
        BY <2>3, <3>1, <4>1 DEF StopInv, StoppedMeansStopped
    <3>2. CASE ~ Stopped(b)
      <4>1. b = a
        BY <1>0, <2>1, <2>3, <3>2 DEF Stopped
      <4>2. stoppedAt'[b] = Len(trail)
        BY <1>0, <2>1, <3>2, <4>1
      <4> QED
        BY <1>0, <2>3, <4>2
    <3> QED
      BY <3>1, <3>2
  <2> QED
    BY <2>1, <2>2, <2>3 DEF StopInv, StoppedMeansStopped
<1>4. ASSUME NEW a \in Agents, NEW command \in Commands, ExecCheck(a, command)
      PROVE  StopInv'
  <2>1. PICK e \in Entry : /\ trail' = Append(trail, e) /\ e.agent = a
                           /\ Stopped(a) => e.action = "blocked"
    BY <1>4, ExecCheckLogs
  <2>2. /\ Len(trail') = Len(trail) + 1
        /\ trail'[Len(trail) + 1] = e /\ \A i \in 1..Len(trail) : trail'[i] = trail[i]
    <3>1. trail \in Seq(Entry) /\ trail' = Append(trail, e)
      BY <2>1 DEF LogTypes, Stopped
    <3> QED
      BY <3>1, AppendProperties, LenProperties
  <2>3. UNCHANGED <<status, stoppedAt>>
    BY <1>4 DEF ExecCheck
  <2>4. ASSUME NEW b \in Agents, Stopped(b), NEW i \in (stoppedAt[b] + 1)..(Len(trail) + 1),
               trail'[i].agent = b
        PROVE  trail'[i].action = "blocked"
    <3>1. CASE i = Len(trail) + 1
      <4>1. trail'[i] = e
        BY <2>2, <3>1
      <4>2. b = a
        BY <2>1, <2>4, <4>1 DEF Stopped
      <4>3. e.action = "blocked"
        BY <2>1, <2>4, <4>2 DEF Stopped
      <4> QED
        BY <4>1, <4>3
    <3>2. CASE i # Len(trail) + 1
      <4>1. i \in (stoppedAt[b] + 1)..Len(trail) /\ i \in 1..Len(trail)
        BY <1>0, <3>2
      <4> QED
        BY <2>2, <2>4, <4>1 DEF StopInv, StoppedMeansStopped
    <3> QED
      BY <3>1, <3>2
  <2>5. StoppedMeansStopped'
    BY <2>2, <2>3, <2>4 DEF StoppedMeansStopped, Stopped
  <2> QED
    BY <1>0, <2>3, <2>5 DEF StopInv
<1> QED
  BY <1>1, <1>2, <1>3, <1>4, StepKinds

\* handlers.go, PauseAgentHandler, KillAgentHandler and ExecCheckHandler: from
\* the moment an agent is stopped, and through any pauses and kills after that,
\* everything it asks for is logged as blocked.
THEOREM StoppedStaysStopped == Spec => []StoppedMeansStopped
<1>1. Init => StopInv
  BY DEF Init, StopInv, StoppedMeansStopped, Stopped, Statuses
<1>2. LogTypes /\ StopInv /\ [Next]_vars => StopInv'
  BY StopStep
<1>3. StopInv => StoppedMeansStopped
  BY DEF StopInv
<1> QED
  BY <1>1, <1>2, <1>3, LogTypesAlways, PTL DEF Spec

-----------------------------------------------------------------------------
(* The filter of GET /logs.  It is a loop over the log; what it yields is  *)
(* known from what a call does to the log, which is to add an entry at the *)
(* end and to drop one at the front.                                       *)

\* Induction over the numbers, in a form that is about a set.
LEMMA SetInduction ==
    ASSUME NEW S \in SUBSET Nat, 0 \in S, \A n \in S : n + 1 \in S
    PROVE  S = Nat
<1> SUFFICES ASSUME Nat \ S # {} PROVE FALSE
  OBVIOUS
<1>1. PICK x \in Nat \ S : \A y \in Nat \ S : ~ (<<y, x>> \in OpToRel(<, Nat))
  <2>1. Nat \ S \subseteq Nat
    OBVIOUS
  <2> QED
    BY <2>1, NatLessThanWellFounded, WFMin
<1>2. x # 0 /\ x - 1 \in Nat /\ x - 1 < x
  OBVIOUS
<1>3. x - 1 \in Nat \ S
  BY <1>2
<1>4. <<x - 1, x>> \in OpToRel(<, Nat)
  BY <1>2 DEF OpToRel
<1> QED
  BY <1>1, <1>3, <1>4

\* f holds what the loop has after each of the first m entries.
Loops(f, m, seq, of) ==
    /\ f[0] = << >>
    /\ \A n \in 1..m : f[n] = IF Asked(seq[n], of) THEN Append(f[n - 1], seq[n]) ELSE f[n - 1]

KeptTo(f, m, seq, of) == f \in [0..m -> Seq(Entry)] /\ Loops(f, m, seq, of)

LEMMA KeptExists ==
    ASSUME NEW seq \in Seq(Entry), NEW of
    PROVE  \E f : KeptTo(f, Len(seq), seq, of)
<1> DEFINE Some == {m \in Nat : m <= Len(seq) => \E f : KeptTo(f, m, seq, of)}
<1>1. Len(seq) \in Nat
  BY LenProperties
<1>2. 0 \in Some
  <2>1. KeptTo([n \in 0..0 |-> << >>], 0, seq, of)
    BY EmptySeq DEF KeptTo, Loops
  <2> QED
    BY <2>1
<1>3. ASSUME NEW m \in Some PROVE m + 1 \in Some
  <2> SUFFICES ASSUME m + 1 <= Len(seq) PROVE \E f : KeptTo(f, m + 1, seq, of)
    OBVIOUS
  <2>1. m \in Nat /\ m + 1 \in 1..Len(seq)
    BY <1>1
  <2>2. PICK f : KeptTo(f, m, seq, of)
    BY <1>1, <2>1
  <2> DEFINE last == IF Asked(seq[m + 1], of) THEN Append(f[m], seq[m + 1]) ELSE f[m]
             g == [n \in 0..(m + 1) |-> IF n = m + 1 THEN last ELSE f[n]]
  <2>3. last \in Seq(Entry)
    <3>1. f[m] \in Seq(Entry) /\ seq[m + 1] \in Entry
      BY <2>1, <2>2, ElementOfSeq DEF KeptTo, Loops
    <3> QED
      BY <3>1, AppendProperties
  <2>4. f[0] = << >> /\ \A n \in 0..m : f[n] \in Seq(Entry)
    BY <2>2 DEF KeptTo, Loops
  <2>5. g \in [0..(m + 1) -> Seq(Entry)] /\ g[0] = << >>
    <3> HIDE DEF last
    <3> QED
      BY <2>1, <2>3, <2>4
  <2>6. /\ g[m + 1] = last
        /\ \A n \in 0..m : g[n] = f[n]
    <3> HIDE DEF last
    <3> QED
      BY <2>1
  <2> HIDE DEF g
  <2>7. \A n \in 1..(m + 1) :
          g[n] = IF Asked(seq[n], of) THEN Append(g[n - 1], seq[n]) ELSE g[n - 1]
    <3> TAKE n \in 1..(m + 1)
    <3>1. CASE n = m + 1
      <4>1. g[n - 1] = f[m] /\ g[n] = last
        BY <2>1, <2>6, <3>1
      <4> QED
        BY <3>1, <4>1
    <3>2. CASE n # m + 1
      <4>1. n \in 1..m /\ g[n] = f[n] /\ g[n - 1] = f[n - 1]
        BY <2>1, <2>6, <3>2
      <4> QED
        BY <2>2, <4>1 DEF KeptTo, Loops
    <3> QED
      BY <3>1, <3>2
  <2> QED
    BY <2>5, <2>7 DEF KeptTo, Loops
<1>4. Some = Nat
  <2>1. Some \in SUBSET Nat
    OBVIOUS
  <2> HIDE DEF Some
  <2> QED
    BY <1>2, <1>3, <2>1, SetInduction
<1> QED
  BY <1>1, <1>4

\* As long as two logs agree, the loop has the same.
LEMMA KeptAgree ==
    ASSUME NEW seq, NEW other, NEW of, NEW m \in Nat, NEW f, NEW g,
           \A n \in 1..m : seq[n] = other[n],
           Loops(f, m, seq, of), Loops(g, m, other, of)
    PROVE  \A n \in 0..m : f[n] = g[n]
<1> DEFINE Same == {n \in Nat : n <= m => f[n] = g[n]}
<1>1. 0 \in Same
  BY DEF Loops
<1>2. ASSUME NEW n \in Same PROVE n + 1 \in Same
  <2> SUFFICES ASSUME n + 1 <= m PROVE f[n + 1] = g[n + 1]
    OBVIOUS
  <2>1. n \in Nat /\ n + 1 \in 1..m /\ (n + 1) - 1 = n
    OBVIOUS
  <2>2. f[n] = g[n] /\ seq[n + 1] = other[n + 1]
    BY <2>1
  <2>3. f[n + 1] = IF Asked(seq[n + 1], of) THEN Append(f[n], seq[n + 1]) ELSE f[n]
    BY <2>1 DEF Loops
  <2>4. g[n + 1] = IF Asked(other[n + 1], of) THEN Append(g[n], other[n + 1]) ELSE g[n]
    BY <2>1 DEF Loops
  <2> QED
    BY <2>2, <2>3, <2>4
<1>3. Same = Nat
  <2>1. Same \in SUBSET Nat
    OBVIOUS
  <2> HIDE DEF Same
  <2> QED
    BY <1>1, <1>2, <2>1, SetInduction
<1> QED
  BY <1>3

\* What the filter yields is what the loop has in the end.
LoopOf(g, seq, of) ==
    [n \in 0..Len(seq) |->
        IF n = 0 THEN << >>
        ELSE IF Asked(seq[n], of) THEN Append(g[n - 1], seq[n]) ELSE g[n - 1]]

LEMMA FilteredIsKept ==
    ASSUME NEW seq \in Seq(Entry), NEW of
    PROVE  \E f : KeptTo(f, Len(seq), seq, of) /\ Filtered(seq, of) = f[Len(seq)]
<1>1. PICK f : KeptTo(f, Len(seq), seq, of)
  BY KeptExists
<1>2. Len(seq) \in Nat
  BY LenProperties
<1> DEFINE kept == CHOOSE g : g = LoopOf(g, seq, of)
<1>3. f = LoopOf(f, seq, of)
  <2>1. f = [n \in 0..Len(seq) |-> f[n]]
    BY <1>1 DEF KeptTo, Loops
  <2>2. \A n \in 0..Len(seq) :
          f[n] = IF n = 0 THEN << >>
                 ELSE IF Asked(seq[n], of) THEN Append(f[n - 1], seq[n]) ELSE f[n - 1]
    <3>1. \A n \in 0..Len(seq) : n = 0 \/ n \in 1..Len(seq)
      BY <1>2
    <3> QED
      BY <1>1, <3>1 DEF KeptTo, Loops
  <2> QED
    BY <2>1, <2>2 DEF LoopOf
<1>4. kept = LoopOf(kept, seq, of)
  BY <1>3
<1>5. Filtered(seq, of) = kept[Len(seq)]
  BY DEF Filtered, LoopOf
<1> HIDE DEF kept
<1>6. \A n \in 0..Len(seq) :
        kept[n] = IF n = 0 THEN << >>
                  ELSE IF Asked(seq[n], of) THEN Append(kept[n - 1], seq[n]) ELSE kept[n - 1]
  <2>1. PICK w : w = kept
    OBVIOUS
  <2>2. w = LoopOf(w, seq, of)
    BY <1>4, <2>1
  <2>3. \A n \in 0..Len(seq) :
          LoopOf(w, seq, of)[n] =
            IF n = 0 THEN << >>
            ELSE IF Asked(seq[n], of) THEN Append(w[n - 1], seq[n]) ELSE w[n - 1]
    BY DEF LoopOf
  <2> QED
    BY <2>1, <2>2, <2>3
<1>7. Loops(kept, Len(seq), seq, of)
  <2>1. 0 \in 0..Len(seq) /\ \A n \in 1..Len(seq) : n \in 0..Len(seq) /\ n # 0
    BY <1>2
  <2> QED
    BY <1>6, <2>1 DEF Loops
<1>8. \A n \in 0..Len(seq) : kept[n] = f[n]
  BY <1>1, <1>2, <1>7, KeptAgree DEF KeptTo
<1> QED
  BY <1>1, <1>2, <1>5, <1>8

\* Whatever goes through the loop ends where the filter does.
LEMMA FilteredIs ==
    ASSUME NEW seq \in Seq(Entry), NEW of, NEW g, Loops(g, Len(seq), seq, of)
    PROVE  Filtered(seq, of) = g[Len(seq)]
<1>1. PICK f : KeptTo(f, Len(seq), seq, of) /\ Filtered(seq, of) = f[Len(seq)]
  BY FilteredIsKept
<1>2. Len(seq) \in Nat
  BY LenProperties
<1>3. \A n \in 0..Len(seq) : f[n] = g[n]
  BY <1>1, <1>2, KeptAgree DEF KeptTo
<1> QED
  BY <1>1, <1>2, <1>3

LEMMA FilteredType ==
    ASSUME NEW seq \in Seq(Entry), NEW of
    PROVE  Filtered(seq, of) \in Seq(Entry)
<1>1. PICK f : KeptTo(f, Len(seq), seq, of) /\ Filtered(seq, of) = f[Len(seq)]
  BY FilteredIsKept
<1>2. Len(seq) \in 0..Len(seq)
  BY LenProperties
<1> QED
  BY <1>1, <1>2 DEF KeptTo

LEMMA FilteredEmpty == \A of : Filtered(<< >>, of) = << >>
<1> TAKE of
<1>1. << >> \in Seq(Entry) /\ Len(<< >>) = 0
  BY EmptySeq
<1>2. PICK f : KeptTo(f, 0, << >>, of) /\ Filtered(<< >>, of) = f[0]
  BY <1>1, FilteredIsKept
<1> QED
  BY <1>2 DEF KeptTo, Loops

\* An entry at the end of the log is the last one of what it is asked for with.
LEMMA FilteredAppend ==
    ASSUME NEW seq \in Seq(Entry), NEW e \in Entry, NEW of
    PROVE  Filtered(Append(seq, e), of) =
             IF Asked(e, of) THEN Append(Filtered(seq, of), e) ELSE Filtered(seq, of)
<1> DEFINE long == Append(seq, e)
<1>1. /\ Len(seq) \in Nat /\ long \in Seq(Entry) /\ Len(long) = Len(seq) + 1
      /\ long[Len(seq) + 1] = e /\ \A i \in 1..Len(seq) : long[i] = seq[i]
  BY LenProperties, AppendProperties
<1> HIDE DEF long
<1>2. PICK f : KeptTo(f, Len(long), long, of) /\ Filtered(long, of) = f[Len(long)]
  BY <1>1, FilteredIsKept
<1>3. Loops(f, Len(seq), seq, of)
  BY <1>1, <1>2 DEF KeptTo, Loops
<1>4. Filtered(seq, of) = f[Len(seq)]
  BY <1>3, FilteredIs
<1>5. f[Len(seq) + 1] = IF Asked(e, of) THEN Append(f[Len(seq)], e) ELSE f[Len(seq)]
  <2>1. Len(seq) + 1 \in 1..Len(long) /\ (Len(seq) + 1) - 1 = Len(seq)
    BY <1>1
  <2> QED
    BY <1>1, <1>2, <2>1 DEF KeptTo, Loops
<1> QED
  BY <1>1, <1>2, <1>4, <1>5 DEF long

LEMMA TailAppend ==
    ASSUME NEW S, NEW seq \in Seq(S), seq # << >>, NEW e \in S
    PROVE  Tail(Append(seq, e)) = Append(Tail(seq), e)
<1>1. Len(seq) \in Nat \ {0}
  BY EmptySeq
<1>2. /\ Append(seq, e) \in Seq(S) /\ Append(seq, e) # << >>
      /\ Len(Append(seq, e)) = Len(seq) + 1
      /\ \A i \in 1..Len(seq) : Append(seq, e)[i] = seq[i]
      /\ Append(seq, e)[Len(seq) + 1] = e
  BY AppendProperties
<1>3. /\ Tail(Append(seq, e)) \in Seq(S) /\ Len(Tail(Append(seq, e))) = Len(seq)
      /\ \A i \in 1..Len(seq) : Tail(Append(seq, e))[i] = Append(seq, e)[i + 1]
  <2>1. PICK long \in Seq(S) : long = Append(seq, e)
    BY <1>2
  <2>2. /\ Tail(long) \in Seq(S) /\ Len(Tail(long)) = Len(long) - 1
        /\ \A i \in 1..Len(Tail(long)) : Tail(long)[i] = long[i + 1]
    BY <1>2, <2>1, HeadTailProperties
  <2>3. Len(long) - 1 = Len(seq)
    BY <1>1, <1>2, <2>1
  <2> QED
    BY <2>1, <2>2, <2>3
<1>4. /\ Tail(seq) \in Seq(S) /\ Len(Tail(seq)) = Len(seq) - 1
      /\ \A i \in 1..Len(Tail(seq)) : Tail(seq)[i] = seq[i + 1]
  BY HeadTailProperties
<1>5. /\ Append(Tail(seq), e) \in Seq(S) /\ Len(Append(Tail(seq), e)) = Len(Tail(seq)) + 1
      /\ \A i \in 1..Len(Tail(seq)) : Append(Tail(seq), e)[i] = Tail(seq)[i]
      /\ Append(Tail(seq), e)[Len(Tail(seq)) + 1] = e
  BY <1>4, AppendProperties
<1>6. ASSUME NEW i \in 1..Len(seq)
      PROVE  Tail(Append(seq, e))[i] = Append(Tail(seq), e)[i]
  <2>1. CASE i = Len(seq)
    <3>1. Len(Tail(seq)) + 1 = i
      BY <1>1, <1>4, <2>1
    <3> QED
      BY <1>2, <1>3, <1>5, <2>1, <3>1
  <2>2. CASE i # Len(seq)
    <3>1. i + 1 \in 1..Len(seq) /\ i \in 1..(Len(seq) - 1)
      BY <1>1, <2>2
    <3>2. i \in 1..Len(Tail(seq))
      BY <1>4, <3>1
    <3> QED
      BY <1>2, <1>3, <1>4, <1>5, <3>1, <3>2
  <2> QED
    BY <2>1, <2>2
<1>7. Len(Append(Tail(seq), e)) = Len(seq)
  BY <1>1, <1>4, <1>5
<1>8. PICK left \in Seq(S) : left = Tail(Append(seq, e))
  BY <1>3
<1>9. PICK right \in Seq(S) : right = Append(Tail(seq), e)
  BY <1>5
<1>10. left = right
  BY <1>3, <1>6, <1>7, <1>8, <1>9, SeqEqual
<1> QED
  BY <1>8, <1>9, <1>10

\* With the front entry of the log goes the front of what it is asked for with.
LEMMA FilteredTail ==
    ASSUME NEW seq \in Seq(Entry), seq # << >>, NEW of
    PROVE  /\ Asked(seq[1], of) => /\ Filtered(seq, of) # << >>
                                   /\ Filtered(Tail(seq), of) = Tail(Filtered(seq, of))
           /\ ~ Asked(seq[1], of) => Filtered(Tail(seq), of) = Filtered(seq, of)
<1> DEFINE short == Tail(seq)
           first == Asked(seq[1], of)
<1>1. /\ Len(seq) \in Nat \ {0} /\ short \in Seq(Entry) /\ Len(short) = Len(seq) - 1
      /\ \A i \in 1..Len(short) : short[i] = seq[i + 1]
  BY EmptySeq, HeadTailProperties
<1> HIDE DEF short
<1>2. PICK f : KeptTo(f, Len(seq), seq, of) /\ Filtered(seq, of) = f[Len(seq)]
  BY FilteredIsKept
<1>3. f[1] = IF first THEN Append(<< >>, seq[1]) ELSE << >>
  <2>1. 1 \in 1..Len(seq) /\ 1 - 1 = 0
    BY <1>1
  <2> QED
    BY <1>2, <2>1 DEF KeptTo, Loops
<1>4. \A n \in 1..Len(seq) : f[n] \in Seq(Entry) /\ seq[n] \in Entry
  <2>1. \A n \in 1..Len(seq) : n \in 0..Len(seq)
    BY <1>1
  <2> QED
    BY <1>2, <2>1, ElementOfSeq DEF KeptTo
<1>5. \A n \in 1..Len(short) :
        f[n + 1] = IF Asked(short[n], of) THEN Append(f[n], short[n]) ELSE f[n]
  <2> TAKE n \in 1..Len(short)
  <2>1. n + 1 \in 1..Len(seq) /\ (n + 1) - 1 = n /\ short[n] = seq[n + 1]
    BY <1>1
  <2> QED
    BY <1>2, <2>1 DEF KeptTo, Loops
\* Once the first entry is in, the loop always has something.
<1>6. ASSUME first PROVE \A n \in 1..Len(seq) : f[n] # << >>
  <2> DEFINE Some == {n \in Nat : n + 1 <= Len(seq) => f[n + 1] # << >>}
  <2>1. 0 \in Some
    <3>1. seq[1] \in Entry /\ << >> \in Seq(Entry)
      BY <1>1, <1>4, EmptySeq
    <3>2. Append(<< >>, seq[1]) # << >>
      BY <3>1, AppendProperties
    <3>3. f[1] # << >>
      BY <1>3, <1>6, <3>2
    <3>4. 0 + 1 = 1
      OBVIOUS
    <3> QED
      BY <3>3, <3>4
  <2>2. ASSUME NEW n \in Some PROVE n + 1 \in Some
    <3> SUFFICES ASSUME (n + 1) + 1 <= Len(seq) PROVE f[(n + 1) + 1] # << >>
      OBVIOUS
    <3>1. n + 1 \in 1..Len(short) /\ n + 1 \in 1..Len(seq) /\ n + 1 <= Len(seq)
      BY <1>1
    <3>2. f[n + 1] # << >> /\ f[n + 1] \in Seq(Entry) /\ short[n + 1] \in Entry
      BY <1>1, <1>4, <3>1, ElementOfSeq
    <3>3. Append(f[n + 1], short[n + 1]) # << >>
      BY <3>2, AppendProperties
    <3> QED
      BY <1>5, <3>1, <3>2, <3>3
  <2>3. Some = Nat
    <3>1. Some \in SUBSET Nat
      OBVIOUS
    <3> HIDE DEF Some
    <3> QED
      BY <2>1, <2>2, <3>1, SetInduction
  <2>4. \A n \in 1..Len(seq) : n - 1 \in Nat /\ (n - 1) + 1 = n /\ n <= Len(seq)
    BY <1>1
  <2> QED
    BY <2>3, <2>4
<1>7. ASSUME first PROVE Filtered(short, of) = Tail(Filtered(seq, of))
  <2> DEFINE h == [n \in 0..Len(short) |-> Tail(f[n + 1])]
  <2>1. \A n \in 0..Len(short) : h[n] = Tail(f[n + 1])
    OBVIOUS
  <2> HIDE DEF h
  <2>2. h[0] = << >>
    <3>1. h[0] = Tail(f[1])
      BY <1>1, <2>1
    <3>2. << >> \in Seq(Entry) /\ seq[1] \in Entry /\ Len(<< >>) = 0
      BY <1>1, <1>4, EmptySeq
    <3>3. /\ f[1] = Append(<< >>, seq[1]) /\ f[1] \in Seq(Entry) /\ f[1] # << >>
          /\ Len(f[1]) = 1
      BY <1>3, <1>7, <3>2, AppendProperties
    <3>4. Tail(f[1]) \in Seq(Entry) /\ Len(Tail(f[1])) = 0
      BY <3>3, HeadTailProperties
    <3> QED
      BY <3>1, <3>4, EmptySeq
  <2>3. \A n \in 1..Len(short) :
          h[n] = IF Asked(short[n], of) THEN Append(h[n - 1], short[n]) ELSE h[n - 1]
    <3> TAKE n \in 1..Len(short)
    <3>1. n \in 1..Len(seq) /\ n \in 0..Len(short) /\ n - 1 \in 0..Len(short) /\ (n - 1) + 1 = n
      BY <1>1
    <3>2. h[n] = Tail(f[n + 1]) /\ h[n - 1] = Tail(f[n])
      BY <2>1, <3>1
    <3>3. f[n] \in Seq(Entry) /\ f[n] # << >> /\ short[n] \in Entry
      BY <1>1, <1>4, <1>6, <1>7, <3>1, ElementOfSeq
    <3>4. Tail(Append(f[n], short[n])) = Append(Tail(f[n]), short[n])
      BY <3>3, TailAppend
    <3> QED
      BY <1>5, <3>2, <3>4
  <2>4. Loops(h, Len(short), short, of)
    BY <2>2, <2>3 DEF Loops
  <2>5. Filtered(short, of) = h[Len(short)]
    BY <1>1, <2>4, FilteredIs
  <2>6. Len(short) \in 0..Len(short) /\ Len(short) + 1 = Len(seq)
    BY <1>1
  <2> QED
    BY <1>2, <2>1, <2>5, <2>6
<1>8. ASSUME ~ first PROVE Filtered(short, of) = Filtered(seq, of)
  <2> DEFINE h == [n \in 0..Len(short) |-> f[n + 1]]
  <2>1. \A n \in 0..Len(short) : h[n] = f[n + 1]
    OBVIOUS
  <2> HIDE DEF h
  <2>2. h[0] = << >>
    BY <1>1, <1>3, <1>8, <2>1
  <2>3. \A n \in 1..Len(short) :
          h[n] = IF Asked(short[n], of) THEN Append(h[n - 1], short[n]) ELSE h[n - 1]
    <3> TAKE n \in 1..Len(short)
    <3>1. n \in 0..Len(short) /\ n - 1 \in 0..Len(short) /\ (n - 1) + 1 = n
      BY <1>1
    <3>2. h[n] = f[n + 1] /\ h[n - 1] = f[n]
      BY <2>1, <3>1
    <3> QED
      BY <1>5, <3>2
  <2>4. Loops(h, Len(short), short, of)
    BY <2>2, <2>3 DEF Loops
  <2>5. Filtered(short, of) = h[Len(short)]
    BY <1>1, <2>4, FilteredIs
  <2>6. Len(short) \in 0..Len(short) /\ Len(short) + 1 = Len(seq)
    BY <1>1
  <2> QED
    BY <1>2, <2>1, <2>5, <2>6
<1>9. ASSUME first PROVE Filtered(seq, of) # << >>
  <2>1. Len(seq) \in 1..Len(seq)
    BY <1>1
  <2> QED
    BY <1>2, <1>6, <1>9, <2>1
<1> QED
  BY <1>7, <1>8, <1>9 DEF short

-----------------------------------------------------------------------------
(* The pages of GET /logs.                                                 *)

\* The log after an exec check: the entry is at its end, and the oldest one is
\* gone if the log was full.
LEMMA LogMoves ==
    ASSUME LogTypes, NEW a \in Agents, NEW command \in Commands, ExecCheck(a, command)
    PROVE  \E e \in Entry :
              /\ requestsTotal' = requestsTotal + 1 /\ e.id = requestsTotal'
              /\ logs \in Seq(Entry) /\ Append(logs, e) \in Seq(Entry) /\ Append(logs, e) # << >>
              /\ \/ logs' = Append(logs, e) /\ Dropped' = Dropped
                 \/ logs' = Tail(Append(logs, e)) /\ Dropped' = Dropped + 1
<1>1. PICK e \in Entry :
         /\ requestsTotal' = requestsTotal + 1 /\ e.id = requestsTotal'
         /\ logs' = LastOf(Append(logs, e), LogCap) /\ trail' = Append(trail, e)
  BY ExecCheckLogs
<1>2. /\ logs \in Seq(Entry) /\ Len(logs) <= LogCap /\ Len(logs) \in Nat
      /\ trail \in Seq(Entry) /\ Len(trail) \in Nat
  <2>1. trail \in Seq(Entry) /\ logs = LastOf(trail, LogCap) /\ LogCap \in Nat \ {0}
    BY ApiAssumption DEF LogTypes
  <2> QED
    BY <2>1, LastOfType, LenProperties
<1> DEFINE long == Append(logs, e)
<1>3. /\ long \in Seq(Entry) /\ long # << >> /\ Len(long) = Len(logs) + 1
      /\ Len(trail') = Len(trail) + 1
  BY <1>1, <1>2, AppendProperties
<1> HIDE DEF long
<1>4. logs' = LastOf(long, LogCap) /\ LogCap \in Nat \ {0}
  BY <1>1, ApiAssumption DEF long
<1>5. CASE Len(long) <= LogCap
  <2>1. logs' = long
    BY <1>4, <1>5 DEF LastOf
  <2>2. Dropped' = Dropped
    BY <1>2, <1>3, <2>1 DEF Dropped
  <2> QED
    BY <1>1, <1>2, <1>3, <2>1, <2>2 DEF long
<1>6. CASE ~ (Len(long) <= LogCap)
  <2>1. Len(long) = LogCap + 1 /\ Len(long) - LogCap + 1 = 2
    BY <1>2, <1>3, <1>4, <1>6
  <2>2. logs' = SubSeq(long, 2, Len(long))
    BY <1>4, <1>6, <2>1 DEF LastOf
  <2>3. logs' = Tail(long) /\ Len(Tail(long)) = Len(long) - 1
    BY <1>3, <2>2, TailIsSubSeq, HeadTailProperties
  <2>4. Dropped' = Dropped + 1
    <3>1. Len(logs') = Len(logs)
      BY <1>2, <1>3, <2>3
    <3> QED
      BY <1>2, <1>3, <3>1 DEF Dropped
  <2> QED
    BY <1>1, <1>2, <1>3, <2>3, <2>4 DEF long
<1> QED
  BY <1>5, <1>6

\* Entries in the order of their numbers, up to n.
Ordered(seq, n) ==
    \A j \in 1..Len(seq) : /\ seq[j].id <= n
                           /\ \A i \in 1..(j - 1) : seq[i].id < seq[j].id

\* What is behind the offset came later than what the reader has.
Unread(seq, offset, got) ==
    \A j \in 1..Len(seq), i \in 1..Len(got) : j > offset => got[i].id < seq[j].id

LEMMA OrderedAppend ==
    ASSUME NEW seq \in Seq(Entry), NEW n \in Nat, NEW e \in Entry, e.id = n + 1,
           Ordered(seq, n)
    PROVE  Ordered(seq, n + 1) /\ Ordered(Append(seq, e), n + 1)
<1>0. /\ Append(seq, e) \in Seq(Entry) /\ Len(Append(seq, e)) = Len(seq) + 1
      /\ Append(seq, e)[Len(seq) + 1] = e
      /\ \A i \in 1..Len(seq) : Append(seq, e)[i] = seq[i]
  BY AppendProperties
<1>1. PICK long \in Seq(Entry) :
         /\ long = Append(seq, e) /\ Len(long) = Len(seq) + 1 /\ long[Len(seq) + 1] = e
         /\ \A i \in 1..Len(seq) : long[i] = seq[i]
  BY <1>0
<1>2. Len(seq) \in Nat /\ \A i \in 1..Len(seq) : seq[i].id \in Int
  <2>1. \A x \in Entry : x.id \in Int
    BY ApiAssumption DEF Entry
  <2> QED
    BY <2>1, LenProperties, ElementOfSeq
<1>3. ASSUME NEW j \in 1..(Len(seq) + 1)
      PROVE  long[j].id <= n + 1 /\ \A i \in 1..(j - 1) : long[i].id < long[j].id
  <2>1. CASE j = Len(seq) + 1
    <3>1. long[j].id = n + 1
      BY <1>1, <2>1
    <3>2. ASSUME NEW i \in 1..(j - 1) PROVE long[i].id <= n /\ long[i].id \in Int
      <4>1. i \in 1..Len(seq)
        BY <1>2, <2>1
      <4> QED
        BY <1>1, <1>2, <4>1 DEF Ordered
    <3> QED
      BY <3>1, <3>2
  <2>2. CASE j # Len(seq) + 1
    <3>1. j \in 1..Len(seq) /\ \A i \in 1..(j - 1) : i \in 1..Len(seq)
      BY <1>2, <2>2
    <3>2. long[j] = seq[j] /\ \A i \in 1..(j - 1) : long[i] = seq[i]
      BY <1>1, <3>1
    <3>3. seq[j].id <= n /\ \A i \in 1..(j - 1) : seq[i].id < seq[j].id
      BY <3>1 DEF Ordered
    <3>4. seq[j].id <= n + 1
      BY <1>2, <3>1, <3>3
    <3> QED
      BY <3>2, <3>3, <3>4
  <2> QED
    BY <2>1, <2>2
<1>4. Ordered(long, n + 1)
  BY <1>1, <1>3 DEF Ordered
<1>5. ASSUME NEW j \in 1..Len(seq) PROVE seq[j].id <= n + 1
  <2>1. seq[j].id <= n /\ seq[j].id \in Int
    BY <1>2 DEF Ordered
  <2> QED
    BY <2>1
<1> QED
  BY <1>1, <1>4, <1>5 DEF Ordered

LEMMA OrderedTail ==
    ASSUME NEW seq \in Seq(Entry), seq # << >>, NEW n, Ordered(seq, n)
    PROVE  Ordered(Tail(seq), n)
<1>1. PICK short \in Seq(Entry) :
         /\ short = Tail(seq) /\ Len(short) = Len(seq) - 1
         /\ \A i \in 1..Len(short) : short[i] = seq[i + 1]
  BY HeadTailProperties
<1>2. Len(seq) \in Nat \ {0}
  BY EmptySeq
<1>3. ASSUME NEW j \in 1..Len(short)
      PROVE  short[j].id <= n /\ \A i \in 1..(j - 1) : short[i].id < short[j].id
  <2>1. /\ j + 1 \in 1..Len(seq)
        /\ \A i \in 1..(j - 1) : i \in 1..Len(short) /\ i + 1 \in 1..((j + 1) - 1)
    BY <1>1, <1>2
  <2>2. seq[j + 1].id <= n /\ \A k \in 1..((j + 1) - 1) : seq[k].id < seq[j + 1].id
    BY <2>1 DEF Ordered
  <2>3. short[j] = seq[j + 1] /\ \A i \in 1..(j - 1) : short[i] = seq[i + 1]
    BY <1>1, <2>1
  <2> QED
    BY <2>1, <2>2, <2>3
<1> QED
  BY <1>1, <1>3 DEF Ordered

LEMMA UnreadAppend ==
    ASSUME NEW seq \in Seq(Entry), NEW n \in Nat, NEW e \in Entry, e.id = n + 1,
           NEW got \in Seq(Entry), Ordered(got, n), NEW offset \in Nat,
           Unread(seq, offset, got)
    PROVE  Unread(Append(seq, e), offset, got)
<1>0. /\ Append(seq, e) \in Seq(Entry) /\ Len(Append(seq, e)) = Len(seq) + 1
      /\ Append(seq, e)[Len(seq) + 1] = e
      /\ \A i \in 1..Len(seq) : Append(seq, e)[i] = seq[i]
  BY AppendProperties
<1>1. PICK long \in Seq(Entry) :
         /\ long = Append(seq, e) /\ Len(long) = Len(seq) + 1 /\ long[Len(seq) + 1] = e
         /\ \A i \in 1..Len(seq) : long[i] = seq[i]
  BY <1>0
<1>2. Len(seq) \in Nat
  BY LenProperties
<1>3. ASSUME NEW j \in 1..Len(long), NEW i \in 1..Len(got), j > offset
      PROVE  got[i].id < long[j].id
  <2>1. CASE j = Len(seq) + 1
    <3>1. got[i].id <= n /\ got[i].id \in Int
      <4>1. got[i] \in Entry
        BY ElementOfSeq
      <4> QED
        BY <4>1, ApiAssumption DEF Ordered, Entry
    <3>2. long[j].id = n + 1
      BY <1>1, <2>1
    <3> QED
      BY <3>1, <3>2
  <2>2. CASE j # Len(seq) + 1
    <3>1. j \in 1..Len(seq)
      BY <1>1, <1>2, <2>2
    <3> QED
      BY <1>1, <1>3, <3>1 DEF Unread
  <2> QED
    BY <2>1, <2>2
<1> QED
  BY <1>1, <1>3 DEF Unread

LEMMA UnreadTail ==
    ASSUME NEW seq \in Seq(Entry), seq # << >>, NEW got, NEW offset \in Nat,
           Unread(seq, offset, got)
    PROVE  Unread(Tail(seq), offset, got)
<1>1. PICK short \in Seq(Entry) :
         /\ short = Tail(seq) /\ Len(short) = Len(seq) - 1
         /\ \A i \in 1..Len(short) : short[i] = seq[i + 1]
  BY HeadTailProperties
<1>2. Len(seq) \in Nat \ {0}
  BY EmptySeq
<1>3. ASSUME NEW j \in 1..Len(short), NEW i \in 1..Len(got), j > offset
      PROVE  got[i].id < short[j].id
  <2>1. j + 1 \in 1..Len(seq) /\ j + 1 > offset
    BY <1>1, <1>2, <1>3
  <2> QED
    BY <1>1, <2>1 DEF Unread
<1> QED
  BY <1>1, <1>3 DEF Unread

\* A page is what is behind the offset, to the limit or to the end.
PageOf(seq, offset, limit) ==
    LET start == Least(offset, Len(seq))
    IN  SubSeq(seq, start + 1, Least(start + limit, Len(seq)))

IsPage(page, seq, offset, limit) ==
    /\ Len(page) \in 0..limit
    /\ \A i \in 1..Len(page) : offset + i \in 1..Len(seq) /\ page[i] = seq[offset + i]
    /\ offset <= Len(seq) => offset + Len(page) = Least(offset + limit, Len(seq))

LEMMA PageIs ==
    ASSUME NEW S, NEW seq \in Seq(S), NEW offset \in Nat, NEW limit \in Nat \ {0},
           NEW page, page = PageOf(seq, offset, limit)
    PROVE  page \in Seq(S) /\ IsPage(page, seq, offset, limit)
<1>0. PICK start : /\ start = Least(offset, Len(seq))
                  /\ page = SubSeq(seq, start + 1, Least(start + limit, Len(seq)))
  BY DEF PageOf
<1>1. Len(seq) \in Nat
  BY LenProperties
<1>2. PICK total \in Nat, first \in Nat, last \in Nat :
         /\ total = Len(seq) /\ first = start /\ last = Least(start + limit, Len(seq))
         /\ first <= last /\ last <= total /\ last - first <= limit
         /\ first = offset \/ first = last
         /\ offset <= total => first = offset /\ last = Least(offset + limit, total)
  <2>1. start \in Nat /\ Least(start + limit, Len(seq)) \in Nat
    BY <1>0, <1>1 DEF Least
  <2> QED
    BY <1>0, <1>1, <2>1 DEF Least
<1>2a. first <= last /\ last <= total /\ last - first <= limit /\ (first = offset \/ first = last)
  BY <1>2
<1>3. \A i \in (first + 1)..last : i \in 1..Len(seq) /\ seq[i] \in S
  <2>1. total = Len(seq)
    BY <1>2
  <2>2. \A i \in (first + 1)..last : i \in 1..total
    BY <1>2a
  <2> QED
    BY <2>1, <2>2, ElementOfSeq
<1>4. PICK cut : cut = SubSeq(seq, first + 1, last)
  OBVIOUS
<1>5. /\ cut \in Seq(S)
      /\ Len(cut) = IF first + 1 <= last THEN last - (first + 1) + 1 ELSE 0
      /\ \A i \in 1..(last - (first + 1) + 1) : cut[i] = seq[(first + 1) + i - 1]
  <2>1. first + 1 \in Int /\ last \in Int
    OBVIOUS
  <2>2. \A i \in (first + 1)..last : seq[i] \in S
    BY <1>3
  <2> QED
    BY <1>4, <2>1, <2>2, SubSeqProperties
<1>6. Len(cut) = last - first /\ last - (first + 1) + 1 = last - first
  <2>1. Len(cut) = IF first + 1 <= last THEN last - (first + 1) + 1 ELSE 0
    BY <1>5
  <2> QED
    BY <1>2a, <2>1
<1>7. ASSUME NEW i \in 1..Len(cut)
      PROVE  offset + i \in 1..Len(seq) /\ cut[i] = seq[offset + i]
  <2>1. i \in 1..(last - first)
    BY <1>6
  <2>2. first = offset /\ (first + 1) + i - 1 = offset + i /\ offset + i \in (first + 1)..last
    BY <1>2a, <2>1
  <2> QED
    BY <1>3, <1>5, <1>6, <2>1, <2>2
<1>8. ASSUME offset <= Len(seq)
      PROVE  offset + Len(cut) = Least(offset + limit, Len(seq))
  BY <1>2, <1>6, <1>8
<1>9. Len(cut) \in 0..limit
  BY <1>2, <1>6
<1>10. page = cut
  BY <1>0, <1>2, <1>4
<1> QED
  BY <1>5, <1>7, <1>8, <1>9, <1>10 DEF IsPage

ReaderType ==
    reader \in [of : SUBSET Agents, size : Int, offset : Nat, got : Seq(Entry), total : Nat,
               dropped : Nat, done : BOOLEAN]

LogOrdered == \A of \in SUBSET Agents : Ordered(Filtered(logs, of), requestsTotal)

ReaderInv ==
    /\ ReaderType
    /\ LogOrdered
    /\ Ordered(reader.got, requestsTotal)
    /\ Unread(Filtered(logs, reader.of), reader.offset, reader.got)

\* What a check does to the log keeps the order and what is left to read.
LEMMA OrderedByCheck ==
    ASSUME NEW log \in Seq(Entry), NEW of, NEW n \in Nat, NEW e \in Entry, e.id = n + 1,
           NEW log2, log2 = Append(log, e) \/ log2 = Tail(Append(log, e)),
           Ordered(Filtered(log, of), n)
    PROVE  /\ Ordered(Filtered(log2, of), n + 1)
           /\ \A got \in Seq(Entry), offset \in Nat :
                 Ordered(got, n) /\ Unread(Filtered(log, of), offset, got)
                   => Unread(Filtered(log2, of), offset, got)
<1>1. PICK long \in Seq(Entry) : long = Append(log, e) /\ long # << >>
  <2>1. Append(log, e) \in Seq(Entry) /\ Append(log, e) # << >>
    BY AppendProperties
  <2> QED
    BY <2>1
<1>2. PICK old \in Seq(Entry) : old = Filtered(log, of)
  BY FilteredType
<1>3. PICK new \in Seq(Entry) : new = Filtered(long, of)
  BY FilteredType
<1>4. new = Append(old, e) \/ new = old
  BY <1>1, <1>2, <1>3, FilteredAppend
<1>5. Ordered(new, n + 1)
  BY <1>2, <1>4, OrderedAppend
<1>6. ASSUME NEW got \in Seq(Entry), NEW offset \in Nat,
             Ordered(got, n), Unread(old, offset, got)
      PROVE  Unread(new, offset, got)
  BY <1>4, <1>6, UnreadAppend
<1>7. CASE log2 = long
  BY <1>2, <1>3, <1>5, <1>6, <1>7
<1>8. CASE log2 = Tail(long)
  <2>1. Filtered(log2, of) = new \/ (new # << >> /\ Filtered(log2, of) = Tail(new))
    BY <1>1, <1>3, <1>8, FilteredTail
  <2>2. new # << >> => Ordered(Tail(new), n + 1)
    BY <1>5, OrderedTail
  <2>3. ASSUME NEW got \in Seq(Entry), NEW offset \in Nat, new # << >>, Unread(new, offset, got)
        PROVE  Unread(Tail(new), offset, got)
    BY <2>3, UnreadTail
  <2> QED
    BY <1>2, <1>5, <1>6, <2>1, <2>2, <2>3
<1> QED
  BY <1>1, <1>7, <1>8

\* Only the reader's own calls change the reader.
LEMMA ReaderKinds ==
    ASSUME [Next]_vars
    PROVE  \/ \E a \in Agents, command \in Commands :
                ExecCheck(a, command) /\ reader' = reader
           \/ /\ UNCHANGED <<logs, requestsTotal, trail>>
              /\ \/ reader' = reader
                 \/ \E of \in Filters, size \in PageSizes : StartReading(of, size)
                 \/ ReadPage
<1> USE DEF storeVars, historyVars
<1>1. CASE UNCHANGED vars
  BY <1>1 DEF vars
<1>2. ASSUME NEW a \in Agents, RegisterAgent(a) \/ Pause(a) \/ Kill(a) \/ Resume(a)
      PROVE  UNCHANGED <<logs, requestsTotal, trail, reader>>
  BY <1>2 DEF RegisterAgent, Resume, Pause, Kill, Stop
<1>3. ASSUME NEW a \in Agents, NEW command \in Commands, ExecCheck(a, command)
      PROVE  reader' = reader
  BY <1>3 DEF ExecCheck
<1>4. ASSUME \/ \E body \in RuleBodies : CreateRule(body)
             \/ \E i \in RuleId : DeleteRule(i)
      PROVE  UNCHANGED <<logs, requestsTotal, trail, reader>>
  BY <1>4 DEF CreateRule, DeleteRule
<1>5. ASSUME ReadPage \/ \E of \in Filters, size \in PageSizes : StartReading(of, size)
      PROVE  UNCHANGED <<logs, requestsTotal, trail>>
  BY <1>5 DEF StartReading, ReadPage
<1> QED
  BY <1>1, <1>2, <1>3, <1>4, <1>5 DEF Next

\* The page that ReadPage puts behind what the reader has, whatever limit it
\* asks for.
PageGot(page, asked, limit) ==
    /\ IsPage(page, asked, reader.offset, limit)
    /\ reader' = [of |-> reader.of, size |-> reader.size, offset |-> reader.offset + limit,
                  got |-> reader.got \o page, total |-> Len(asked),
                  dropped |-> reader.dropped, done |-> Len(page) < limit]

LEMMA PageRead ==
    ASSUME ReaderType, logs \in Seq(Entry), ReadPage
    PROVE  /\ ~ reader.done
           /\ \E page \in Seq(Entry), limit \in Nat \ {0} :
                 PageGot(page, Filtered(logs, reader.of), limit)
<1>1. PICK asked \in Seq(Entry) : asked = Filtered(logs, reader.of)
  BY FilteredType
<1>2. PICK limit \in Nat \ {0} : limit = Limit(reader.size)
  BY ApiAssumption DEF Limit
<1>3. PICK page : page = PageOf(asked, reader.offset, limit)
  OBVIOUS
<1>4. ListLogs(reader.of, reader.offset, reader.size)
        = [logs |-> page, total |-> Len(asked), limit |-> limit]
  BY <1>1, <1>2, <1>3 DEF ListLogs, PageOf
<1>5. reader.offset \in Nat
  BY DEF ReaderType
<1>6. page \in Seq(Entry) /\ IsPage(page, asked, reader.offset, limit)
  BY <1>3, <1>5, PageIs
<1>7. /\ ~ reader.done
      /\ reader' = [of |-> reader.of, size |-> reader.size, offset |-> reader.offset + limit,
                    got |-> reader.got \o page, total |-> Len(asked),
                    dropped |-> reader.dropped, done |-> Len(page) < limit]
  <2>1. PICK answer : answer = ListLogs(reader.of, reader.offset, reader.size)
    OBVIOUS
  <2>2. answer.logs = page /\ answer.total = Len(asked) /\ answer.limit = limit
    BY <1>4, <2>1
  <2>3. ~ reader.done
    BY DEF ReadPage
  <2>4. reader' = [reader EXCEPT !.offset = @ + answer.limit, !.got = @ \o answer.logs,
                                 !.total = answer.total,
                                 !.done = Len(answer.logs) < answer.limit]
    BY <2>1 DEF ReadPage
  <2>5. reader' = [reader EXCEPT !.offset = reader.offset + limit, !.got = reader.got \o page,
                                 !.total = Len(asked), !.done = Len(page) < limit]
    BY <2>2, <2>4
  <2>6. PICK total, done : total = Len(asked) /\ done = (Len(page) < limit)
    OBVIOUS
  <2>7. reader' = [reader EXCEPT !.offset = reader.offset + limit, !.got = reader.got \o page,
                                 !.total = total, !.done = done]
    BY <2>5, <2>6
  <2>8. reader' = [of |-> reader.of, size |-> reader.size, offset |-> reader.offset + limit,
                   got |-> reader.got \o page, total |-> total,
                   dropped |-> reader.dropped, done |-> done]
    BY <2>7 DEF ReaderType
  <2> QED
    BY <2>3, <2>6, <2>8
<1>8. PageGot(page, asked, limit)
  BY <1>6, <1>7 DEF PageGot
<1> QED
  BY <1>1, <1>6, <1>7, <1>8

\* Reading on: what follows in order, behind what is in order, is in order.
LEMMA OrderedPage ==
    ASSUME NEW asked \in Seq(Entry), NEW got \in Seq(Entry), NEW page \in Seq(Entry),
           NEW offset \in Nat, NEW limit \in Nat, NEW n,
           IsPage(page, asked, offset, limit), Ordered(asked, n), Ordered(got, n), Unread(asked, offset, got)
    PROVE  /\ Ordered(got \o page, n)
           /\ Unread(asked, offset + limit, got \o page)
<1>1. /\ got \o page \in Seq(Entry) /\ Len(got \o page) = Len(got) + Len(page)
      /\ \A j \in 1..(Len(got) + Len(page)) :
            (got \o page)[j] = IF j <= Len(got) THEN got[j] ELSE page[j - Len(got)]
  BY ConcatProperties
<1>2. PICK both \in Seq(Entry) : both = got \o page
  BY <1>1
<1>3. PICK k \in Nat, m \in Nat : k = Len(got) /\ m = Len(page) /\ m <= limit
  BY LenProperties DEF IsPage
<1>4. ASSUME NEW j \in 1..k PROVE both[j] = got[j]
  <2>1. j \in 1..(k + m) /\ j <= k
    OBVIOUS
  <2> QED
    BY <1>1, <1>2, <1>3, <2>1
<1>5. ASSUME NEW j \in (k + 1)..(k + m)
      PROVE  /\ j - k \in 1..m /\ offset + (j - k) \in 1..Len(asked)
             /\ both[j] = asked[offset + (j - k)]
  <2>1. j \in 1..(k + m) /\ ~ (j <= k) /\ j - k \in 1..m
    OBVIOUS
  <2>2. both[j] = page[j - k]
    BY <1>1, <1>2, <1>3, <2>1
  <2> QED
    BY <1>3, <2>1, <2>2 DEF IsPage
<1>6. Len(both) = k + m
  BY <1>1, <1>2, <1>3
<1>7. ASSUME NEW j \in 1..(k + m)
      PROVE  both[j].id <= n /\ \A i \in 1..(j - 1) : both[i].id < both[j].id
  <2>1. CASE j <= k
    <3>1. j \in 1..k /\ \A i \in 1..(j - 1) : i \in 1..k
      BY <2>1
    <3> QED
      BY <1>3, <1>4, <3>1 DEF Ordered
  <2>2. CASE ~ (j <= k)
    <3>1. j \in (k + 1)..(k + m)
      BY <2>2
    <3>2. /\ offset + (j - k) \in 1..Len(asked) /\ both[j] = asked[offset + (j - k)]
          /\ offset + (j - k) > offset
      BY <1>5, <3>1
    <3>3. ASSUME NEW i \in 1..(j - 1), i <= k PROVE both[i].id < both[j].id
      <4>1. i \in 1..k
        BY <3>3
      <4> QED
        BY <1>3, <1>4, <3>2, <4>1 DEF Unread
    <3>4. ASSUME NEW i \in 1..(j - 1), ~ (i <= k) PROVE both[i].id < both[j].id
      <4>1. i \in (k + 1)..(k + m)
        BY <3>4
      <4>2. both[i] = asked[offset + (i - k)] /\ offset + (i - k) \in 1..Len(asked)
        BY <1>5, <4>1
      <4>3. offset + (i - k) \in 1..((offset + (j - k)) - 1)
        BY <3>4
      <4> QED
        BY <3>2, <4>2, <4>3 DEF Ordered
    <3> QED
      BY <3>2, <3>3, <3>4 DEF Ordered
  <2> QED
    BY <2>1, <2>2
<1>8. ASSUME NEW q \in 1..Len(asked), NEW j \in 1..(k + m), q > offset + limit
      PROVE  both[j].id < asked[q].id
  <2>0. q \in Nat /\ q > offset
    <3>1. q \in Nat
      BY LenProperties
    <3> QED
      BY <1>8, <3>1
  <2>1. CASE j <= k
    <3>1. j \in 1..k
      BY <2>1
    <3> QED
      BY <1>3, <1>4, <2>0, <3>1 DEF Unread
  <2>2. CASE ~ (j <= k)
    <3>1. j \in (k + 1)..(k + m)
      BY <2>2
    <3>2. both[j] = asked[offset + (j - k)] /\ j - k \in 1..m
      BY <1>5, <3>1
    <3>3. offset + (j - k) \in 1..(q - 1)
      <4>1. m <= limit /\ q > offset + limit /\ q \in Nat
        BY <1>3, <1>8, <2>0
      <4>2. PICK d \in Nat : d = j - k /\ d >= 1 /\ d <= m
        BY <3>2
      <4>3. offset + d \in 1..(q - 1)
        BY <4>1, <4>2
      <4> QED
        BY <4>2, <4>3
    <3> QED
      BY <3>2, <3>3 DEF Ordered
  <2> QED
    BY <2>1, <2>2
<1>9. Ordered(both, n)
  BY <1>6, <1>7 DEF Ordered
<1>10. Unread(asked, offset + limit, both)
  BY <1>6, <1>8 DEF Unread
<1> QED
  BY <1>2, <1>9, <1>10

LEMMA ReaderStep ==
    ASSUME LogTypes, ReaderInv, [Next]_vars
    PROVE  ReaderInv'
<1>0. logs \in Seq(Entry) /\ requestsTotal \in Nat
  <2>1. trail \in Seq(Entry) /\ logs = LastOf(trail, LogCap) /\ LogCap \in Nat \ {0}
    BY ApiAssumption DEF LogTypes
  <2>2. requestsTotal = Len(trail)
    BY DEF LogTypes
  <2> QED
    BY <2>1, <2>2, LastOfType, LenProperties
<1>1. /\ reader.of \in SUBSET Agents /\ reader.offset \in Nat /\ reader.got \in Seq(Entry)
      /\ reader.size \in Int /\ reader.total \in Nat
      /\ reader.dropped \in Nat /\ reader.done \in BOOLEAN
  BY DEF ReaderInv, ReaderType
<1>2. ASSUME NEW a \in Agents, NEW command \in Commands, ExecCheck(a, command), reader' = reader
      PROVE  ReaderInv'
  <2>1. PICK e \in Entry :
           /\ requestsTotal' = requestsTotal + 1 /\ e.id = requestsTotal'
           /\ logs' = Append(logs, e) \/ logs' = Tail(Append(logs, e))
    BY <1>2, LogMoves
  <2>2. PICK n \in Nat, log2 \in {logs'} : n = requestsTotal /\ e.id = n + 1
    BY <1>0, <2>1
  <2>3. ASSUME NEW of \in SUBSET Agents
        PROVE  /\ Ordered(Filtered(log2, of), n + 1)
               /\ \A got \in Seq(Entry), offset \in Nat :
                     Ordered(got, n) /\ Unread(Filtered(logs, of), offset, got)
                       => Unread(Filtered(log2, of), offset, got)
    <3>1. Ordered(Filtered(logs, of), n)
      BY <2>2 DEF ReaderInv, LogOrdered
    <3>2. log2 = Append(logs, e) \/ log2 = Tail(Append(logs, e))
      BY <2>1, <2>2
    <3> QED
      BY <1>0, <2>2, <3>1, <3>2, OrderedByCheck
  <2>4. PICK got \in Seq(Entry), offset \in Nat, of \in SUBSET Agents :
           got = reader.got /\ offset = reader.offset /\ of = reader.of
    BY <1>1
  <2>5. Ordered(got, n) /\ Unread(Filtered(logs, of), offset, got)
    BY <2>2, <2>4 DEF ReaderInv
  <2>6. Ordered(got, n + 1)
    <3>1. \A i \in 1..Len(got) : got[i].id \in Int
      <4>1. \A x \in Entry : x.id \in Int
        BY ApiAssumption DEF Entry
      <4> QED
        BY <4>1, ElementOfSeq
    <3> QED
      BY <2>5, <3>1 DEF Ordered
  <2>7. Unread(Filtered(log2, of), offset, got)
    BY <2>3, <2>5
  <2>8. LogOrdered'
    BY <2>1, <2>2, <2>3 DEF LogOrdered
  <2>9. ReaderType'
    BY <1>2 DEF ReaderInv, ReaderType
  <2>10. Ordered(reader.got, requestsTotal)'
    BY <1>2, <2>1, <2>2, <2>4, <2>6
  <2>11. Unread(Filtered(logs, reader.of), reader.offset, reader.got)'
    BY <1>2, <2>2, <2>4, <2>7
  <2> QED
    BY <2>8, <2>9, <2>10, <2>11 DEF ReaderInv
<1>3. CASE UNCHANGED <<logs, requestsTotal, reader>>
  BY <1>3 DEF ReaderInv, ReaderType, LogOrdered
<1>4. ASSUME UNCHANGED <<logs, requestsTotal, trail>>, NEW of \in Filters,
             NEW size \in PageSizes, StartReading(of, size)
      PROVE  ReaderInv'
  <2>1. reader' = [of |-> of, size |-> size, offset |-> 0, got |-> << >>, total |-> 0,
                   dropped |-> Dropped, done |-> FALSE]
    BY <1>4 DEF StartReading, NewReader
  <2>2. ReaderType'
    <3>1. Dropped \in Nat
      <4>1. /\ Len(logs) \in Nat /\ Len(trail) \in Nat /\ Len(logs) <= Len(trail)
        <5>1. trail \in Seq(Entry) /\ logs = LastOf(trail, LogCap) /\ LogCap \in Nat \ {0}
          BY ApiAssumption DEF LogTypes
        <5> QED
          BY <1>0, <5>1, LastOfAt, LenProperties
      <4> QED
        BY <4>1 DEF Dropped
    <3>2. << >> \in Seq(Entry) /\ of \in SUBSET Agents /\ size \in Int
      BY EmptySeq, ApiAssumption
    <3> QED
      BY <2>1, <3>1, <3>2 DEF ReaderType
  <2>3. LogOrdered'
    BY <1>4 DEF ReaderInv, LogOrdered
  <2>4. Len(reader'.got) = 0
    BY <2>1, EmptySeq
  <2>5. Ordered(reader.got, requestsTotal)'
    BY <2>4 DEF Ordered
  <2>6. Unread(Filtered(logs, reader.of), reader.offset, reader.got)'
    BY <2>4 DEF Unread
  <2> QED
    BY <2>2, <2>3, <2>5, <2>6 DEF ReaderInv
<1>5. ASSUME UNCHANGED <<logs, requestsTotal, trail>>, ReadPage
      PROVE  ReaderInv'
  <2>1. PICK asked \in Seq(Entry) : asked = Filtered(logs, reader.of)
    BY <1>0, FilteredType
  <2>2. PICK page \in Seq(Entry), limit \in Nat : PageGot(page, asked, limit)
    BY <1>0, <1>5, <2>1, PageRead DEF ReaderInv
  <2>3. PICK got \in Seq(Entry), offset \in Nat, n \in Nat :
           got = reader.got /\ offset = reader.offset /\ n = requestsTotal
    BY <1>0, <1>1
  <2>4. Ordered(asked, n) /\ Ordered(got, n) /\ Unread(asked, offset, got)
    BY <1>1, <2>1, <2>3 DEF ReaderInv, LogOrdered
  <2>5. /\ Ordered(got \o page, n)
        /\ Unread(asked, offset + limit, got \o page)
    BY <2>2, <2>3, <2>4, OrderedPage DEF PageGot
  <2>6. LogOrdered'
    BY <1>5 DEF ReaderInv, LogOrdered
  <2>7. ReaderType'
    <3>1. got \o page \in Seq(Entry) /\ offset + limit \in Nat /\ Len(asked) \in Nat
      BY ConcatProperties, LenProperties
    <3> QED
      BY <1>1, <2>2, <2>3, <3>1 DEF ReaderType, PageGot
  <2>8. /\ reader'.of = reader.of /\ reader'.offset = offset + limit /\ reader'.got = got \o page
    BY <2>2, <2>3 DEF PageGot
  <2>9. Ordered(reader.got, requestsTotal)'
    BY <1>5, <2>3, <2>5, <2>8
  <2>10. Unread(Filtered(logs, reader.of), reader.offset, reader.got)'
    BY <1>5, <2>1, <2>5, <2>8
  <2> QED
    BY <2>6, <2>7, <2>9, <2>10 DEF ReaderInv
<1> QED
  BY <1>2, <1>3, <1>4, <1>5, ReaderKinds

LEMMA ReaderInit == Init => ReaderInv
<1> SUFFICES ASSUME Init PROVE ReaderInv
  OBVIOUS
<1>1. logs = << >> /\ trail = << >> /\ requestsTotal = 0 /\ Len(<< >>) = 0 /\ << >> \in Seq(Entry)
  BY EmptySeq DEF Init
<1>2. reader = [of |-> {}, size |-> 0, offset |-> 0, got |-> << >>, total |-> 0, dropped |-> 0,
                done |-> FALSE]
  BY <1>1 DEF Init, NewReader, Dropped
<1>3. ReaderType
  BY <1>1, <1>2 DEF ReaderType
<1>4. \A of : Len(Filtered(logs, of)) = 0
  BY <1>1, FilteredEmpty
<1>5. LogOrdered
  BY <1>4 DEF LogOrdered, Ordered
<1>6. Len(reader.got) = 0
  BY <1>1, <1>2
<1> QED
  BY <1>3, <1>5, <1>6 DEF ReaderInv, Ordered, Unread

LEMMA ReaderAlways == Spec => []ReaderInv
<1>1. LogTypes /\ ReaderInv /\ [Next]_vars => ReaderInv'
  BY ReaderStep
<1> QED
  BY <1>1, ReaderInit, LogTypesAlways, PTL DEF Spec

\* handlers.go, ListLogsHandler and addLog: a client that pages through the log
\* while agents go on filling it, and while it drops its oldest entries, may miss
\* entries; it is never given one twice and never out of order, whatever the
\* page size, the length of the log and the agents it asks for.
THEOREM PagesNeverRepeat == Spec => []NothingReadTwice
<1>1. ReaderInv => NothingReadTwice
  <2> SUFFICES ASSUME ReaderInv PROVE NothingReadTwice
    OBVIOUS
  <2>1. reader.got \in Seq(Entry)
    BY DEF ReaderInv, ReaderType
  <2>2. DOMAIN reader.got = 1..Len(reader.got) /\ Len(reader.got) \in Nat
    BY <2>1, LenProperties
  <2>3. ASSUME NEW i \in DOMAIN reader.got, NEW j \in DOMAIN reader.got, i < j
        PROVE  reader.got[i].id < reader.got[j].id
    <3>1. j \in 1..Len(reader.got) /\ i \in 1..(j - 1)
      BY <2>2, <2>3
    <3> QED
      BY <3>1 DEF ReaderInv, Ordered
  <2> QED
    BY <2>3 DEF NothingReadTwice
<1> QED
  BY <1>1, ReaderAlways, PTL

\* The first entries of seq, entry by entry.
Begins(got, seq) ==
    Len(got) <= Len(seq) /\ \A i \in 1..Len(got) : got[i] = seq[i]

AddUpInv ==
    /\ reader.dropped <= Dropped
    /\ Dropped = reader.dropped =>
          /\ Begins(reader.got, Filtered(logs, reader.of))
          /\ Len(reader.got) = IF reader.done THEN reader.total ELSE reader.offset

LEMMA LogTypesGive ==
    ASSUME LogTypes
    PROVE  logs \in Seq(Entry) /\ Dropped \in Nat
<1>1. trail \in Seq(Entry) /\ logs = LastOf(trail, LogCap) /\ LogCap \in Nat \ {0}
  BY ApiAssumption DEF LogTypes
<1>2. logs \in Seq(Entry) /\ Len(logs) \in Nat /\ Len(trail) \in Nat /\ Len(logs) <= Len(trail)
  BY <1>1, LastOfType, LastOfAt, LenProperties
<1> QED
  BY <1>2 DEF Dropped

LEMMA BeginsAppend ==
    ASSUME NEW seq \in Seq(Entry), NEW got \in Seq(Entry), NEW e \in Entry, Begins(got, seq)
    PROVE  Begins(got, Append(seq, e))
<1>1. /\ Len(Append(seq, e)) = Len(seq) + 1
      /\ \A i \in 1..Len(seq) : Append(seq, e)[i] = seq[i]
  BY AppendProperties
<1>2. Len(seq) \in Nat /\ Len(got) \in Nat
  BY LenProperties
<1>3. PICK long : long = Append(seq, e)
  OBVIOUS
<1>4. Len(got) <= Len(long)
  BY <1>1, <1>2, <1>3 DEF Begins
<1>5. ASSUME NEW i \in 1..Len(got) PROVE got[i] = long[i]
  <2>1. i \in 1..Len(seq)
    BY <1>2 DEF Begins
  <2> QED
    BY <1>1, <1>3, <2>1 DEF Begins
<1> QED
  BY <1>3, <1>4, <1>5 DEF Begins

\* both is the beginning of asked, as far as the page after got says.
AddedUp(both, asked, got, page, limit) ==
    /\ Begins(both, asked)
    /\ Len(both) = IF Len(page) < limit THEN Len(asked) ELSE Len(got) + limit

\* The page that follows what the reader has makes it a longer beginning.
LEMMA BeginsPage ==
    ASSUME NEW asked \in Seq(Entry), NEW got \in Seq(Entry), NEW page \in Seq(Entry),
           NEW limit \in Nat,
           Begins(got, asked), IsPage(page, asked, Len(got), limit)
    PROVE  AddedUp(got \o page, asked, got, page, limit)
<1>1. /\ got \o page \in Seq(Entry) /\ Len(got \o page) = Len(got) + Len(page)
      /\ \A j \in 1..(Len(got) + Len(page)) :
            (got \o page)[j] = IF j <= Len(got) THEN got[j] ELSE page[j - Len(got)]
  BY ConcatProperties
<1>2. PICK both \in Seq(Entry) : both = got \o page
  BY <1>1
<1>3. PICK k \in Nat, m \in Nat, t \in Nat : k = Len(got) /\ m = Len(page) /\ t = Len(asked)
  BY LenProperties
<1>4. m <= limit /\ k <= t /\ k + m <= t /\ (m < limit => k + m = t)
  <2>1. k + m = Least(k + limit, t) /\ m <= limit /\ k <= t
    BY <1>3 DEF Begins, IsPage
  <2> QED
    BY <2>1 DEF Least
<1>5. ASSUME NEW j \in 1..(k + m) PROVE both[j] = asked[j]
  <2>1. CASE j <= k
    <3>1. both[j] = got[j] /\ j \in 1..k
      BY <1>1, <1>2, <1>3, <2>1
    <3> QED
      BY <1>3, <3>1 DEF Begins
  <2>2. CASE ~ (j <= k)
    <3>1. j - k \in 1..m /\ k + (j - k) = j
      BY <2>2
    <3>2. both[j] = page[j - k]
      BY <1>1, <1>2, <1>3, <2>2
    <3> QED
      BY <1>3, <3>1, <3>2 DEF IsPage
  <2> QED
    BY <2>1, <2>2
<1>6. Len(both) = k + m
  BY <1>1, <1>2, <1>3
<1>7. Begins(both, asked)
  BY <1>3, <1>4, <1>5, <1>6 DEF Begins
<1>8. k + m = IF m < limit THEN t ELSE k + limit
  BY <1>4
<1> QED
  BY <1>2, <1>3, <1>6, <1>7, <1>8 DEF AddedUp

LEMMA AddUpStep ==
    ASSUME LogTypes, ReaderInv, AddUpInv, [Next]_vars
    PROVE  AddUpInv'
<1>0. logs \in Seq(Entry) /\ Dropped \in Nat
  BY LogTypesGive
<1>1. /\ reader.of \in SUBSET Agents /\ reader.offset \in Nat /\ reader.got \in Seq(Entry)
      /\ reader.size \in Int /\ reader.total \in Nat
      /\ reader.dropped \in Nat /\ reader.done \in BOOLEAN
  BY DEF ReaderInv, ReaderType
<1>2. ASSUME NEW a \in Agents, NEW command \in Commands, ExecCheck(a, command), reader' = reader
      PROVE  AddUpInv'
  <2>1. PICK e \in Entry :
           \/ logs' = Append(logs, e) /\ Dropped' = Dropped
           \/ Dropped' = Dropped + 1
    BY <1>2, LogMoves
  <2>2. CASE Dropped' = Dropped + 1
    <3>1. reader.dropped <= Dropped' /\ reader.dropped # Dropped'
      BY <1>0, <1>1, <2>2 DEF AddUpInv
    <3> QED
      BY <1>2, <3>1 DEF AddUpInv
  <2>3. CASE logs' = Append(logs, e) /\ Dropped' = Dropped
    <3>0. Filtered(logs, reader.of) \in Seq(Entry)
      BY <1>0, FilteredType
    <3>1. PICK asked \in Seq(Entry), got \in Seq(Entry), of \in {reader.of},
             new \in {Filtered(logs', reader.of)} :
             got = reader.got /\ asked = Filtered(logs, of) /\ new = Filtered(logs', of)
      BY <1>1, <3>0
    <3>2. new = Append(asked, e) \/ new = asked
      BY <1>0, <2>3, <3>1, FilteredAppend
    <3>3. Begins(got, asked) => Begins(got, new)
      BY <3>2, BeginsAppend
    <3>4. Filtered(logs, reader.of)' = new /\ reader'.got = got
      BY <1>2, <3>1
    <3> QED
      BY <1>2, <2>3, <3>1, <3>3, <3>4 DEF AddUpInv
  <2> QED
    BY <2>1, <2>2, <2>3
<1>3. CASE UNCHANGED <<logs, requestsTotal, trail, reader>>
  BY <1>3 DEF AddUpInv, Dropped
<1>4. ASSUME UNCHANGED <<logs, requestsTotal, trail>>, NEW of \in Filters,
             NEW size \in PageSizes, StartReading(of, size)
      PROVE  AddUpInv'
  <2>1. reader' = [of |-> of, size |-> size, offset |-> 0, got |-> << >>, total |-> 0,
                   dropped |-> Dropped, done |-> FALSE]
    BY <1>4 DEF StartReading, NewReader
  <2>2. Dropped' = Dropped
    BY <1>4 DEF Dropped
  <2>3. /\ Len(reader'.got) = 0 /\ reader'.offset = 0 /\ reader'.dropped = Dropped
        /\ reader'.done = FALSE
    BY <2>1, EmptySeq
  <2>4. PICK asked \in Seq(Entry) : asked = Filtered(logs, reader.of)'
    BY <1>0, <1>4, FilteredType
  <2>5. Begins(reader'.got, asked)
    BY <2>3, <2>4, LenProperties DEF Begins
  <2> QED
    BY <1>0, <2>2, <2>3, <2>4, <2>5 DEF AddUpInv
<1>5. ASSUME UNCHANGED <<logs, requestsTotal, trail>>, ReadPage
      PROVE  AddUpInv'
  <2>1. PICK asked \in Seq(Entry) : asked = Filtered(logs, reader.of)
    BY <1>0, FilteredType
  <2>2. PICK page \in Seq(Entry), limit \in Nat : PageGot(page, asked, limit) /\ ~ reader.done
    BY <1>0, <1>5, <2>1, PageRead DEF ReaderInv
  <2>3. PICK got \in Seq(Entry), offset \in Nat : got = reader.got /\ offset = reader.offset
    BY <1>1
  <2>4. Dropped' = Dropped /\ reader'.dropped = reader.dropped
    BY <1>5, <2>2 DEF Dropped, PageGot
  <2>5. ASSUME Dropped = reader.dropped
        PROVE  /\ Begins(got \o page, asked)
               /\ Len(got \o page) = IF Len(page) < limit THEN Len(asked) ELSE offset + limit
    <3>1. Begins(got, asked) /\ Len(got) = offset
      BY <2>1, <2>2, <2>3, <2>5 DEF AddUpInv
    <3>2. IsPage(page, asked, Len(got), limit)
      BY <2>2, <2>3, <3>1 DEF PageGot
    <3>3. AddedUp(got \o page, asked, got, page, limit)
      BY <3>2, <3>1, BeginsPage
    <3> QED
      BY <3>1, <3>3 DEF AddedUp
  <2>6. Filtered(logs, reader.of)' = asked /\ reader'.got = got \o page
    BY <1>5, <2>1, <2>2, <2>3 DEF PageGot
  <2>7. /\ reader'.offset = offset + limit /\ reader'.done = (Len(page) < limit)
        /\ reader'.total = Len(asked)
    BY <2>2, <2>3 DEF PageGot
  <2> QED
    BY <2>4, <2>5, <2>6, <2>7 DEF AddUpInv
<1> QED
  BY <1>2, <1>3, <1>4, <1>5, ReaderKinds

LEMMA AddUpInit == Init => AddUpInv
<1> SUFFICES ASSUME Init PROVE AddUpInv
  OBVIOUS
<1>1. logs = << >> /\ trail = << >> /\ Len(<< >>) = 0
  BY EmptySeq DEF Init
<1>2. Dropped = 0
  BY <1>1 DEF Dropped
<1>3. reader = [of |-> {}, size |-> 0, offset |-> 0, got |-> << >>, total |-> 0, dropped |-> 0,
                done |-> FALSE]
  BY <1>2 DEF Init, NewReader
<1>4. Filtered(logs, reader.of) = << >>
  BY <1>1, FilteredEmpty
<1> QED
  BY <1>1, <1>2, <1>3, <1>4 DEF AddUpInv, Begins

\* handlers.go, ListLogsHandler: as long as the log drops nothing, the pages a
\* client has are the beginning of what it asked for, as far as its offset says,
\* and all of it once a page was not full, whatever limit it asks for and although
\* agents go on writing to the log between its pages.
THEOREM PagesAlwaysAddUp == Spec => []PagesAddUp
<1>1. LogTypes /\ ReaderInv /\ AddUpInv /\ [Next]_vars => AddUpInv'
  BY AddUpStep
<1>2. LogTypes /\ ReaderInv /\ AddUpInv => PagesAddUp
  <2> SUFFICES ASSUME LogTypes, ReaderInv, AddUpInv, Dropped = reader.dropped
               PROVE  LET asked == Filtered(logs, reader.of) IN
                         /\ Len(reader.got) <= Len(asked)
                         /\ reader.got = SubSeq(asked, 1, Len(reader.got))
                         /\ Len(reader.got) = IF reader.done THEN reader.total ELSE reader.offset
    BY DEF PagesAddUp
  <2>1. PICK asked \in Seq(Entry), got \in Seq(Entry) :
           asked = Filtered(logs, reader.of) /\ got = reader.got
    BY LogTypesGive, FilteredType DEF ReaderInv, ReaderType
  <2>2. Begins(got, asked) /\ Len(got) = IF reader.done THEN reader.total ELSE reader.offset
    BY <2>1 DEF AddUpInv
  <2>3. PICK k \in Nat : k = Len(got) /\ k <= Len(asked) /\ Len(asked) \in Nat
    BY <2>2, LenProperties DEF Begins
  <2>4. \A i \in 1..k : asked[i] \in Entry
    <3>1. \A i \in 1..k : i \in 1..Len(asked)
      BY <2>3
    <3> QED
      BY <3>1, ElementOfSeq
  <2>5. /\ SubSeq(asked, 1, k) \in Seq(Entry)
        /\ Len(SubSeq(asked, 1, k)) = IF 1 <= k THEN k - 1 + 1 ELSE 0
        /\ \A i \in 1..(k - 1 + 1) : SubSeq(asked, 1, k)[i] = asked[1 + i - 1]
    <3>1. 1 \in Int /\ k \in Int
      OBVIOUS
    <3> QED
      BY <2>4, <3>1, SubSeqProperties
  <2>6. PICK cut \in Seq(Entry) :
           cut = SubSeq(asked, 1, k) /\ Len(cut) = k /\ \A i \in 1..k : cut[i] = asked[i]
    <3>1. Len(SubSeq(asked, 1, k)) = k
      BY <2>5
    <3>2. \A i \in 1..k : i \in 1..(k - 1 + 1) /\ 1 + i - 1 = i
      OBVIOUS
    <3> QED
      BY <2>5, <3>1, <3>2
  <2>7. cut = got
    <3>1. Len(cut) = Len(got) /\ \A i \in 1..Len(cut) : cut[i] = got[i]
      BY <2>2, <2>3, <2>6 DEF Begins
    <3> QED
      BY <3>1, SeqEqual
  <2> QED
    BY <2>1, <2>2, <2>3, <2>6, <2>7
<1> QED
  BY <1>1, <1>2, AddUpInit, ReaderAlways, LogTypesAlways, PTL DEF Spec

-----------------------------------------------------------------------------
(* The types.                                                              *)

\* What the other invariants say nothing about.
RestTypes ==
    /\ status \in [Agents -> Statuses]
    /\ \A i \in DOMAIN rules : rules[i] \in RuleBody
    /\ blockedTotal \in 0..requestsTotal
    /\ stoppedAt \in [Agents -> 0..requestsTotal]
    /\ killed \subseteq Agents

LEMMA RestStep == ASSUME LogTypes, RestTypes, [Next]_vars PROVE RestTypes'
<1> USE DEF storeVars, historyVars
<1>0. requestsTotal \in Nat /\ requestsTotal = Len(trail)
  BY LenProperties DEF LogTypes
<1>1. CASE UNCHANGED vars
  BY <1>1 DEF vars, RestTypes
<1>2. ASSUME NEW a \in Agents, RegisterAgent(a) \/ Resume(a) PROVE RestTypes'
  BY <1>2 DEF RegisterAgent, Resume, RestTypes, Statuses
<1>3. ASSUME NEW a \in Agents, Pause(a) \/ Kill(a) PROVE RestTypes'
  <2>1. PICK how \in {"paused", "killed"} :
           /\ status' = [status EXCEPT ![a] = how]
           /\ stoppedAt' = stoppedAt \/ stoppedAt' = [stoppedAt EXCEPT ![a] = Len(trail)]
           /\ UNCHANGED <<rules, blockedTotal, requestsTotal>>
    BY <1>3 DEF Pause, Kill, Stop
  <2>2. status' \in [Agents -> Statuses]
    BY <2>1 DEF RestTypes, Statuses
  <2>3. stoppedAt' \in [Agents -> 0..requestsTotal]
    <3>1. Len(trail) \in 0..requestsTotal
      BY <1>0
    <3> QED
      BY <2>1, <3>1 DEF RestTypes
  <2>4. killed' \subseteq Agents
    BY <1>3 DEF Pause, Kill, RestTypes
  <2> QED
    BY <2>1, <2>2, <2>3, <2>4 DEF RestTypes
<1>4. ASSUME NEW body \in RuleBodies, CreateRule(body) PROVE RestTypes'
  <2>1. \A i \in DOMAIN rules' : rules'[i] \in RuleBody
    BY <1>4, ApiAssumption DEF CreateRule, RestTypes
  <2> QED
    BY <1>4, <2>1 DEF CreateRule, RestTypes
<1>5. ASSUME NEW i \in RuleId, DeleteRule(i) PROVE RestTypes'
  <2>1. \A j \in DOMAIN rules' : rules'[j] \in RuleBody
    BY <1>5 DEF DeleteRule, RestTypes
  <2> QED
    BY <1>5, <2>1 DEF DeleteRule, RestTypes
<1>6. ASSUME ReadPage \/ \E of \in Filters, size \in PageSizes : StartReading(of, size)
      PROVE  RestTypes'
  BY <1>6 DEF ReadPage, StartReading, RestTypes
<1>7. ASSUME NEW a \in Agents, NEW command \in Commands, ExecCheck(a, command)
      PROVE  RestTypes'
  <2>1. /\ UNCHANGED <<status, rules, stoppedAt, killed>>
        /\ requestsTotal' = requestsTotal + 1
        /\ blockedTotal' = blockedTotal \/ blockedTotal' = blockedTotal + 1
    BY <1>7 DEF ExecCheck, Blocked
  <2>2. blockedTotal' \in 0..requestsTotal'
    BY <1>0, <2>1 DEF RestTypes
  <2>3. stoppedAt' \in [Agents -> 0..requestsTotal']
    <3>1. 0..requestsTotal \subseteq 0..requestsTotal'
      BY <1>0, <2>1
    <3> QED
      BY <2>1, <3>1 DEF RestTypes
  <2> QED
    BY <2>1, <2>2, <2>3 DEF RestTypes
<1> QED
  BY <1>1, <1>2, <1>3, <1>4, <1>5, <1>6, <1>7 DEF Next

\* Every call leaves the store well formed: the log within its limit, the
\* counters no larger than what was asked.
THEOREM TypeCorrect == Spec => []TypeOK
<1>1. Init => RestTypes
  BY DEF Init, RestTypes, Statuses
<1>2. LogTypes /\ RestTypes /\ [Next]_vars => RestTypes'
  BY RestStep
<1>3. LogTypes /\ RestTypes /\ ReaderInv => TypeOK
  <2> SUFFICES ASSUME LogTypes, RestTypes, ReaderInv PROVE TypeOK
    OBVIOUS
  <2>1. logs \in Seq(Entry) /\ Len(logs) <= LogCap
    <3>1. trail \in Seq(Entry) /\ logs = LastOf(trail, LogCap) /\ LogCap \in Nat \ {0}
      BY ApiAssumption DEF LogTypes
    <3> QED
      BY <3>1, LastOfType
  <2>2. requestsTotal \in 0..MaxRequests /\ 0..requestsTotal \subseteq 0..MaxRequests
    BY ApiAssumption DEF LogTypes
  <2>3. blockedTotal \in 0..MaxRequests /\ stoppedAt \in [Agents -> 0..MaxRequests]
    BY <2>2 DEF RestTypes
  <2> QED
    BY <2>1, <2>2, <2>3 DEF TypeOK, LogTypes, RestTypes, ReaderInv, ReaderType
<1> QED
  BY <1>1, <1>2, <1>3, ReaderAlways, LogTypesAlways, PTL DEF Spec

=============================================================================
