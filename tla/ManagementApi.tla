--------------------------- MODULE ManagementApi ---------------------------
(***************************************************************************)
(* internal/api/handlers.go: the agents, rules, counters and request log   *)
(* of the management API.  Every handler holds the store's mutex from its  *)
(* first look at the store to its answer, so every handler is one action;  *)
(* what can go wrong shows over several calls, and to a client that reads  *)
(* the log page by page while agents go on writing it.                     *)
(*                                                                         *)
(* The clock that makes the IDs of rules and log entries never repeats     *)
(* itself here, so an ID is the number of the entry.                       *)
(***************************************************************************)
EXTENDS Integers, Sequences, FiniteSets

CONSTANTS
    Agents,        \* agent IDs, registered or not
    Commands,      \* the commands agents ask about
    RuleBodies,    \* the rules operators create
    NoRule,        \* the rule ID of an entry that no rule caused
    AgentStatus,   \* ... and of one that the agent's status caused
    LogCap,        \* the 10000 entries that addLog keeps
    DefaultLimit,  \* the 100 entries of a page of GET /logs, if no limit is
    MaxLimit,      \* passed, or one that is not in 1..1000
    PageSizes,     \* the limits the reader passes
    Filters,       \* the agent_id it passes, each as the agents it asks for
    MaxRequests,   \* bound: calls of POST /exec/check
    MaxRules       \* bound: calls of POST /rules

RuleBody == [matches : SUBSET Commands, action : {"block", "allow"}, enabled : BOOLEAN]
RuleId == 1..MaxRules

ASSUME ApiAssumption ==
    /\ RuleBodies \subseteq RuleBody
    /\ MaxRequests \in Nat
    /\ MaxRules \in Nat
    /\ NoRule \notin RuleId /\ AgentStatus \notin RuleId
    /\ LogCap \in Nat \ {0}
    /\ MaxLimit \in Nat /\ DefaultLimit \in 1..MaxLimit
    /\ PageSizes \subseteq Int
    /\ Filters \subseteq SUBSET Agents

VARIABLES
    status,          \* Agent.Status, or "unknown": not in the store
    rules,           \* Store.rules
    logs,            \* Store.logs
    requestsTotal,   \* Store.requestsTotal
    blockedTotal,    \* Store.blockedTotal
    reader,          \* a client of GET /logs
    rulesMade,       \* history: rules created so far
    trail,           \* history: every entry ever logged
    stoppedAt,       \* history: per agent, the entries there were when its
                     \* latest uninterrupted stop began
    killed           \* history: the agents that were killed since they were registered

storeVars == <<status, rules, logs, requestsTotal, blockedTotal>>
historyVars == <<rulesMade, trail, stoppedAt, killed>>
vars == <<status, rules, logs, requestsTotal, blockedTotal, reader, rulesMade,
          trail, stoppedAt, killed>>

Statuses == {"unknown", "active", "paused", "killed"}
Entry == [id : 1..MaxRequests, agent : Agents, action : {"blocked", "allowed"},
          rule : RuleId \cup {NoRule, AgentStatus}]

TypeOK ==
    /\ status \in [Agents -> Statuses]
    /\ DOMAIN rules \subseteq RuleId /\ \A i \in DOMAIN rules : rules[i] \in RuleBody
    /\ logs \in Seq(Entry) /\ Len(logs) <= LogCap
    /\ requestsTotal \in 0..MaxRequests
    /\ blockedTotal \in 0..MaxRequests
    /\ reader \in [of : SUBSET Agents, size : Int, offset : Nat, got : Seq(Entry),
                   total : Nat, dropped : Nat, done : BOOLEAN]
    /\ rulesMade \in 0..MaxRules
    /\ trail \in Seq(Entry)
    /\ stoppedAt \in [Agents -> 0..MaxRequests]
    /\ killed \subseteq Agents

Dropped == Len(trail) - Len(logs)

NewReader(of, size) == [of |-> of, size |-> size, offset |-> 0, got |-> <<>>, total |-> 0,
                        dropped |-> Dropped, done |-> FALSE]

Init ==
    /\ status = [a \in Agents |-> "unknown"]
    /\ rules = [i \in {} |-> {}]
    /\ logs = <<>>
    /\ requestsTotal = 0
    /\ blockedTotal = 0
    /\ rulesMade = 0
    /\ trail = <<>>
    /\ stoppedAt = [a \in Agents |-> 0]
    /\ killed = {}
    /\ reader = NewReader({}, 0)

-----------------------------------------------------------------------------
(* Agents.  A call for an agent that is not in the store is a 404.         *)

Known(a) == status[a] # "unknown"
Stopped(a) == status[a] \in {"paused", "killed"}

\* RegisterAgent puts a new, active agent in the place of one it finds.
RegisterAgent(a) ==
    /\ status' = [status EXCEPT ![a] = "active"]
    /\ killed' = killed \ {a}
    /\ UNCHANGED <<rules, logs, requestsTotal, blockedTotal, reader, rulesMade, trail, stoppedAt>>

Stop(a, how) ==
    /\ Known(a)
    /\ status' = [status EXCEPT ![a] = how]
    /\ stoppedAt' = IF Stopped(a) THEN stoppedAt ELSE [stoppedAt EXCEPT ![a] = Len(trail)]
    /\ UNCHANGED <<rules, logs, requestsTotal, blockedTotal, reader, rulesMade, trail>>

\* PauseAgentHandler does not look at the status.
Pause(a) == Stop(a, "paused") /\ UNCHANGED killed

\* KillAgentHandler.
Kill(a) == Stop(a, "killed") /\ killed' = killed \cup {a}

\* ResumeAgentHandler: a killed agent is a 409.
Resume(a) ==
    /\ Known(a)
    /\ status[a] # "killed"
    /\ status' = [status EXCEPT ![a] = "active"]
    /\ UNCHANGED <<rules, logs, requestsTotal, blockedTotal, reader>>
    /\ UNCHANGED historyVars

-----------------------------------------------------------------------------
(* Rules.                                                                  *)

\* CreateRuleHandler, once the body has passed its checks.
CreateRule(body) ==
    /\ rulesMade < MaxRules
    /\ rulesMade' = rulesMade + 1
    /\ rules' = [i \in DOMAIN rules \cup {rulesMade'} |->
                    IF i = rulesMade' THEN body ELSE rules[i]]
    /\ UNCHANGED <<status, logs, requestsTotal, blockedTotal, reader, trail, stoppedAt, killed>>

DeleteRule(i) ==
    /\ i \in DOMAIN rules
    /\ rules' = [j \in DOMAIN rules \ {i} |-> rules[j]]
    /\ UNCHANGED <<status, logs, requestsTotal, blockedTotal, reader>>
    /\ UNCHANGED historyVars

-----------------------------------------------------------------------------
(* Exec checks and their log.                                              *)

\* The trimming of addLog.
LastOf(seq, n) == IF Len(seq) <= n THEN seq ELSE SubSeq(seq, Len(seq) - n + 1, Len(seq))

\* The rules that stop a command: the walk over the map meets them in no
\* fixed order, and rules that allow do not matter to it.
Stopping(command) ==
    {i \in DOMAIN rules : /\ rules[i].enabled
                          /\ command \in rules[i].matches
                          /\ rules[i].action = "block"}

\* addLog.
AddLog(a, action, rule) ==
    LET entry == [id |-> requestsTotal', agent |-> a, action |-> action, rule |-> rule] IN
        /\ logs' = LastOf(Append(logs, entry), LogCap)
        /\ trail' = Append(trail, entry)

\* Mutant: the counter is forgotten.
BlockedUncounted(a, rule) == AddLog(a, "blocked", rule) /\ UNCHANGED blockedTotal

Blocked(a, rule) == blockedTotal' = blockedTotal + 1 /\ AddLog(a, "blocked", rule)

\* The agent's status refuses it; one the store does not know is not refused.
RefusedIfPaused(a) == status[a] = "paused"    \* mutant: killed is forgotten
Refused(a) == status[a] = "paused" \/ status[a] = "killed"

\* ExecCheckHandler.
ExecCheck(a, command) ==
    /\ requestsTotal < MaxRequests
    /\ requestsTotal' = requestsTotal + 1
    /\ \/ Refused(a) /\ Blocked(a, AgentStatus)
       \/ ~ Refused(a) /\ \E i \in Stopping(command) : Blocked(a, i)
       \/ /\ ~ Refused(a) /\ Stopping(command) = {}
          /\ AddLog(a, "allowed", NoRule)
          /\ UNCHANGED blockedTotal
    /\ UNCHANGED <<status, rules, reader, rulesMade, stoppedAt, killed>>

-----------------------------------------------------------------------------
(* A client that reads the log through, one page after the other.          *)

\* ListLogsHandler: the entries of the agents asked for (of all, if none is
\* named), from offset to offset + limit, cut to what there is.
Asked(e, of) == of = {} \/ e.agent \in of

\* filtered, after the first n entries of the log.
Filtered(seq, of) ==
    LET kept[n \in 0..Len(seq)] ==
          IF n = 0 THEN << >>
          ELSE IF Asked(seq[n], of) THEN Append(kept[n - 1], seq[n]) ELSE kept[n - 1]
    IN  kept[Len(seq)]

Least(m, n) == IF m <= n THEN m ELSE n

\* The limit of a page: one that is out of its bounds is passed over.
Limit(asked) == IF asked \in 1..MaxLimit THEN asked ELSE DefaultLimit

\* Mutants: a page one entry too long, and one whose answer names the limit that
\* was asked for.
ListTooLong(of, offset, asked) ==
    LET filtered == Filtered(logs, of)
        total == Len(filtered)
        start == Least(offset, total)
        limit == Limit(asked)
    IN  [logs |-> SubSeq(filtered, start + 1, Least(start + limit + 1, total)),
         total |-> total, limit |-> limit]
ListLimitAsAsked(of, offset, asked) ==
    LET filtered == Filtered(logs, of)
        total == Len(filtered)
        start == Least(offset, total)
    IN  [logs |-> SubSeq(filtered, start + 1, Least(start + Limit(asked), total)),
         total |-> total, limit |-> asked]

\* LogListResponse, without the offset that it repeats.
ListLogs(of, offset, asked) ==
    LET filtered == Filtered(logs, of)
        total == Len(filtered)
        start == Least(offset, total)
        limit == Limit(asked)
    IN  [logs |-> SubSeq(filtered, start + 1, Least(start + limit, total)),
         total |-> total, limit |-> limit]

StartReading(of, size) ==
    /\ reader.done \/ reader.offset = 0
    /\ reader' = NewReader(of, size)
    /\ UNCHANGED storeVars /\ UNCHANGED historyVars

\* The client goes by the limit that the answer names: it is the step to the
\* next page, and a page that is shorter is the last one.
ReadPage ==
    /\ ~ reader.done
    /\ LET answer == ListLogs(reader.of, reader.offset, reader.size) IN
          reader' = [reader EXCEPT !.offset = @ + answer.limit,
                                   !.got = @ \o answer.logs,
                                   !.total = answer.total,
                                   !.done = Len(answer.logs) < answer.limit]
    /\ UNCHANGED storeVars /\ UNCHANGED historyVars

Next ==
    \/ \E a \in Agents :
          \/ RegisterAgent(a) \/ Pause(a) \/ Kill(a) \/ Resume(a)
          \/ \E command \in Commands : ExecCheck(a, command)
    \/ \E body \in RuleBodies : CreateRule(body)
    \/ \E i \in RuleId : DeleteRule(i)
    \/ (\E of \in Filters, size \in PageSizes : StartReading(of, size)) \/ ReadPage

Spec == Init /\ [][Next]_vars

-----------------------------------------------------------------------------
(* Properties.                                                             *)

\* The counters of GET /status are those of everything that was ever logged,
\* although the log keeps only its latest entries, in their order.
CountersMatchLog ==
    /\ requestsTotal = Len(trail)
    /\ blockedTotal = Cardinality({i \in DOMAIN trail : trail[i].action = "blocked"})
    /\ logs = LastOf(trail, LogCap)

\* From the moment an agent is paused or killed, and through any pauses and
\* kills after that, it is allowed nothing until it is resumed or registered anew.
StoppedMeansStopped ==
    \A a \in Agents : Stopped(a) =>
        \A i \in (stoppedAt[a] + 1)..Len(trail) :
            trail[i].agent = a => trail[i].action = "blocked"

\* The reader never gets an entry twice, and gets them in the order of the
\* log, however much is logged and dropped between its pages.
NothingReadTwice ==
    \A i, j \in DOMAIN reader.got : i < j => reader.got[i].id < reader.got[j].id

\* While nothing is dropped, the pages add up to the log, whatever limit is
\* asked for: what the reader has is the beginning of what it asked for, with
\* nothing left out, as far as its offset says, and once a page was not full it
\* has all that there was in the log when it got that page.
PagesAddUp ==
    Dropped = reader.dropped =>
        LET asked == Filtered(logs, reader.of) IN
            /\ Len(reader.got) <= Len(asked)
            /\ reader.got = SubSeq(asked, 1, Len(reader.got))
            /\ Len(reader.got) = IF reader.done THEN reader.total ELSE reader.offset

\* docs/internal/api.md:308: a killed agent cannot be resumed (use restore; no
\* operation of that name exists).  Pausing it first makes it resumable.
KilledIsFinal == \A a \in killed : status[a] # "active"

=============================================================================
