---------------------------- MODULE ForwardProxy ----------------------------
(***************************************************************************)
(* The forward proxy: internal/proxy/handler.go and inspector.go, with the *)
(* mode manager (internal/mode) and the rule engine (internal/rules) they  *)
(* consult, the management endpoints of cmd/proxy that change the modes    *)
(* while requests are in flight, and the reloading of the rule file.       *)
(*                                                                         *)
(* CheckRequest takes two locks in turn: the engine's for the rules and    *)
(* the manager's for the verdict.  Each is a step of its own here, since   *)
(* the modes and the rules may change in between.  (A third look, at the   *)
(* mode, is for a line of the process's own log only.)                     *)
(***************************************************************************)
EXTENDS FilterRules

CONSTANTS
    Requests,     \* the requests served concurrently
    Sources,      \* their source addresses
    Registry,     \* the tier registered for a source; Unregistered if none
    Unregistered,
    Agents,       \* the agent tokens requests carry and modes are set for
    NoMode,       \* an agent without a mode of its own
    RuleFiles,    \* the contents the rule file takes in turn, or Invalid
    Invalid,      \* a content that does not parse or compile
    Startup,      \* the content main loads before it serves; 0 if none
    Embedded,     \* the contents passed to LoadRulesFromBytes
    Loaders,      \* the goroutines that load rules
    MaxChanges    \* bound: changes of the modes or of the engine's rules

Versions == 0..Len(RuleFiles)

ASSUME ProxyAssumption ==
    /\ Registry \in [Sources -> Tiers \cup {Unregistered}]
    /\ NoMode \notin Modes
    /\ Embedded \subseteq Versions
    /\ Startup \in Versions
    /\ MaxChanges \in Nat

VARIABLES
    globalMode,   \* Manager.globalMode
    agentModes,   \* Manager.agentModes
    engine,       \* Engine.compiled: the version of the rules in force
    ruleFile,     \* the version on disk
    loader,       \* per loader: "idle", or the version it has read
    pc,           \* per request: the step its handler stands at
    input,        \* per request: what it carries
    ruleMatched,  \* per request: CheckRequest's ruleMatched
    shouldBlock,  \* per request: CheckRequest's shouldBlock
    answer,       \* per request: the response
    seen,         \* history: per request, the (mode, rules) pairs in force
                  \* for its agent from its arrival to its verdict
    changes       \* history: changes so far

modeVars == <<globalMode, agentModes>>
ruleVars == <<engine, ruleFile, loader>>
requestVars == <<pc, input, ruleMatched, shouldBlock, answer>>
vars == <<globalMode, agentModes, engine, ruleFile, loader, pc, input,
          ruleMatched, shouldBlock, answer, seen, changes>>

Methods == {"HTTP", "CONNECT"}
Input == [source : Sources, token : Agents, host : Subjects, method : Methods]

\* NewEngine starts without rules; a version beyond that is a file's content.
RulesOf(v) == IF v = 0 THEN <<>> ELSE RuleFiles[v]
Valid(v) == v = 0 \/ RuleFiles[v] # Invalid

\* Manager.AgentMode: the agent's own mode if it has one.
AgentMode(a) == IF agentModes[a] # NoMode THEN agentModes[a] ELSE globalMode

TypeOK ==
    /\ globalMode \in Modes
    /\ agentModes \in [Agents -> Modes \cup {NoMode}]
    /\ engine \in Versions /\ Valid(engine)
    /\ ruleFile \in Versions \ {0}
    /\ loader \in [Loaders -> Versions]
    /\ pc \in [Requests -> {"idle", "arrived", "ruled", "decided", "done"}]
    /\ input \in [Requests -> Input]
    /\ ruleMatched \in [Requests -> BOOLEAN]
    /\ shouldBlock \in [Requests -> BOOLEAN]
    /\ answer \in [Requests -> {"none", "forbidden", "blocked", "badGateway",
                                "error", "response", "tunnel"}]
    /\ seen \in [Requests -> SUBSET (Modes \X Versions)]
    /\ changes \in 0..MaxChanges

Init ==
    /\ globalMode = "enforce"
    /\ agentModes = [a \in Agents |-> NoMode]
    /\ engine = Startup
    /\ ruleFile = 1
    /\ loader = [l \in Loaders |-> 0]
    /\ pc = [r \in Requests |-> "idle"]
    /\ input \in [Requests -> Input]
    /\ ruleMatched = [r \in Requests |-> FALSE]
    /\ shouldBlock = [r \in Requests |-> FALSE]
    /\ answer = [r \in Requests |-> "none"]
    /\ seen = [r \in Requests |-> {}]
    /\ changes = 0

-----------------------------------------------------------------------------
(* The management endpoints and the rule engine.                           *)

\* The requests still before their verdict have now seen one more pair.
Observe ==
    /\ seen' = [r \in Requests |->
                  IF pc[r] \in {"arrived", "ruled"}
                  THEN seen[r] \cup {<<AgentMode(input[r].token)', engine'>>}
                  ELSE seen[r]]
    /\ changes < MaxChanges
    /\ changes' = changes + 1

\* PUT /mode.
SetGlobalMode(m) ==
    /\ globalMode' = m
    /\ UNCHANGED agentModes
    /\ UNCHANGED ruleVars /\ UNCHANGED requestVars
    /\ Observe

\* PUT /agent/{id}/mode.
SetAgentMode(a, m) ==
    /\ agentModes' = [agentModes EXCEPT ![a] = m]
    /\ UNCHANGED globalMode
    /\ UNCHANGED ruleVars /\ UNCHANGED requestVars
    /\ Observe

\* DELETE /agent/{id}/mode.
ClearAgentMode(a) ==
    /\ agentModes' = [agentModes EXCEPT ![a] = NoMode]
    /\ UNCHANGED globalMode
    /\ UNCHANGED ruleVars /\ UNCHANGED requestVars
    /\ Observe

\* Somebody edits the rule file.
EditRuleFile ==
    /\ ruleFile < Len(RuleFiles)
    /\ ruleFile' = ruleFile + 1
    /\ UNCHANGED <<engine, loader, seen, changes>>
    /\ UNCHANGED modeVars /\ UNCHANGED requestVars

\* Mutant: a content that does not compile is loaded all the same.
ReadAnyRuleFile(l) ==
    /\ loader[l] = 0
    /\ loader' = [loader EXCEPT ![l] = ruleFile]
    /\ UNCHANGED <<engine, ruleFile, seen, changes>>
    /\ UNCHANGED modeVars /\ UNCHANGED requestVars

\* LoadRules reads and compiles the file without the engine's lock; Reload is
\* LoadRules of the path the last one succeeded with.  A content that does not
\* compile is an error here and changes nothing.
ReadRuleFile(l) ==
    /\ loader[l] = 0
    /\ Valid(ruleFile)
    /\ loader' = [loader EXCEPT ![l] = ruleFile]
    /\ UNCHANGED <<engine, ruleFile, seen, changes>>
    /\ UNCHANGED modeVars /\ UNCHANGED requestVars

\* ... and swaps the compiled rules in under the lock.
SwapRules(l) ==
    /\ loader[l] # 0
    /\ engine' = loader[l]
    /\ loader' = [loader EXCEPT ![l] = 0]
    /\ UNCHANGED ruleFile
    /\ UNCHANGED modeVars /\ UNCHANGED requestVars
    /\ Observe

\* LoadRulesFromBytes: no file is read.
LoadRulesFromBytes(v) ==
    /\ Valid(v)
    /\ engine' = v
    /\ UNCHANGED <<ruleFile, loader>>
    /\ UNCHANGED modeVars /\ UNCHANGED requestVars
    /\ Observe

-----------------------------------------------------------------------------
(* A request.                                                              *)

\* ServeHTTP: a source the registry does not know is turned away.
Arrive(r) ==
    /\ pc[r] = "idle"
    /\ IF Registry[input[r].source] = Unregistered
       THEN /\ pc' = [pc EXCEPT ![r] = "done"]
            /\ answer' = [answer EXCEPT ![r] = "forbidden"]
            /\ UNCHANGED seen
       ELSE /\ pc' = [pc EXCEPT ![r] = "arrived"]
            /\ seen' = [seen EXCEPT ![r] = {<<AgentMode(input[r].token), engine>>}]
            /\ UNCHANGED answer
    /\ UNCHANGED <<input, ruleMatched, shouldBlock, changes>>
    /\ UNCHANGED modeVars /\ UNCHANGED ruleVars

\* Does a rule version stop this request?
Matched(r, v) == ~ Allowed(RulesOf(v), input[r].host, Registry[input[r].source])

\* CheckRequest, under the engine's lock.
CheckRules(r) ==
    /\ pc[r] = "arrived"
    /\ ruleMatched' = [ruleMatched EXCEPT ![r] = Matched(r, engine)]
    /\ pc' = [pc EXCEPT ![r] = "ruled"]
    /\ UNCHANGED <<input, shouldBlock, answer, seen, changes>>
    /\ UNCHANGED modeVars /\ UNCHANGED ruleVars

\* Mutant: the agent's own mode is forgotten.
CheckGlobalMode(r) ==
    /\ pc[r] = "ruled"
    /\ shouldBlock' = [shouldBlock EXCEPT ![r] = Verdict(globalMode, ruleMatched[r])]
    /\ pc' = [pc EXCEPT ![r] = "decided"]
    /\ UNCHANGED <<input, ruleMatched, answer, seen, changes>>
    /\ UNCHANGED modeVars /\ UNCHANGED ruleVars

\* CheckRequest, under the manager's lock: ShouldBlock.
CheckMode(r) ==
    /\ pc[r] = "ruled"
    /\ shouldBlock' = [shouldBlock EXCEPT ![r] =
                          Verdict(AgentMode(input[r].token), ruleMatched[r])]
    /\ pc' = [pc EXCEPT ![r] = "decided"]
    /\ UNCHANGED <<input, ruleMatched, answer, seen, changes>>
    /\ UNCHANGED modeVars /\ UNCHANGED ruleVars

\* The rest of handleHTTP and handleConnect.
Respond(r) ==
    /\ pc[r] = "decided"
    /\ answer' \in
          {[answer EXCEPT ![r] = a] :
              a \in IF shouldBlock[r] THEN {"blocked"}
                    ELSE IF input[r].method = "HTTP"
                         THEN {"error", "badGateway", "response"}
                         ELSE {"error", "badGateway", "tunnel"}}
    /\ pc' = [pc EXCEPT ![r] = "done"]
    /\ UNCHANGED <<input, ruleMatched, shouldBlock, seen, changes>>
    /\ UNCHANGED modeVars /\ UNCHANGED ruleVars

Next ==
    \/ \E m \in Modes : SetGlobalMode(m)
    \/ \E a \in Agents : (\E m \in Modes : SetAgentMode(a, m)) \/ ClearAgentMode(a)
    \/ EditRuleFile
    \/ \E l \in Loaders : ReadRuleFile(l) \/ SwapRules(l)
    \/ \E v \in Embedded : LoadRulesFromBytes(v)
    \/ \E r \in Requests :
          Arrive(r) \/ CheckRules(r) \/ CheckMode(r) \/ Respond(r)

Spec == Init /\ [][Next]_vars

-----------------------------------------------------------------------------
(* Properties.                                                             *)

Judged(r) == pc[r] = "decided" \/ answer[r] \notin {"none", "forbidden"}

\* The action the handler logs: "audit" for what a rule matched but the mode let through.
Action(r) == IF shouldBlock[r] THEN "block" ELSE IF ruleMatched[r] THEN "audit" ELSE "allow"

\* Every verdict follows from a mode that was in force for the request's agent
\* and from rules that were in force, both at some time between its arrival
\* and its verdict.  So a lockdown or an audit that lasts that long is obeyed,
\* and an agent's own mode is obeyed before the global one.
VerdictJustified ==
    \A r \in Requests : Judged(r) =>
        \E x, y \in seen[r] : shouldBlock[r] = Verdict(x[1], Matched(r, y[2]))

\* An entry with the action "audit" stands for a request that the rules of that
\* time would have stopped and that an audit let through.
AuditEntryJustified ==
    \A r \in Requests : Judged(r) /\ Action(r) = "audit" =>
        /\ \E x \in seen[r] : x[1] = "audit"
        /\ \E x \in seen[r] : Matched(r, x[2])

\* A load that fails leaves the rules in force, and one that succeeds never
\* brings back older ones, however often the file is edited and broken between
\* its reading and the swap: with one goroutine loading, the engine goes back
\* only to a content that it is handed directly.
RulesNeverRollBack ==
    [][ /\ Valid(engine')
        /\ engine' < engine => engine' \in Embedded ]_vars

=============================================================================
