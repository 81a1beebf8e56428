------------------------- MODULE ForwardProxy_proofs -------------------------
(***************************************************************************)
(* Proofs about ForwardProxy, for every set of requests, agents and rule   *)
(* files and every schedule of changes: every verdict follows from rules   *)
(* and a mode that were in force while the request waited for it, and one  *)
(* loader never brings back older rules.                                   *)
(***************************************************************************)
EXTENDS ForwardProxy, TLAPS

\* A request that has no answer yet, although it has been let in.
Waiting(r) == pc[r] \in {"arrived", "ruled"}

\* The pair in force for a request.
Now(r) == <<AgentMode(input[r].token), engine>>

-----------------------------------------------------------------------------
(* The invariant.  A verdict is justified by what was seen, so the pair in *)
(* force must be among what was seen for as long as the request waits,     *)
(* and the result of the look at the rules must be that of one seen.       *)

Shapes ==
    /\ pc \in [Requests -> {"idle", "arrived", "ruled", "decided", "done"}]
    /\ answer \in [Requests -> {"none", "forbidden", "blocked", "badGateway",
                                "error", "response", "tunnel"}]
    /\ ruleMatched \in [Requests -> BOOLEAN]
    /\ shouldBlock \in [Requests -> BOOLEAN]
    /\ DOMAIN seen = Requests

Unanswered == \A r \in Requests : pc[r] # "done" => answer[r] = "none"

PresentIsSeen == \A r \in Requests : Waiting(r) => Now(r) \in seen[r]

MatchIsSeen == \A r \in Requests :
    pc[r] = "ruled" \/ Judged(r) => \E y \in seen[r] : ruleMatched[r] = Matched(r, y[2])

VerdictIsSeen == \A r \in Requests :
    Judged(r) => \E x \in seen[r] : shouldBlock[r] = Verdict(x[1], ruleMatched[r])

VerdictInv == Shapes /\ Unanswered /\ PresentIsSeen /\ MatchIsSeen /\ VerdictIsSeen

-----------------------------------------------------------------------------
(* The steps.                                                              *)

\* What the rules of a version say of a request does not change.
LEMMA MatchedSame ==
    ASSUME UNCHANGED input, NEW r, NEW v PROVE Matched(r, v)' = Matched(r, v)
  BY DEF Matched

\* A change of the modes or of the engine's rules, by whichever call, is seen
\* by every request that waits.
LEMMA ChangeIsSeen ==
    ASSUME VerdictInv, Observe, UNCHANGED requestVars
    PROVE  VerdictInv'
<1> USE DEF requestVars
<1>1. \A r \in Requests : seen[r] \subseteq seen'[r] /\ (Waiting(r) => Now(r)' \in seen'[r])
  BY DEF Observe, Waiting, Now
<1>2. DOMAIN seen' = Requests
  BY DEF Observe
<1>3. Shapes' /\ Unanswered'
  BY <1>2 DEF VerdictInv, Shapes, Unanswered
<1>4. PresentIsSeen'
  BY <1>1 DEF PresentIsSeen, Waiting
<1>5. MatchIsSeen'
  BY <1>1, MatchedSame DEF VerdictInv, MatchIsSeen, Judged
<1>6. VerdictIsSeen'
  BY <1>1 DEF VerdictInv, VerdictIsSeen, Judged
<1> QED
  BY <1>3, <1>4, <1>5, <1>6 DEF VerdictInv

\* A step that concerns neither a request nor what it is judged by.
LEMMA ElsewhereIsUnseen ==
    ASSUME VerdictInv, UNCHANGED <<engine, seen>>, UNCHANGED modeVars, UNCHANGED requestVars
    PROVE  VerdictInv'
<1> USE DEF requestVars, modeVars
<1>1. Shapes' /\ Unanswered'
  BY DEF VerdictInv, Shapes, Unanswered
<1>2. PresentIsSeen'
  BY DEF VerdictInv, PresentIsSeen, Waiting, Now, AgentMode
<1>3. MatchIsSeen'
  BY MatchedSame DEF VerdictInv, MatchIsSeen, Judged
<1>4. VerdictIsSeen'
  BY DEF VerdictInv, VerdictIsSeen, Judged
<1> QED
  BY <1>1, <1>2, <1>3, <1>4 DEF VerdictInv

\* A request is let in, and sees the pair in force, or is turned away.
LEMMA ArriveKeeps ==
    ASSUME VerdictInv, NEW q \in Requests, Arrive(q)
    PROVE  VerdictInv'
<1> USE DEF Arrive, modeVars, ruleVars
<1>1. /\ pc[q] = "idle" /\ answer[q] = "none"
      /\ pc'[q] \in {"arrived", "done"}
      /\ pc'[q] = "arrived" => answer'[q] = "none" /\ Now(q) \in seen'[q]
      /\ pc'[q] = "done" => answer'[q] = "forbidden"
  BY DEF VerdictInv, Shapes, Unanswered, Now
<1>2. \A r \in Requests : r # q =>
        pc'[r] = pc[r] /\ answer'[r] = answer[r] /\ seen'[r] = seen[r]
  BY DEF VerdictInv, Shapes
<1>3. Shapes'
  BY DEF VerdictInv, Shapes
<1>4. Unanswered'
  BY <1>1, <1>2 DEF VerdictInv, Unanswered
<1>5. PresentIsSeen'
  <2>1. \A r \in Requests : Now(r)' = Now(r)
    BY DEF Now, AgentMode
  <2> QED
    BY <1>1, <1>2, <2>1 DEF VerdictInv, PresentIsSeen, Waiting
<1>6. MatchIsSeen'
  BY <1>1, <1>2, MatchedSame DEF VerdictInv, MatchIsSeen, Judged
<1>7. VerdictIsSeen'
  <2>1. ~ Judged(q)'
    BY <1>1 DEF Judged
  <2>2. \A r \in Requests : r # q => (Judged(r)' <=> Judged(r))
    BY <1>2 DEF Judged
  <2> QED
    BY <1>1, <1>2, <2>1, <2>2 DEF VerdictInv, VerdictIsSeen
<1> QED
  BY <1>3, <1>4, <1>5, <1>6, <1>7 DEF VerdictInv

\* The look at the rules: those in force are among those seen.
LEMMA CheckRulesKeeps ==
    ASSUME VerdictInv, NEW q \in Requests, CheckRules(q)
    PROVE  VerdictInv'
<1> USE DEF CheckRules, modeVars, ruleVars
<1>1. /\ pc[q] = "arrived" /\ pc'[q] = "ruled" /\ answer[q] = "none"
      /\ ruleMatched'[q] = Matched(q, engine)
  BY DEF VerdictInv, Shapes, Unanswered
<1>2. \A r \in Requests : r # q => pc'[r] = pc[r] /\ ruleMatched'[r] = ruleMatched[r]
  BY DEF VerdictInv, Shapes
<1>3. Shapes'
  BY DEF VerdictInv, Shapes, Matched
<1>4. Unanswered'
  BY <1>1, <1>2 DEF VerdictInv, Unanswered
<1>5. PresentIsSeen'
  <2>1. \A r \in Requests : Now(r)' = Now(r) /\ (Waiting(r)' <=> Waiting(r))
    BY <1>1, <1>2 DEF Now, AgentMode, Waiting
  <2> QED
    BY <2>1 DEF VerdictInv, PresentIsSeen
<1>6. MatchIsSeen'
  <2>1. Now(q) \in seen[q] /\ Now(q)[2] = engine
    BY <1>1 DEF VerdictInv, PresentIsSeen, Waiting, Now
  <2> QED
    BY <1>1, <1>2, <2>1, MatchedSame DEF VerdictInv, MatchIsSeen, Judged
<1>7. VerdictIsSeen'
  <2>1. \A r \in Requests : Judged(r)' => Judged(r) /\ r # q
    BY <1>1, <1>2 DEF Judged
  <2> QED
    BY <1>2, <2>1 DEF VerdictInv, VerdictIsSeen
<1> QED
  BY <1>3, <1>4, <1>5, <1>6, <1>7 DEF VerdictInv

\* The look at the mode gives the verdict, from the mode in force and from
\* what the rules had said.
LEMMA CheckModeKeeps ==
    ASSUME VerdictInv, NEW q \in Requests, CheckMode(q)
    PROVE  VerdictInv'
<1> USE DEF CheckMode, modeVars, ruleVars
<1>1. /\ pc[q] = "ruled" /\ pc'[q] = "decided" /\ answer[q] = "none"
      /\ shouldBlock'[q] = Verdict(AgentMode(input[q].token), ruleMatched[q])
  BY DEF VerdictInv, Shapes, Unanswered
<1>2. \A r \in Requests : r # q => pc'[r] = pc[r] /\ shouldBlock'[r] = shouldBlock[r]
  BY DEF VerdictInv, Shapes
<1>3. Shapes'
  <2>1. ruleMatched[q] \in BOOLEAN
    BY DEF VerdictInv, Shapes
  <2>2. shouldBlock'[q] \in BOOLEAN
    BY <1>1, <2>1 DEF Verdict
  <2>3. shouldBlock' \in [Requests -> BOOLEAN]
    BY <2>2 DEF VerdictInv, Shapes
  <2> QED
    BY <2>3 DEF VerdictInv, Shapes
<1>4. Unanswered'
  BY <1>1, <1>2 DEF VerdictInv, Unanswered
<1>5. PresentIsSeen'
  <2>1. \A r \in Requests : Now(r)' = Now(r) /\ (Waiting(r)' => Waiting(r))
    BY <1>1, <1>2 DEF Now, AgentMode, Waiting
  <2> QED
    BY <2>1 DEF VerdictInv, PresentIsSeen
<1>6. MatchIsSeen'
  BY <1>1, <1>2, MatchedSame DEF VerdictInv, MatchIsSeen, Judged
<1>7. VerdictIsSeen'
  <2>1. Now(q) \in seen[q] /\ Now(q)[1] = AgentMode(input[q].token)
    BY <1>1 DEF VerdictInv, PresentIsSeen, Waiting, Now
  <2>2. shouldBlock'[q] = Verdict(Now(q)[1], ruleMatched[q])
    BY <1>1, <2>1
  <2>3. \A r \in Requests : r # q => (Judged(r)' <=> Judged(r))
    BY <1>2 DEF Judged
  <2> QED
    BY <1>2, <2>1, <2>2, <2>3 DEF VerdictInv, VerdictIsSeen
<1> QED
  BY <1>3, <1>4, <1>5, <1>6, <1>7 DEF VerdictInv

\* The answer follows the verdict and changes nothing about it.
LEMMA RespondKeeps ==
    ASSUME VerdictInv, NEW q \in Requests, Respond(q)
    PROVE  VerdictInv'
<1> USE DEF Respond, modeVars, ruleVars
<1>1. pc[q] = "decided" /\ pc'[q] = "done"
  BY DEF VerdictInv, Shapes
<1>2. /\ answer' \in [Requests -> {"none", "forbidden", "blocked", "badGateway",
                                   "error", "response", "tunnel"}]
      /\ \A r \in Requests : r # q => pc'[r] = pc[r] /\ answer'[r] = answer[r]
  BY DEF VerdictInv, Shapes
<1>3. Shapes'
  BY <1>2 DEF VerdictInv, Shapes
<1>4. Unanswered'
  BY <1>1, <1>2 DEF VerdictInv, Unanswered
<1>5. PresentIsSeen'
  <2>1. \A r \in Requests : Now(r)' = Now(r) /\ (Waiting(r)' => Waiting(r))
    BY <1>1, <1>2 DEF Now, AgentMode, Waiting
  <2> QED
    BY <2>1 DEF VerdictInv, PresentIsSeen
<1>6. MatchIsSeen'
  BY <1>1, <1>2, MatchedSame DEF VerdictInv, MatchIsSeen, Judged
<1>7. VerdictIsSeen'
  <2>1. \A r \in Requests : Judged(r)' => Judged(r)
    BY <1>1, <1>2 DEF Judged
  <2> QED
    BY <2>1 DEF VerdictInv, VerdictIsSeen
<1> QED
  BY <1>3, <1>4, <1>5, <1>6, <1>7 DEF VerdictInv

\* The invariant of the forward proxy.
LEMMA VerdictInvariance == Spec => []VerdictInv
<1>1. Init => VerdictInv
  BY DEF Init, VerdictInv, Shapes, Unanswered, PresentIsSeen, MatchIsSeen, VerdictIsSeen,
      Waiting, Judged
<1>2. VerdictInv /\ [Next]_vars => VerdictInv'
  <2> SUFFICES ASSUME VerdictInv, [Next]_vars PROVE VerdictInv'
    OBVIOUS
  <2>1. ASSUME NEW m \in Modes, SetGlobalMode(m) PROVE VerdictInv'
    BY <2>1, ChangeIsSeen DEF SetGlobalMode
  <2>2. ASSUME NEW a \in Agents, NEW m \in Modes, SetAgentMode(a, m) PROVE VerdictInv'
    BY <2>2, ChangeIsSeen DEF SetAgentMode
  <2>3. ASSUME NEW a \in Agents, ClearAgentMode(a) PROVE VerdictInv'
    BY <2>3, ChangeIsSeen DEF ClearAgentMode
  <2>4. CASE EditRuleFile
    BY <2>4, ElsewhereIsUnseen DEF EditRuleFile
  <2>5. ASSUME NEW l \in Loaders, ReadRuleFile(l) PROVE VerdictInv'
    BY <2>5, ElsewhereIsUnseen DEF ReadRuleFile
  <2>6. ASSUME NEW l \in Loaders, SwapRules(l) PROVE VerdictInv'
    BY <2>6, ChangeIsSeen DEF SwapRules
  <2>7. ASSUME NEW v \in Embedded, LoadRulesFromBytes(v) PROVE VerdictInv'
    BY <2>7, ChangeIsSeen DEF LoadRulesFromBytes
  <2>8. ASSUME NEW r \in Requests, Arrive(r) \/ CheckRules(r) \/ CheckMode(r) \/ Respond(r)
        PROVE  VerdictInv'
    BY <2>8, ArriveKeeps, CheckRulesKeeps, CheckModeKeeps, RespondKeeps
  <2>9. CASE UNCHANGED vars
    BY <2>9, ElsewhereIsUnseen DEF vars, modeVars, requestVars
  <2> QED
    BY <2>1, <2>2, <2>3, <2>4, <2>5, <2>6, <2>7, <2>8, <2>9 DEF Next
<1> QED
  BY <1>1, <1>2, PTL DEF Spec

\* inspector.go, CheckRequest: rules and mode are read at two instants, and
\* the verdict follows from what was in force between arrival and verdict,
\* whatever is changed or loaded meanwhile.
THEOREM VerdictsAreJustified == Spec => []VerdictJustified
<1>1. VerdictInv => VerdictJustified
  BY DEF VerdictInv, MatchIsSeen, VerdictIsSeen, VerdictJustified
<1> QED
  BY <1>1, VerdictInvariance, PTL

\* handler.go, handleHTTP: a request that is logged as audited was one the
\* rules would have stopped, and an audit was on while it waited.
THEOREM AuditsAreJustified == Spec => []AuditEntryJustified
<1>1. VerdictInv => AuditEntryJustified
  <2> SUFFICES ASSUME VerdictInv, NEW r \in Requests, Judged(r), Action(r) = "audit"
               PROVE  /\ \E x \in seen[r] : x[1] = "audit"
                      /\ \E x \in seen[r] : Matched(r, x[2])
    BY DEF AuditEntryJustified
  <2>1. ruleMatched[r] /\ ~ shouldBlock[r]
    BY DEF Action
  <2>2. PICK x \in seen[r] : shouldBlock[r] = Verdict(x[1], ruleMatched[r])
    BY DEF VerdictInv, VerdictIsSeen
  <2>3. x[1] = "audit"
    BY <2>1, <2>2 DEF Verdict
  <2>4. PICK y \in seen[r] : ruleMatched[r] = Matched(r, y[2])
    BY DEF VerdictInv, MatchIsSeen
  <2> QED
    BY <2>1, <2>3, <2>4
<1> QED
  BY <1>1, VerdictInvariance, PTL

-----------------------------------------------------------------------------
(* Reloading.  A loader reads the file and swaps the rules in later; with  *)
(* one of them nothing newer can have come in between, provided that what  *)
(* is handed to the engine directly is no newer than the file's contents.  *)

NoNewerThanFile ==
    /\ ruleFile \in Nat /\ ruleFile >= 1
    /\ engine \in Nat /\ engine <= ruleFile /\ Valid(engine)
    /\ loader \in [Loaders -> Nat]
    /\ \A l \in Loaders : loader[l] # 0 =>
          engine <= loader[l] /\ loader[l] <= ruleFile /\ Valid(loader[l])

\* A step keeps this, and takes the engine back only to what it is handed.
LEMMA LoadingStep ==
    ASSUME NEW only, Loaders = {only}, \A v \in Embedded : v <= 1,
           NoNewerThanFile, [Next]_vars
    PROVE  /\ NoNewerThanFile'
           /\ Valid(engine')
           /\ engine' < engine => engine' \in Embedded
<1>1. CASE UNCHANGED ruleVars
  BY <1>1 DEF NoNewerThanFile, ruleVars, Valid
<1>2. CASE EditRuleFile
  BY <1>2 DEF EditRuleFile, NoNewerThanFile, Valid
<1>3. ASSUME NEW l \in Loaders, ReadRuleFile(l)
      PROVE  NoNewerThanFile' /\ engine' = engine
  BY <1>3 DEF ReadRuleFile, NoNewerThanFile, Valid
<1>4. ASSUME NEW l \in Loaders, SwapRules(l)
      PROVE  NoNewerThanFile' /\ ~ (engine' < engine)
  <2>1. /\ loader[l] # 0 /\ engine' = loader[l] /\ ruleFile' = ruleFile
        /\ loader' = [loader EXCEPT ![l] = 0]
    BY <1>4 DEF SwapRules
  <2>2. \A k \in Loaders : loader'[k] = 0
    BY <2>1 DEF NoNewerThanFile
  <2> QED
    BY <2>1, <2>2 DEF NoNewerThanFile, Valid
<1>5. ASSUME NEW v \in Embedded, LoadRulesFromBytes(v)
      PROVE  NoNewerThanFile' /\ engine' = v
  <2>1. /\ engine' = v /\ Valid(v) /\ ruleFile' = ruleFile /\ loader' = loader
        /\ v \in Nat /\ v <= 1
    BY <1>5, ProxyAssumption DEF LoadRulesFromBytes, Versions
  <2> QED
    BY <2>1 DEF NoNewerThanFile, Valid
<1>6. NoNewerThanFile' => Valid(engine')
  BY DEF NoNewerThanFile, Valid
<1>7. \/ UNCHANGED ruleVars \/ EditRuleFile
      \/ \E l \in Loaders : ReadRuleFile(l) \/ SwapRules(l)
      \/ \E v \in Embedded : LoadRulesFromBytes(v)
  <2>1. CASE UNCHANGED vars
    BY <2>1 DEF vars, ruleVars
  <2>2. ASSUME \/ \E m \in Modes : SetGlobalMode(m)
               \/ \E a \in Agents : (\E m \in Modes : SetAgentMode(a, m)) \/ ClearAgentMode(a)
        PROVE  UNCHANGED ruleVars
    BY <2>2 DEF SetGlobalMode, SetAgentMode, ClearAgentMode
  <2>3. ASSUME NEW r \in Requests, Arrive(r) \/ CheckRules(r) \/ CheckMode(r) \/ Respond(r)
        PROVE  UNCHANGED ruleVars
    BY <2>3 DEF Arrive, CheckRules, CheckMode, Respond
  <2> QED
    BY <2>1, <2>2, <2>3 DEF Next
<1>8. ~ (engine < engine) /\ engine \in Nat
  BY DEF NoNewerThanFile
<1> QED
  BY <1>1, <1>2, <1>3, <1>4, <1>5, <1>6, <1>7, <1>8 DEF EditRuleFile, ruleVars

\* engine.go, LoadRules and Reload: with one goroutine loading a load that fails
\* leaves the rules in force, and one that succeeds never brings back older ones,
\* if the rules from the start and from memory are no newer than the file's first.
THEOREM OneLoaderNeverRollsBack ==
    ASSUME NEW only, Loaders = {only}, \A v \in Embedded \cup {Startup} : v <= 1,
           Valid(Startup)
    PROVE  Spec => RulesNeverRollBack
<1>1. Init => NoNewerThanFile
  BY ProxyAssumption DEF Init, NoNewerThanFile, Versions, Valid
<1>2. NoNewerThanFile /\ [Next]_vars =>
         NoNewerThanFile' /\ [ Valid(engine') /\ (engine' < engine => engine' \in Embedded) ]_vars
  BY LoadingStep
<1> QED
  BY <1>1, <1>2, PTL DEF Spec, RulesNeverRollBack

=============================================================================
