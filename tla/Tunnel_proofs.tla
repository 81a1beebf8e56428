---------------------------- MODULE Tunnel_proofs ----------------------------
(***************************************************************************)
(* What a tunnel hands on, for any amount of data and any window: type     *)
(* correctness, InOrder and CompleteAtEof are invariants of Tunnel.        *)
(*                                                                         *)
(* Neither of the last two says how far a direction is.  FlowInv adds the  *)
(* count: what has been handed on, what was read and what the goroutine    *)
(* holds tally as long as it copies, and still do when it stops for want   *)
(* of data; before the goroutines are started nothing has been handed on.  *)
(***************************************************************************)
EXTENDS Tunnel, TLAPS

\* The first chunk of a direction is the one after these.
First(e) == IF e = "client" THEN lost ELSE 0

\* What is written before the data of a direction: the answer, to the client, or
\* nothing if its write fails.
Base(e) == IF e = "client" \/ handed[Other(e)] = << >> THEN 0 ELSE 1

\* What comes at place k of what is handed on from e.
Row(e, k) == IF e = "client" THEN lost + k ELSE IF k = 1 THEN Established ELSE k - 1

Tally(e) == Len(handed[Other(e)]) = Base(e) + pulled[e] - First(e)

NotYetCopying(e) == copy[e] = "off" => pulled[e] = First(e) /\ handed[Other(e)] = << >>
Copying(e) ==
    /\ copy[e] = "reading" => Tally(e)
    /\ copy[e] = "writing" =>
          /\ held[e] = pulled[e] /\ pulled[e] > First(e)
          /\ Len(handed[Other(e)]) + 1 = Base(e) + pulled[e] - First(e)
Drained(e) ==
    drained[e] => /\ copy[e] \in {"stopped", "ended"}
                  /\ end[e] # "open" /\ pulled[e] = sent[e] /\ Tally(e)
InRow(e) == \A k \in 1..Len(handed[Other(e)]) : handed[Other(e)][k] = Row(e, k)

FlowOf(e) ==
    pulled[e] <= sent[e] /\ NotYetCopying(e) /\ Copying(e) /\ Drained(e) /\ InRow(e)

BeforeStart == handler \in {"dial", "hijack", "reply"} => \A e \in Ends : copy[e] = "off"

\* Only a client that has gone is left without the answer.
Answered == copy["target"] # "off" /\ handed["client"] = << >> => end["client"] = "gone"

FlowInv == TypeOK /\ BeforeStart /\ Answered /\ \A e \in Ends : FlowOf(e)

-----------------------------------------------------------------------------

\* An end is not its own other end, and is the other end's.
LEMMA OtherEnd ==
    \A e \in Ends : Other(e) \in Ends /\ Other(e) # e /\ Other(Other(e)) = e
BY DEF Ends, Other

\* One more chunk of the right number keeps the row.
LEMMA LongerRow ==
    ASSUME NEW s \in Seq(-1..MaxSent), NEW x \in -1..MaxSent
    PROVE  /\ Append(s, x) \in Seq(-1..MaxSent)
           /\ Len(Append(s, x)) = Len(s) + 1
           /\ \A k \in 1..Len(s) : Append(s, x)[k] = s[k]
           /\ Append(s, x)[Len(s) + 1] = x
BY TunnelAssumption

\* The type invariant holds at the start and is kept by every step: chunks are
\* read only when they are there.
LEMMA TypeInit == Init => TypeOK
<1>1. << >> \in Seq(-1..MaxSent) /\ 0 \in 0..MaxSent
  BY TunnelAssumption
<1> QED
  BY <1>1 DEF Init, TypeOK, Ends, Nothing

LEMMA TypeStep ==
    ASSUME TypeOK, [Next]_vars
    PROVE  TypeOK'
<1> USE TunnelAssumption DEF TypeOK, endVars, copyVars
<1>1. CASE UNCHANGED vars
  BY <1>1 DEF vars
<1>2. CASE HandlerStep
  <2>1. CASE Dial
    BY <2>1 DEF Dial, Ends
  <2>2. CASE Hijack
    <3>1. sent["client"] \in 0..MaxSent
      BY DEF Ends
    <3>2. CASE lost' \in 0..sent["client"] /\ pulled' = [pulled EXCEPT !["client"] = lost']
      <4>1. lost' \in 0..MaxSent
        BY <3>1, <3>2
      <4>2. pulled' \in [Ends -> 0..MaxSent]
        BY <3>2, <4>1
      <4> QED
        BY <2>2, <4>1, <4>2 DEF Hijack, Ends
    <3>3. CASE UNCHANGED <<lost, pulled>>
      BY <2>2, <3>3 DEF Hijack, Ends
    <3> QED
      BY <2>2, <3>2, <3>3 DEF Hijack
  <2>3. CASE Start
    <3>1. Append(handed["client"], Established) \in Seq(-1..MaxSent)
      BY LongerRow DEF Established, Ends
    <3>2. handed' \in [Ends -> Seq(-1..MaxSent)]
      BY <2>3, <3>1 DEF Start, Reply
    <3> QED
      BY <2>3, <3>2 DEF Start
  <2>4. CASE Receive
    BY <2>4 DEF Receive
  <2>5. CASE CloseClient
    BY <2>5 DEF CloseClient
  <2>6. CASE CloseTarget
    BY <2>6 DEF CloseTarget
  <2> QED
    BY <1>2, <2>1, <2>2, <2>3, <2>4, <2>5, <2>6 DEF HandlerStep
<1>3. ASSUME NEW e \in Ends, CopyStep(e) PROVE TypeOK'
  <2>1. CASE Read(e)
    <3>1. pulled[e] + 1 \in 0..MaxSent
      BY <2>1 DEF Read, ToRead
    <3>2. pulled' \in [Ends -> 0..MaxSent] /\ pulled'[e] = pulled[e] + 1
      BY <2>1, <3>1 DEF Read
    <3>3. held' \in [Ends -> 0..MaxSent]
      BY <2>1, <3>1, <3>2 DEF Read
    <3> QED
      BY <2>1, <3>2, <3>3 DEF Read
  <2>2. CASE ReadEof(e)
    BY <2>2 DEF ReadEof
  <2>3. CASE ReadFails(e)
    BY <2>3 DEF ReadFails
  <2>4. CASE Write(e)
    <3>1. Other(e) \in Ends /\ Append(handed[Other(e)], held[e]) \in Seq(-1..MaxSent)
      BY OtherEnd, LongerRow
    <3>2. handed' \in [Ends -> Seq(-1..MaxSent)]
      BY <2>4, <3>1 DEF Write
    <3>3. held' \in [Ends -> 0..MaxSent] /\ copy' \in [Ends -> {"off", "reading", "writing", "stopped", "ended"}]
      BY <2>4 DEF Write, Nothing
    <3> QED
      BY <2>4, <3>2, <3>3 DEF Write
  <2>5. CASE WriteFails(e)
    BY <2>5 DEF WriteFails, Nothing
  <2>6. CASE Signal(e)
    BY <2>6 DEF Signal
  <2> QED
    BY <1>3, <2>1, <2>2, <2>3, <2>4, <2>5, <2>6 DEF CopyStep
<1>4. ASSUME NEW e \in Ends, EndStep(e) PROVE TypeOK'
  <2>1. CASE Send(e)
    BY <2>1 DEF Send
  <2>2. CASE Finish(e)
    BY <2>2 DEF Finish
  <2>3. CASE Leave(e)
    BY <2>3 DEF Leave
  <2>4. CASE Take(e)
    BY <2>4 DEF Take
  <2> QED
    BY <1>4, <2>1, <2>2, <2>3, <2>4 DEF EndStep
<1> QED
  BY <1>1, <1>2, <1>3, <1>4 DEF Next

-----------------------------------------------------------------------------

\* Nothing has been handed on at the start.
LEMMA FlowInit == Init => FlowInv
<1>1. ASSUME Init, NEW e \in Ends PROVE FlowOf(e)
  BY <1>1, OtherEnd
     DEF Init, FlowOf, NotYetCopying, Copying, Drained, InRow, First
<1>2. Init => BeforeStart /\ Answered
  BY DEF Init, BeforeStart, Answered, Ends
<1> QED
  BY <1>1, <1>2, TypeInit DEF FlowInv

\* What a step leaves alone, it leaves as it was.
LEMMA FlowSame ==
    ASSUME FlowInv, NEW e \in Ends,
           UNCHANGED <<pulled, copy, held, drained, handed, lost>>,
           sent'[e] \in Int, sent'[e] >= sent[e],
           end[e] # "open" => sent'[e] = sent[e] /\ end'[e] # "open"
    PROVE  FlowOf(e)'
<1>1. FlowOf(e) /\ pulled[e] \in Int /\ sent[e] \in Int
  BY DEF FlowInv, TypeOK
<1>2. sent'[e] \in Int /\ pulled'[e] <= sent'[e]
  BY <1>1 DEF FlowOf
<1>3. NotYetCopying(e)' /\ Copying(e)' /\ InRow(e)'
  BY <1>1 DEF FlowOf, NotYetCopying, Copying, InRow, Tally, First, Base, Row
<1>4. Drained(e)'
  BY <1>1 DEF FlowOf, Drained, Tally, First, Base
<1> QED
  BY <1>2, <1>3, <1>4 DEF FlowOf

\* A step of the other direction's goroutine.
LEMMA FlowOther ==
    ASSUME FlowInv, NEW e \in Ends,
           pulled'[e] = pulled[e], copy'[e] = copy[e], held'[e] = held[e],
           drained'[e] = drained[e], handed'[Other(e)] = handed[Other(e)],
           UNCHANGED <<lost, endVars>>
    PROVE  FlowOf(e)'
  BY DEF endVars, FlowInv, FlowOf, NotYetCopying, Copying, Drained, InRow, Tally, First, Base, Row

LEMMA FlowHandler ==
    ASSUME FlowInv, HandlerStep
    PROVE  BeforeStart' /\ Answered' /\ \A e \in Ends : FlowOf(e)'
<1>1. TypeOK /\ BeforeStart /\ Answered /\ \A e \in Ends : FlowOf(e)
  BY DEF FlowInv
<1>2. ASSUME Dial \/ Receive \/ CloseClient \/ CloseTarget
      PROVE  BeforeStart' /\ Answered' /\ \A e \in Ends : FlowOf(e)'
  <2>1. UNCHANGED <<lost, endVars, copyVars>>
    BY <1>2 DEF Dial, Receive, CloseClient, CloseTarget
  <2>2. \A e \in Ends : FlowOf(e)'
    BY <2>1, FlowSame DEF FlowInv, TypeOK, endVars, copyVars
  <2>3. BeforeStart' /\ Answered'
    BY <1>1, <1>2, <2>1 DEF Dial, Receive, CloseClient, CloseTarget, BeforeStart, Answered,
                            endVars, copyVars
  <2> QED
    BY <2>2, <2>3
<1>3. CASE Hijack
  <2>1. BeforeStart' /\ Answered'
    BY <1>1, <1>3 DEF Hijack, BeforeStart, Answered, endVars
  <2>2. CASE lost' \in 0..sent["client"] /\ pulled' = [pulled EXCEPT !["client"] = lost']
    <3>1. ASSUME NEW e \in Ends PROVE FlowOf(e)'
      <4>1. copy[e] = "off" /\ handed[Other(e)] = << >> /\ ~ drained[e]
        BY <1>1, <1>3 DEF Hijack, BeforeStart, FlowOf, NotYetCopying, Drained
      <4>2. pulled'[e] = First(e)' /\ pulled'[e] <= sent[e]
        BY <1>1, <2>2, <4>1 DEF First, FlowOf, NotYetCopying, TypeOK, Ends
      <4> QED
        BY <1>3, <4>1, <4>2
           DEF Hijack, endVars, FlowOf, NotYetCopying, Copying, Drained, InRow
    <3> QED
      BY <3>1, <2>1
  <2>3. CASE UNCHANGED <<lost, pulled>>
    BY <1>3, <2>1, <2>3, FlowSame DEF Hijack, FlowInv, TypeOK, endVars
  <2> QED
    BY <1>3, <2>2, <2>3 DEF Hijack
<1>4. CASE Start
  <2>0. handed["client"] = << >>
    BY <1>1, <1>4 DEF Start, BeforeStart, FlowOf, NotYetCopying, Ends, Other
  <2>1. /\ handed'["target"] = handed["target"]
        /\ \/ handed'["client"] = << >> /\ end'["client"] = "gone"
           \/ handed'["client"] = Append(<< >>, Established)
    BY <1>1, <1>4, <2>0 DEF Start, Reply, TypeOK, Ends, endVars
  <2>2. << >> \in Seq(-1..MaxSent) /\ Established \in -1..MaxSent /\ Len(<< >>) = 0
    BY TunnelAssumption DEF Established
  <2>3. PICK one : one = Append(<< >>, Established)
    OBVIOUS
  <2>4. one # << >> /\ Len(one) = 1 /\ one[1] = Established
    BY <2>2, <2>3, LongerRow
  <2>5. BeforeStart' /\ Answered'
    BY <1>4, <2>1, <2>3, <2>4 DEF Start, BeforeStart, Answered
  <2>6. ASSUME NEW e \in Ends PROVE FlowOf(e)'
    <3>1. /\ copy[e] = "off" /\ ~ drained[e]
          /\ pulled[e] = First(e) /\ handed[Other(e)] = << >>
      BY <1>1, <1>4 DEF Start, BeforeStart, FlowOf, NotYetCopying, Drained
    <3>2. copy'[e] = "reading" /\ drained'[e] = drained[e] /\ First(e)' = First(e)
      BY <1>4 DEF Start, First
    <3>3. InRow(e)' /\ Len(handed'[Other(e)]) = Base(e)'
      <4>1. CASE e = "client"
        <5>1. handed'[Other(e)] = << >>
          BY <2>1, <3>1, <4>1 DEF Other
        <5> QED
          BY <2>2, <4>1, <5>1 DEF InRow, Base
      <4>2. CASE e = "target" /\ handed'["client"] = << >>
        BY <2>2, <4>2 DEF InRow, Base, Other
      <4>3. CASE e = "target" /\ handed'["client"] = one
        <5>1. Other(e) = "client" /\ e # "client"
          BY <4>3 DEF Other
        <5>2. Base(e)' = 1
          BY <2>4, <4>3, <5>1 DEF Base
        <5>3. InRow(e)'
          <6>1. ASSUME NEW k \in 1..1 PROVE one[k] = Row(e, k)'
            BY <2>4, <5>1 DEF Row
          <6> QED
            BY <2>4, <4>3, <5>1, <6>1 DEF InRow
        <5> QED
          BY <2>4, <4>3, <5>1, <5>2, <5>3
      <4> QED
        BY <2>1, <2>3, <4>1, <4>2, <4>3 DEF Ends
    <3>4. pulled'[e] = pulled[e] /\ pulled[e] <= sent'[e] /\ pulled[e] \in Int
      BY <1>1, <1>4 DEF Start, endVars, FlowOf, TypeOK
    <3>5. Tally(e)' /\ First(e)' \in Int
      <4>1. Base(e)' \in Int
        BY DEF Base
      <4> QED
        BY <3>1, <3>2, <3>3, <3>4, <4>1 DEF Tally
    <3> QED
      BY <3>1, <3>2, <3>3, <3>4, <3>5 DEF FlowOf, NotYetCopying, Copying, Drained
  <2> QED
    BY <2>5, <2>6
<1> QED
  BY <1>2, <1>3, <1>4 DEF HandlerStep

LEMMA FlowCopy ==
    ASSUME FlowInv, NEW e \in Ends, CopyStep(e)
    PROVE  BeforeStart' /\ Answered' /\ \A f \in Ends : FlowOf(f)'
<1>1. TypeOK /\ BeforeStart /\ Answered /\ FlowOf(e) /\ Other(e) \in Ends /\ Other(e) # e
  BY OtherEnd DEF FlowInv
<1>2. copy[e] # "off" /\ UNCHANGED <<handler, lost, endVars>>
  BY DEF CopyStep, Read, ReadEof, ReadFails, Write, WriteFails, Signal
<1>3. BeforeStart' /\ Answered'
  <2>1. BeforeStart' /\ (copy'["target"] # "off" => copy["target"] # "off")
    BY <1>1, <1>2 DEF BeforeStart, TypeOK, Ends, CopyStep, Read, ReadEof, ReadFails, Write,
                      WriteFails, Signal
  <2>2. CASE UNCHANGED handed
    BY <1>1, <1>2, <2>1, <2>2 DEF Answered, endVars
  <2>3. CASE Write(e)
    <3>1. handed["client"] \in Seq(-1..MaxSent) /\ held[e] \in -1..MaxSent
      BY <1>1, TunnelAssumption DEF TypeOK, Ends
    <3>2. Append(handed["client"], held[e]) # << >>
      BY <3>1
    <3>3. handed'["client"] = handed["client"] \/ handed'["client"] = Append(handed["client"], held[e])
      BY <1>1, <2>3 DEF Write, TypeOK, Ends
    <3> QED
      BY <1>1, <1>2, <2>1, <3>2, <3>3 DEF Answered, endVars
  <2> QED
    BY <2>1, <2>2, <2>3 DEF CopyStep, Read, ReadEof, ReadFails, WriteFails, Signal
<1>4. ASSUME NEW f \in Ends, f # e PROVE FlowOf(f)'
  <2>1. f = Other(e) /\ Other(f) = e
    BY <1>4 DEF Ends, Other
  <2>2. /\ pulled'[f] = pulled[f] /\ copy'[f] = copy[f] /\ held'[f] = held[f]
        /\ drained'[f] = drained[f] /\ handed'[e] = handed[e]
    BY <1>1, <1>4 DEF CopyStep, Read, ReadEof, ReadFails, Write, WriteFails, Signal, TypeOK
  <2> QED
    BY <1>2, <2>1, <2>2, FlowOther
<1>5. FlowOf(e)'
  <2> USE <1>1, <1>2 DEF endVars
  <2>1. CASE Read(e)
    BY <2>1 DEF Read, ToRead, TypeOK, FlowOf, NotYetCopying, Copying, Drained, InRow, Tally,
                First, Base, Row
  <2>2. CASE ReadEof(e)
    BY <2>2 DEF ReadEof, TypeOK, FlowOf, NotYetCopying, Copying, Drained, InRow, Tally,
                First, Base, Row
  <2>3. CASE ReadFails(e) \/ WriteFails(e) \/ Signal(e)
    BY <2>3 DEF ReadFails, WriteFails, Signal, TypeOK, FlowOf, NotYetCopying, Copying, Drained,
                InRow, Tally, First, Base, Row
  <2>4. CASE Write(e)
    <3> DEFINE s == handed[Other(e)]
    <3>1. s \in Seq(-1..MaxSent) /\ held[e] \in -1..MaxSent
      BY TunnelAssumption DEF TypeOK
    <3>2. handed'[Other(e)] = Append(s, held[e])
      BY <2>4 DEF Write, TypeOK
    <3>3. /\ held[e] = pulled[e] /\ pulled[e] > First(e)
          /\ Len(s) + 1 = Base(e) + pulled[e] - First(e)
      BY <2>4 DEF Write, FlowOf, Copying
    <3>0. /\ Base(e)' = Base(e)
          /\ e # "client" => Base(e) = 1
      <4>1. Append(s, held[e]) # << >>
        BY <3>1
      <4>2. e # "client" => Other(e) = "client" /\ handed[Other(e)] # << >>
        BY <1>1, <2>4 DEF Write, Unanswered, BeforeStart, Ends, Other
      <4> QED
        BY <3>2, <4>1, <4>2 DEF Base
    <3>4. held[e] = Row(e, Len(s) + 1)
      <4>1. pulled[e] \in Int /\ lost \in Int /\ Len(s) \in Int
        BY <3>1 DEF TypeOK
      <4>2. CASE e = "client"
        BY <3>3, <4>1, <4>2 DEF Row, First, Base
      <4>3. CASE e # "client"
        BY <3>0, <3>3, <4>1, <4>3 DEF Row, First
      <4> QED
        BY <4>2, <4>3
    <3>5. InRow(e)'
      <4>1. \A k \in 1..Len(s) : s[k] = Row(e, k)
        BY DEF FlowOf, InRow
      <4>2. \A k : Row(e, k)' = Row(e, k)
        BY DEF Row
      <4>3. Len(Append(s, held[e])) = Len(s) + 1
        BY <3>1
      <4>4. ASSUME NEW k \in 1..(Len(s) + 1) PROVE Append(s, held[e])[k] = Row(e, k)
        BY <3>1, <3>4, <4>1, LongerRow
      <4> QED
        BY <3>2, <4>2, <4>3, <4>4 DEF InRow
    <3>6. copy'[e] = "reading" /\ pulled' = pulled /\ drained' = drained /\ ~ drained[e]
      BY <2>4 DEF Write, FlowOf, Drained, TypeOK
    <3>7. Tally(e)'
      <4>1. First(e)' = First(e) /\ First(e) \in Int /\ Base(e) \in Int /\ pulled[e] \in Int
        BY DEF First, Base, TypeOK
      <4>2. Len(handed'[Other(e)]) = Len(s) + 1 /\ Len(s) \in Int
        BY <3>1, <3>2, LongerRow
      <4> QED
        BY <3>0, <3>3, <3>6, <4>1, <4>2 DEF Tally
    <3> QED
      BY <3>5, <3>6, <3>7 DEF FlowOf, NotYetCopying, Copying, Drained
  <2> QED
    BY <2>1, <2>2, <2>3, <2>4 DEF CopyStep
<1> QED
  BY <1>3, <1>4, <1>5

LEMMA FlowEnd ==
    ASSUME FlowInv, NEW e \in Ends, EndStep(e)
    PROVE  BeforeStart' /\ Answered' /\ \A f \in Ends : FlowOf(f)'
<1>1. UNCHANGED <<handler, lost, copyVars>>
  BY DEF EndStep, Send, Finish, Leave, Take
<1>2. ASSUME NEW f \in Ends
      PROVE  /\ sent'[f] \in Int /\ sent'[f] >= sent[f]
             /\ end[f] # "open" => sent'[f] = sent[f] /\ end'[f] # "open"
  <2>1. sent \in [Ends -> 0..MaxSent] /\ sent[f] \in Int /\ end \in [Ends -> {"open", "finished", "gone"}]
    BY DEF FlowInv, TypeOK
  <2>2. CASE Send(e)
    BY <2>1, <2>2 DEF Send
  <2>3. CASE Finish(e) \/ Leave(e) \/ Take(e)
    BY <2>1, <2>3 DEF Finish, Leave, Take
  <2> QED
    BY <2>2, <2>3 DEF EndStep
<1>3. ASSUME NEW f \in Ends PROVE FlowOf(f)'
  <2>1. UNCHANGED <<pulled, copy, held, drained, handed, lost>>
    BY <1>1 DEF copyVars
  <2> QED
    BY <1>2, <2>1, FlowSame
<1>4. BeforeStart' /\ Answered'
  <2>1. end["client"] = "gone" => end'["client"] = "gone"
    BY DEF EndStep, Send, Finish, Leave, Take, FlowInv, TypeOK, Ends
  <2> QED
    BY <1>1, <2>1 DEF FlowInv, BeforeStart, Answered, copyVars
<1> QED
  BY <1>3, <1>4

LEMMA FlowStep ==
    ASSUME FlowInv, [Next]_vars
    PROVE  FlowInv'
<1>1. TypeOK'
  BY TypeStep DEF FlowInv
<1>2. CASE UNCHANGED vars
  <2>1. \A e \in Ends : FlowOf(e)'
    BY <1>2, FlowSame DEF vars, endVars, copyVars, FlowInv, TypeOK
  <2>2. BeforeStart' /\ Answered'
    BY <1>2 DEF FlowInv, BeforeStart, Answered, vars, endVars, copyVars
  <2> QED
    BY <1>1, <2>1, <2>2 DEF FlowInv
<1> QED
  BY <1>1, <1>2, FlowHandler, FlowCopy, FlowEnd DEF Next, FlowInv

-----------------------------------------------------------------------------

LEMMA FlowAlways == Spec => []FlowInv
<1>1. FlowInv /\ [Next]_vars => FlowInv'
  BY FlowStep
<1> QED
  BY <1>1, FlowInit, PTL DEF Spec

\* Every variable keeps its type; in particular no end's data is read beyond
\* what it has sent.
THEOREM TypeCorrect == Spec => []TypeOK
<1>1. FlowInv => TypeOK
  BY DEF FlowInv
<1> QED
  BY <1>1, FlowAlways, PTL

\* What is handed on is what was sent, in order and without a gap, and the
\* client has the answer before anything else, wherever the goroutines and the
\* handler are.
THEOREM HandedInOrder == Spec => []InOrder
<1>1. FlowInv => InOrder
  BY DEF FlowInv, FlowOf, InRow, InOrder, Row, Ends, Other
<1> QED
  BY <1>1, FlowAlways, PTL

\* A direction that ends with its sender has handed on all that it could read.
THEOREM EofIsComplete == Spec => []CompleteAtEof
<1>1. ASSUME FlowInv, NEW e \in Ends, drained[e]
      PROVE  Len(handed[Other(e)]) =
                IF e = "client" THEN sent[e] - lost
                ELSE sent[e] + IF end["client"] = "gone" /\ handed["client"] = << >> THEN 0 ELSE 1
  <2>1. Tally(e) /\ pulled[e] = sent[e] /\ sent[e] \in Int /\ lost \in Int
    BY <1>1 DEF FlowInv, FlowOf, Drained, TypeOK
  <2>2. CASE e = "client"
    BY <2>1, <2>2 DEF Tally, Base, First
  <2>3. CASE e # "client"
    <3>1. e = "target" /\ Other(e) = "client" /\ copy[e] # "off"
      BY <1>1, <2>3 DEF Ends, Other, FlowInv, FlowOf, Drained
    <3>2. handed["client"] = << >> => end["client"] = "gone"
      BY <1>1, <3>1 DEF FlowInv, Answered
    <3> QED
      BY <2>1, <2>3, <3>1, <3>2 DEF Tally, Base, First
  <2> QED
    BY <2>2, <2>3
<1>2. FlowInv => CompleteAtEof
  BY <1>1 DEF CompleteAtEof
<1> QED
  BY <1>2, FlowAlways, PTL

=============================================================================
