------------------------------- MODULE Tunnel -------------------------------
(***************************************************************************)
(* handleConnect of internal/proxy/handler.go, from the dial to its        *)
(* return: the client's connection is taken over from the HTTP server, two *)
(* goroutines copy one direction each, and the handler closes both         *)
(* connections when the first of them is done.  The two ends send, stop    *)
(* sending, read or go away as they please, or do nothing at all.          *)
(*                                                                         *)
(* The data of a direction is a row of chunks, numbered by its sender.     *)
(* Between an end and the proxy lies a window of chunks that are sent and  *)
(* not read.                                                               *)
(***************************************************************************)
EXTENDS Integers, Sequences

CONSTANTS
    Window,    \* chunks that fit between an end and the proxy
    MaxSent,   \* bound: chunks an end sends
    DoneCap    \* the capacity of the channel "done"

ASSUME TunnelAssumption == Window \in Nat \ {0} /\ MaxSent \in Nat /\ DoneCap \in Nat

Ends == {"client", "target"}
Other(e) == IF e = "client" THEN "target" ELSE "client"

Nothing == 0          \* no chunk
Established == -1     \* the line "200 Connection Established"

VARIABLES
    handler,   \* where handleConnect is
    conn,      \* the proxy's side of each connection
    end,       \* each end: it may still send, it only reads, or it is gone
    sent,      \* chunks each end has sent
    pulled,    \* ... of which the proxy has read so many
    lost,      \* ... and the server's buffer has kept so many of the client's
    copy,      \* the goroutine that reads from each end: where it is
    held,      \* the chunk it has read and not yet written
    drained,   \* history: it stopped because the end had no more to send
    handed,    \* what was written to each end's connection
    taken,     \* ... of which the end has read so many
    done       \* messages in the channel

endVars == <<end, sent, taken>>
copyVars == <<pulled, copy, held, drained, handed>>
vars == <<handler, conn, lost, done, endVars, copyVars>>

TypeOK ==
    /\ handler \in {"dial", "hijack", "reply", "wait", "close", "closeTarget", "returned", "refused"}
    /\ conn \in [Ends -> {"none", "open", "closed"}]
    /\ end \in [Ends -> {"open", "finished", "gone"}]
    /\ sent \in [Ends -> 0..MaxSent] /\ pulled \in [Ends -> 0..MaxSent] /\ lost \in 0..MaxSent
    /\ copy \in [Ends -> {"off", "reading", "writing", "stopped", "ended"}]
    /\ held \in [Ends -> 0..MaxSent]
    /\ drained \in [Ends -> BOOLEAN]
    /\ handed \in [Ends -> Seq(-1..MaxSent)] /\ taken \in [Ends -> Nat]
    /\ done \in Nat

Init ==
    /\ handler = "dial"
    /\ conn = [e \in Ends |-> IF e = "client" THEN "open" ELSE "none"]
    /\ end = [e \in Ends |-> "open"]
    /\ sent = [e \in Ends |-> 0]
    /\ pulled = [e \in Ends |-> 0]
    /\ lost = 0
    /\ copy = [e \in Ends |-> "off"]
    /\ held = [e \in Ends |-> Nothing]
    /\ drained = [e \in Ends |-> FALSE]
    /\ handed = [e \in Ends |-> << >>]
    /\ taken = [e \in Ends |-> 0]
    /\ done = 0

-----------------------------------------------------------------------------
(* The two ends.                                                           *)

\* The client may send before it has its answer.
Send(e) ==
    /\ end[e] = "open" /\ conn[e] = "open"
    /\ sent[e] < MaxSent /\ sent[e] - pulled[e] < Window
    /\ sent' = [sent EXCEPT ![e] = @ + 1]
    /\ UNCHANGED <<handler, conn, lost, done, end, taken, copyVars>>

\* The end closes its sending direction.
Finish(e) ==
    /\ end[e] = "open" /\ conn[e] # "none"
    /\ end' = [end EXCEPT ![e] = "finished"]
    /\ UNCHANGED <<handler, conn, lost, done, sent, taken, copyVars>>

\* The end closes its connection, or dies.
Leave(e) ==
    /\ end[e] # "gone" /\ conn[e] # "none"
    /\ end' = [end EXCEPT ![e] = "gone"]
    /\ UNCHANGED <<handler, conn, lost, done, sent, taken, copyVars>>

Take(e) ==
    /\ end[e] # "gone" /\ taken[e] < Len(handed[e])
    /\ taken' = [taken EXCEPT ![e] = @ + 1]
    /\ UNCHANGED <<handler, conn, lost, done, end, sent, copyVars>>

-----------------------------------------------------------------------------
(* The handler.                                                            *)

\* A dial that fails is answered with 502.
Dial ==
    /\ handler = "dial"
    /\ \/ handler' = "hijack" /\ conn' = [conn EXCEPT !["target"] = "open"]
       \/ handler' = "refused" /\ UNCHANGED conn
    /\ UNCHANGED <<lost, done, endVars, copyVars>>

\* The reader the server hands over is thrown away, with what it had already
\* read from the connection.  A Hijack that fails is answered with 500.
Hijack ==
    /\ handler = "hijack"
    /\ \/ /\ handler' = "reply"
          /\ lost' \in 0..sent["client"]
          /\ pulled' = [pulled EXCEPT !["client"] = lost']
          /\ UNCHANGED conn
       \/ /\ handler' = "refused"
          /\ conn' = [conn EXCEPT !["target"] = "closed"]
          /\ UNCHANGED <<lost, pulled>>
    /\ UNCHANGED <<done, endVars, copy, held, drained, handed>>

\* The answer, whose write may fail when the client has gone; handleConnect
\* does not look at its error.
Reply ==
    \/ handed' = [handed EXCEPT !["client"] = Append(@, Established)]
    \/ end["client"] = "gone" /\ UNCHANGED handed

\* Mutant: the answer is written after the goroutines are started.
StartEarly ==
    /\ \/ handler = "reply" /\ copy["client"] = "off" /\ copy' = [e \in Ends |-> "reading"]
          /\ UNCHANGED <<handler, handed>>
       \/ handler = "reply" /\ copy["client"] # "off"
          /\ Reply
          /\ handler' = "wait" /\ UNCHANGED copy
    /\ UNCHANGED <<conn, lost, done, endVars, pulled, held, drained>>

Start ==
    /\ handler = "reply"
    /\ Reply
    /\ copy' = [e \in Ends |-> "reading"]
    /\ handler' = "wait"
    /\ UNCHANGED <<conn, lost, done, endVars, pulled, held, drained>>

\* <-done, of a message that is already there.
Receive ==
    /\ handler = "wait" /\ done > 0
    /\ done' = done - 1
    /\ handler' = "close"
    /\ UNCHANGED <<conn, lost, endVars, copyVars>>

\* The deferred calls, the last one first.
CloseClient ==
    /\ handler = "close"
    /\ conn' = [conn EXCEPT !["client"] = "closed"]
    /\ handler' = "closeTarget"
    /\ UNCHANGED <<lost, done, endVars, copyVars>>

CloseTarget ==
    /\ handler = "closeTarget"
    /\ conn' = [conn EXCEPT !["target"] = "closed"]
    /\ handler' = "returned"
    /\ UNCHANGED <<lost, done, endVars, copyVars>>

-----------------------------------------------------------------------------
(* A goroutine: io.Copy from one end to the other, and its message.        *)

ToRead(e) == conn[e] = "open" /\ pulled[e] < sent[e]

\* Mutant: a read returns though nothing has come.
ReadBlindly(e) ==
    /\ copy[e] = "reading" /\ conn[e] = "open"
    /\ pulled' = [pulled EXCEPT ![e] = @ + 1]
    /\ held' = [held EXCEPT ![e] = pulled'[e]]
    /\ copy' = [copy EXCEPT ![e] = "writing"]
    /\ UNCHANGED <<handler, conn, lost, done, endVars, drained, handed>>

Read(e) ==
    /\ copy[e] = "reading" /\ ToRead(e)
    /\ pulled' = [pulled EXCEPT ![e] = @ + 1]
    /\ held' = [held EXCEPT ![e] = pulled'[e]]
    /\ copy' = [copy EXCEPT ![e] = "writing"]
    /\ UNCHANGED <<handler, conn, lost, done, endVars, drained, handed>>

\* Mutant: the end of the data is noticed before the data.
ReadEofEarly(e) ==
    /\ copy[e] = "reading" /\ conn[e] = "open" /\ end[e] # "open"
    /\ drained' = [drained EXCEPT ![e] = TRUE]
    /\ copy' = [copy EXCEPT ![e] = "stopped"]
    /\ UNCHANGED <<handler, conn, lost, done, endVars, pulled, held, handed>>

\* The end has stopped sending and all it sent is read.
ReadEof(e) ==
    /\ copy[e] = "reading" /\ conn[e] = "open"
    /\ end[e] # "open" /\ pulled[e] = sent[e]
    /\ drained' = [drained EXCEPT ![e] = TRUE]
    /\ copy' = [copy EXCEPT ![e] = "stopped"]
    /\ UNCHANGED <<handler, conn, lost, done, endVars, pulled, held, handed>>

\* The connection is closed here, or reset by an end that has gone.
ReadFails(e) ==
    /\ copy[e] = "reading"
    /\ conn[e] = "closed" \/ end[e] = "gone"
    /\ copy' = [copy EXCEPT ![e] = "stopped"]
    /\ UNCHANGED <<handler, conn, lost, done, endVars, pulled, held, drained, handed>>

Room(e) == Len(handed[e]) - taken[e] < Window

\* The answer has failed, and with it the client's connection for writing.
Unanswered == handler # "reply" /\ handed["client"] = << >>

\* A write to an end that has gone may still seem to succeed, but not after one
\* that has failed.
Write(e) ==
    /\ copy[e] = "writing"
    /\ conn[Other(e)] = "open" /\ Room(Other(e))
    /\ e = "target" => ~ Unanswered
    /\ handed' = [handed EXCEPT ![Other(e)] = Append(@, held[e])]
    /\ held' = [held EXCEPT ![e] = Nothing]
    /\ copy' = [copy EXCEPT ![e] = "reading"]
    /\ UNCHANGED <<handler, conn, lost, done, endVars, pulled, drained>>

WriteFails(e) ==
    /\ copy[e] = "writing"
    /\ conn[Other(e)] = "closed" \/ end[Other(e)] = "gone"
    /\ held' = [held EXCEPT ![e] = Nothing]
    /\ copy' = [copy EXCEPT ![e] = "stopped"]
    /\ UNCHANGED <<handler, conn, lost, done, endVars, pulled, drained, handed>>

\* Mutant: the channel has no buffer, so that a message needs a receiver.
SignalUnbuffered(e) ==
    /\ copy[e] = "stopped"
    /\ handler = "wait" /\ handler' = "close"
    /\ copy' = [copy EXCEPT ![e] = "ended"]
    /\ UNCHANGED <<conn, lost, done, endVars, pulled, held, drained, handed>>

\* Mutant: the handler waits for both directions.
SignalBoth(e) ==
    /\ copy[e] = "stopped"
    /\ copy' = [copy EXCEPT ![e] = "ended"]
    /\ handler' = IF copy[Other(e)] = "ended" THEN "close" ELSE handler
    /\ UNCHANGED <<conn, lost, done, endVars, pulled, held, drained, handed>>

\* done <- struct{}{}.
Signal(e) ==
    /\ copy[e] = "stopped"
    /\ done < DoneCap
    /\ done' = done + 1
    /\ copy' = [copy EXCEPT ![e] = "ended"]
    /\ UNCHANGED <<handler, conn, lost, endVars, pulled, held, drained, handed>>

HandlerStep == Dial \/ Hijack \/ Start \/ Receive \/ CloseClient \/ CloseTarget
CopyStep(e) == Read(e) \/ ReadEof(e) \/ ReadFails(e) \/ Write(e) \/ WriteFails(e) \/ Signal(e)
EndStep(e) == Send(e) \/ Finish(e) \/ Leave(e) \/ Take(e)

Next == HandlerStep \/ \E e \in Ends : CopyStep(e) \/ EndStep(e)

\* A goroutine that can run is run; nothing is assumed of the two ends.
Fairness == WF_vars(HandlerStep) /\ \A e \in Ends : WF_vars(CopyStep(e))

Spec == Init /\ [][Next]_vars /\ Fairness

-----------------------------------------------------------------------------
(* Properties.                                                             *)

\* What has been handed to the target is the client's data from some chunk on,
\* without a gap; what is missing in front was sent before the answer.  The
\* client is handed the answer first and then the target's data from the start.
InOrder ==
    /\ \A k \in 1..Len(handed["target"]) : handed["target"][k] = lost + k
    /\ \A k \in 1..Len(handed["client"]) :
            handed["client"][k] = IF k = 1 THEN Established ELSE k - 1

\* A direction that stops because its sender has no more to send has handed on
\* everything it was sent, but for what the server's buffer kept, and behind the
\* answer, unless the client had gone before it got one.
CompleteAtEof ==
    \A e \in Ends : drained[e] =>
        Len(handed[Other(e)]) =
            IF e = "client" THEN sent[e] - lost
            ELSE sent[e] + IF end["client"] = "gone" /\ handed["client"] = << >> THEN 0 ELSE 1

Over ==
    /\ handler = "returned"
    /\ \A e \in Ends : conn[e] = "closed" /\ copy[e] = "ended"

\* When one direction stops, for whatever reason and wherever the other one is
\* blocked, everything goes: the handler returns, both connections are closed
\* and no goroutine stays behind.
NothingIsLeftBehind == \A e \in Ends : copy[e] = "stopped" ~> Over

\* An end that stops sending, when the proxy has passed on what it sent, takes
\* the tunnel with it, also if the other end does nothing at all.
SilentEndEndsTunnel ==
    \A e \in Ends :
        (copy[e] = "reading" /\ end[e] # "open" /\ pulled[e] = sent[e]) ~> Over

=============================================================================
