-------------------------- MODULE BastionSessions --------------------------
(***************************************************************************)
(* The sessions of the SSH bastion: internal/bastion/proxy.go and          *)
(* logger.go, over a grant store that keeps the promise of AccessGrants,   *)
(* for connections that BastionServer has let in.                          *)
(*                                                                         *)
(* Every direct-tcpip channel has a goroutine, and a proxied one two more  *)
(* that copy.  The grant is looked up once, when the channel is asked for; *)
(* everything after that runs concurrently with the clock, with            *)
(* revocations, and with the two peers.                                    *)
(***************************************************************************)
EXTENDS Grants, Sequences

CONSTANTS
    Conns,        \* the SSH connections
    User,         \* the user name of each
    Sessions,     \* the direct-tcpip channels that clients ask for
    ConnOf,       \* the connection of each
    Dest,         \* the address each asks for
    LogLimit,     \* LogStore.limit
    None          \* no grant, no session ID

\* "<client address>-<clock>": a connection and the time of the dial.
SessionId == Conns \X Time

ASSUME BastionAssumption ==
    /\ User \in [Conns -> Principals]
    /\ ConnOf \in [Sessions -> Conns]
    /\ Dest \in [Sessions -> Targets]
    /\ LogLimit \in Nat \ {0}
    /\ None \notin GrantId /\ None \notin SessionId

VARIABLES
    clock, table,   \* the grant store
    pc,             \* per session: the step of handleDirectTCPIP
    grant,          \* per session: the ID of the grant it was let in by
    sid,            \* per session: its sessionID
    peer,           \* per session: which of its two ends are still there
    copying,        \* per session: which of its two copies still run
    pending,        \* per session: the event on its way to the log
    starts,         \* Logger.sessionStarts
    events,         \* LogStore.events
    trail,          \* history: every event ever added
    fits            \* history: per session, the grants that would have let it in
                    \* at some time while it waited

storeVars == <<clock, table>>
logVars == <<starts, events, trail>>
sessionVars == <<pc, grant, sid, peer, copying, pending, fits>>
vars == <<clock, table, pc, grant, sid, peer, copying,
          pending, starts, events, trail, fits>>

Store == INSTANCE AccessGrants

Ends == {"client", "target"}
Copies == {"up", "down"}
Event == [kind : {"connect", "disconnect"}, sid : SessionId, session : Sessions,
          grant : GrantId, at : Time, lasted : Time]

TypeOK ==
    /\ clock \in Time
    /\ IsTable(table)
    /\ pc \in [Sessions -> {"idle", "requested", "granted", "accepted", "dialed", "starting",
                            "proxying", "ending", "rejected", "done"}]
    /\ grant \in [Sessions -> GrantId \cup {None}]
    /\ sid \in [Sessions -> SessionId \cup {None}]
    /\ peer \in [Sessions -> SUBSET Ends]
    /\ copying \in [Sessions -> SUBSET Copies]
    /\ pending \in [Sessions -> Event \cup {None}]
    /\ DOMAIN starts \subseteq SessionId /\ \A i \in DOMAIN starts : starts[i] \in Time
    /\ events \in Seq(Event) /\ Len(events) <= LogLimit
    /\ trail \in Seq(Event)
    /\ fits \in [Sessions -> SUBSET GrantId]

Init ==
    /\ Store!Init
    /\ pc = [s \in Sessions |-> "idle"]
    /\ grant = [s \in Sessions |-> None]
    /\ sid = [s \in Sessions |-> None]
    /\ peer = [s \in Sessions |-> {}]
    /\ copying = [s \in Sessions |-> {}]
    /\ pending = [s \in Sessions |-> None]
    /\ starts = [i \in {} |-> 0]
    /\ events = <<>>
    /\ trail = <<>>
    /\ fits = [s \in Sessions |-> {}]

-----------------------------------------------------------------------------
(* A channel, up to the proxying: handleDirectTCPIP.                       *)

\* What ought to let a session in: an unexpired grant of its user for its
\* destination.
Fitting(grants, now, s) ==
    {id \in DOMAIN grants : /\ now <= grants[id].expiresAt
                            /\ grants[id].principal = User[ConnOf[s]]
                            /\ grants[id].target \in {Any, Dest[s]}}

\* What is done to the grant store meanwhile.
GrantsChange ==
    /\ Store!Next
    /\ fits' = [s \in Sessions |->
                   IF pc[s] = "requested" THEN fits[s] \cup Fitting(table', clock', s)
                   ELSE fits[s]]
    /\ UNCHANGED logVars /\ UNCHANGED <<pc, grant, sid, peer, copying, pending>>

Goto(s, step) == pc' = [pc EXCEPT ![s] = step]

Request(s) ==
    /\ pc[s] = "idle"
    /\ Goto(s, "requested")
    /\ peer' = [peer EXCEPT ![s] = {"client"}]
    /\ fits' = [fits EXCEPT ![s] = Fitting(table, clock, s)]
    /\ UNCHANGED <<grant, sid, copying, pending>>
    /\ UNCHANGED storeVars /\ UNCHANGED logVars

Reject(s) ==
    /\ Goto(s, "rejected")
    /\ peer' = [peer EXCEPT ![s] = {}]
    /\ UNCHANGED grant

\* The payload is parsed, then ValidateAccess is asked, whose walk over the map
\* may stop at any grant that fits.
CheckGrant(s) ==
    /\ pc[s] = "requested"
    /\ LET ids == Authorising(table, User[ConnOf[s]], Dest[s], clock) IN
          \/ Reject(s)    \* the payload does not parse, whatever the grants
          \/ ids = {} /\ Reject(s)
          \/ \E id \in ids :
             /\ Goto(s, "granted")
             /\ grant' = [grant EXCEPT ![s] = id]
             /\ UNCHANGED peer
    /\ UNCHANGED <<sid, copying, pending, fits>>
    /\ UNCHANGED storeVars /\ UNCHANGED logVars

\* channel.Accept fails only if the client has gone.
AcceptChannel(s) ==
    /\ pc[s] = "granted"
    /\ \/ Goto(s, "accepted")
       \/ "client" \notin peer[s] /\ Goto(s, "done")
    /\ UNCHANGED <<grant, sid, peer, copying, pending, fits>>
    /\ UNCHANGED storeVars /\ UNCHANGED logVars

\* net.Dial; a session gets its ID from its connection and the time.
Dial(s) ==
    /\ pc[s] = "accepted"
    /\ \/ /\ Goto(s, "dialed")
          /\ peer' = [peer EXCEPT ![s] = @ \cup {"target"}]
          /\ sid' = [sid EXCEPT ![s] = <<ConnOf[s], clock>>]
       \/ /\ Goto(s, "done")
          /\ peer' = [peer EXCEPT ![s] = {}]
          /\ UNCHANGED sid
    /\ UNCHANGED <<grant, copying, pending, fits>>
    /\ UNCHANGED storeVars /\ UNCHANGED logVars

-----------------------------------------------------------------------------
(* The logger: an event is stamped and its session's start noted, or taken *)
(* out, under the logger's lock, then added under the store's.  The stamp  *)
(* is the clock's just before the logger's lock; only its own session      *)
(* looks at it there, so the two are one step.                             *)

\* Mutant: the grant is looked up again, by the destination alone.
NewEventLookedUp(s, kind, lasted) ==
    LET ids == {id \in DOMAIN table : MatchTarget(table[id].target, Dest[s])}
    IN  [kind |-> kind, sid |-> sid[s], session |-> s,
         grant |-> IF ids = {} THEN grant[s] ELSE CHOOSE id \in ids : TRUE,
         at |-> clock, lasted |-> lasted]

NewEvent(s, kind, lasted) ==
    [kind |-> kind, sid |-> sid[s], session |-> s, grant |-> grant[s],
     at |-> clock, lasted |-> lasted]

LastOf(seq, n) == IF Len(seq) <= n THEN seq ELSE SubSeq(seq, Len(seq) - n + 1, Len(seq))

\* Mutants: an event is lost, or the store keeps its first ones, when it is full.
AddEventIfRoom(e) ==
    IF Len(events) < LogLimit
    THEN events' = Append(events, e) /\ trail' = Append(trail, e)
    ELSE UNCHANGED <<events, trail>>
AddEventKeepFirst(e) ==
    /\ events' = IF Len(events) < LogLimit THEN Append(events, e) ELSE events
    /\ trail' = Append(trail, e)

\* LogStore.Add.
AddEvent(e) ==
    /\ events' = LastOf(Append(events, e), LogLimit)
    /\ trail' = Append(trail, e)

NoteStart(s) ==
    /\ pc[s] = "dialed"
    /\ Goto(s, "starting")
    /\ starts' = [i \in DOMAIN starts \cup {sid[s]} |->
                     IF i = sid[s] THEN clock ELSE starts[i]]
    /\ pending' = [pending EXCEPT ![s] = NewEvent(s, "connect", 0)]
    /\ UNCHANGED <<grant, sid, peer, copying, fits, events, trail>>
    /\ UNCHANGED storeVars

LogConnect(s) ==
    /\ pc[s] = "starting"
    /\ AddEvent(pending[s])
    /\ Goto(s, "proxying")
    /\ copying' = [copying EXCEPT ![s] = Copies]
    /\ pending' = [pending EXCEPT ![s] = None]
    /\ UNCHANGED <<grant, sid, peer, fits, starts>>
    /\ UNCHANGED storeVars

LastedNothing(s) == 0    \* mutant: the start is not looked up
\* Mutant: the operands of the subtraction are swapped.
LastedBackwards(s) == IF sid[s] \in DOMAIN starts THEN starts[sid[s]] - clock ELSE 0

\* LogDisconnect: a session whose start is not to be found lasted 0.
Lasted(s) == IF sid[s] \in DOMAIN starts THEN clock - starts[sid[s]] ELSE 0

\* Mutant: the start is not deleted.
NoteEndKeepStart(s) ==
    /\ pc[s] = "proxying"
    /\ copying[s] = {}
    /\ Goto(s, "ending")
    /\ pending' = [pending EXCEPT ![s] = NewEvent(s, "disconnect", Lasted(s))]
    /\ UNCHANGED <<grant, sid, peer, copying, fits, starts, events, trail>>
    /\ UNCHANGED storeVars

NoteEnd(s) ==
    /\ pc[s] = "proxying"
    /\ copying[s] = {}
    /\ Goto(s, "ending")
    /\ pending' = [pending EXCEPT ![s] = NewEvent(s, "disconnect", Lasted(s))]
    /\ starts' = [i \in DOMAIN starts \ {sid[s]} |-> starts[i]]
    /\ UNCHANGED <<grant, sid, peer, copying, fits, events, trail>>
    /\ UNCHANGED storeVars

LogDisconnect(s) ==
    /\ pc[s] = "ending"
    /\ AddEvent(pending[s])
    /\ Goto(s, "done")
    /\ peer' = [peer EXCEPT ![s] = {}]
    /\ pending' = [pending EXCEPT ![s] = None]
    /\ UNCHANGED <<grant, sid, copying, fits, starts>>
    /\ UNCHANGED storeVars

-----------------------------------------------------------------------------
(* proxyBidirectional: it returns when both copies have.                   *)

StopCopy(s, copy) ==
    /\ copy \in copying[s]
    /\ copying' = [copying EXCEPT ![s] = @ \ {copy}]
    /\ UNCHANGED <<pc, grant, sid, peer, pending, fits>>
    /\ UNCHANGED storeVars /\ UNCHANGED logVars

\* Mutant: the copy to the client outlives its target.
CopyEndsUp(s) == "client" \notin peer[s] /\ StopCopy(s, "up")

\* A copy reads the end of its source.
CopyEnds(s) ==
    \/ "client" \notin peer[s] /\ StopCopy(s, "up")
    \/ "target" \notin peer[s] /\ StopCopy(s, "down")

\* A copy cannot write what its source still sends.
CopyFails(s) ==
    \/ peer[s] = {"client"} /\ StopCopy(s, "up")
    \/ peer[s] = {"target"} /\ StopCopy(s, "down")

HangUp(s, end) ==
    /\ end \in peer[s]
    /\ peer' = [peer EXCEPT ![s] = @ \ {end}]
    /\ UNCHANGED <<pc, grant, sid, copying, pending, fits>>
    /\ UNCHANGED storeVars /\ UNCHANGED logVars

\* The client's machine goes, and every channel of its connection with it.
Drop(c) ==
    /\ \E s \in Sessions : ConnOf[s] = c /\ "client" \in peer[s]
    /\ peer' = [s \in Sessions |-> IF ConnOf[s] = c THEN peer[s] \ {"client"} ELSE peer[s]]
    /\ UNCHANGED <<pc, grant, sid, copying, pending, fits>>
    /\ UNCHANGED storeVars /\ UNCHANGED logVars

\* The steps of the bastion's own goroutines on behalf of a session.
Serve(s) ==
    \/ CheckGrant(s) \/ AcceptChannel(s) \/ Dial(s) \/ NoteStart(s) \/ LogConnect(s)
    \/ CopyEnds(s) \/ NoteEnd(s) \/ LogDisconnect(s)

Next ==
    \/ GrantsChange
    \/ \E c \in Conns : Drop(c)
    \/ \E s \in Sessions :
          \/ Request(s) \/ Serve(s) \/ CopyFails(s)
          \/ \E end \in Ends : HangUp(s, end)

Spec == Init /\ [][Next]_vars

\* The scheduler runs every goroutine that can run; clients and targets need
\* not send, hang up or go.
Fairness == \A s \in Sessions : WF_vars(Serve(s))

FairSpec == Spec /\ Fairness

-----------------------------------------------------------------------------
(* Properties.                                                             *)

DistinctIds == \A s, u \in Sessions : s # u /\ sid[s] # None => sid[s] # sid[u]

\* Nobody gets through without a grant of his own, and the log names it: the
\* grant that an event names was in the store under that ID, in force and for the
\* user and the destination of the event's session, at some time while the
\* session's channel waited.  The session keeps the ID from its one look at the
\* store, through Accept and Dial, to its last event, while the grant may run
\* out, be revoked or be swept out, and others be issued in its place.
EveryEventHadItsGrant ==
    \A i \in DOMAIN trail : trail[i].grant \in fits[trail[i].session]

\* The log tells every session's story in order and once: a connect for every
\* session that was proxied, before its one disconnect, and at no time more
\* than one session ahead or behind what the sessions are doing.
TrailTellsSessions ==
    \A s \in Sessions :
        LET of(kind) == {i \in DOMAIN trail : trail[i].session = s /\ trail[i].kind = kind}
        IN  /\ of("connect") # {} <=> pc[s] \in {"proxying", "ending"} \/ of("disconnect") # {}
            /\ of("disconnect") # {} => pc[s] = "done"
            /\ pc[s] = "done" /\ sid[s] # None => of("disconnect") # {}
            /\ \A i \in of("connect") : \A j \in of("connect") : i = j
            /\ \A i \in of("disconnect") : \A j \in of("disconnect") : i = j
            /\ \A i \in of("connect"), j \in of("disconnect") : i < j

\* The store keeps the latest events, as many as its limit, in their order.
LogIsTail == events = LastOf(trail, LogLimit)

\* sessionStarts holds exactly the sessions between the two halves of their
\* story, so it does not grow with the sessions served.
StartsAreLive ==
    DistinctIds =>
        DOMAIN starts = {sid[s] : s \in {u \in Sessions : pc[u] \in {"starting", "proxying"}}}

\* A disconnect carries the time since its session's connect.
Timed == \A i, j \in DOMAIN trail :
    /\ trail[i].kind = "connect"
    /\ trail[j].kind = "disconnect"
    /\ trail[i].session = trail[j].session
    => trail[j].lasted = trail[j].at - trail[i].at

DurationsAreLengths == DistinctIds => Timed

\* Once both ends of a session have gone, its end is logged.
EndedSessionIsLogged ==
    \A s \in Sessions :
        pc[s] = "proxying" /\ peer[s] = {} ~> \E i \in DOMAIN trail :
            trail[i].session = s /\ trail[i].kind = "disconnect"

=============================================================================
