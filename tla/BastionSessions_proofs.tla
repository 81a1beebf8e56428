----------------------- MODULE BastionSessions_proofs -----------------------
(***************************************************************************)
(* Proofs about BastionSessions, for every set of connections, channels    *)
(* and grants and every bound: its types, that every event names a grant   *)
(* of its session's user that was in force, that the store holds the       *)
(* latest events, and that the log and the starts tell each session's      *)
(* story, its length included.                                             *)
(***************************************************************************)
EXTENDS BastionSessions, SequenceTheorems, TLAPS

-----------------------------------------------------------------------------
(* The grant store and the event list.                                     *)

\* Whatever is done to the grant store, it stays a table, and time does not
\* go back.
LEMMA StoreStep ==
    ASSUME clock \in Time, IsTable(table), Store!Next
    PROVE  clock' \in Time /\ IsTable(table') /\ clock <= clock'
<1> USE GrantsAssumption DEF Time
<1>1. CASE Store!Tick
  BY <1>1 DEF Store!Tick
<1>2. ASSUME NEW id \in Store!GrantId, NEW p \in Principals, NEW t \in Targets \cup {Any},
             NEW d \in Durations, Store!Issue(id, p, t, d)
      PROVE  clock' \in Time /\ IsTable(table') /\ clock <= clock'
  <2>1. id \in GrantId /\ id[1] \in Nat
    BY DEF Store!GrantId, Store!Time, GrantId
  <2>2. Store!NewGrant(p, t, d, id[1]) \in Grant
    BY <2>1 DEF Store!NewGrant, Grant
  <2> QED
    BY <1>2, <2>1, <2>2 DEF Store!Issue, IsTable
<1>3. ASSUME NEW ids, Store!Keep(ids)
      PROVE  clock' \in Time /\ IsTable(table') /\ clock <= clock'
  BY <1>3 DEF Store!Keep, IsTable
<1> QED
  BY <1>1, <1>2, <1>3 DEF Store!Next, Store!Revoke, Store!Sweep

\* LogStore.Add keeps to its limit.
LEMMA LastOfType ==
    ASSUME NEW S, NEW seq \in Seq(S), NEW n \in Nat \ {0}
    PROVE  LastOf(seq, n) \in Seq(S) /\ Len(LastOf(seq, n)) <= n
<1>1. CASE Len(seq) <= n
  BY <1>1 DEF LastOf
<1>2. CASE ~ (Len(seq) <= n)
  <2> DEFINE m == Len(seq) - n + 1
  <2>1. Len(seq) \in Nat /\ m \in 1..(Len(seq) + 1) /\ m <= Len(seq)
    BY <1>2, LenProperties
  <2>2. LastOf(seq, n) = SubSeq(seq, m, Len(seq))
    BY <1>2 DEF LastOf
  <2>3. \A i \in m..Len(seq) : seq[i] \in S
    BY <2>1, ElementOfSeq
  <2> HIDE DEF m
  <2>4. /\ SubSeq(seq, m, Len(seq)) \in Seq(S)
        /\ Len(SubSeq(seq, m, Len(seq))) = IF m <= Len(seq) THEN Len(seq) - m + 1 ELSE 0
    BY <2>1, <2>3, SubSeqProperties
  <2> QED
    BY <2>1, <2>2, <2>4 DEF m
<1> QED
  BY <1>1, <1>2

-----------------------------------------------------------------------------
(* Types.  A session's ID and grant are set before the steps that put them *)
(* into an event, and a start is never later than the clock, so that no    *)
(* session lasted less than nothing.                                       *)

LetIn(s) == pc[s] \in {"granted", "accepted", "dialed", "starting", "proxying", "ending"}

Carried ==
    /\ \A i \in DOMAIN starts : starts[i] <= clock
    /\ \A s \in Sessions : LetIn(s) => grant[s] \in GrantId
    /\ \A s \in Sessions :
          pc[s] \in {"dialed", "starting", "proxying", "ending"} => sid[s] \in SessionId
    /\ \A s \in Sessions : pc[s] \in {"starting", "ending"} => pending[s] \in Event

TypeInv == TypeOK /\ Carried

\* An event that Add puts into the store is one of its type.
LEMMA AddEventType ==
    ASSUME TypeOK, NEW e \in Event, AddEvent(e)
    PROVE  events' \in Seq(Event) /\ Len(events') <= LogLimit /\ trail' \in Seq(Event)
<1>1. Append(events, e) \in Seq(Event) /\ Append(trail, e) \in Seq(Event)
  BY AppendProperties DEF TypeOK
<1> QED
  BY <1>1, LastOfType, BastionAssumption DEF AddEvent

\* An event is stamped with the present, and lasted no longer than there is time.
LEMMA NewEventType ==
    ASSUME TypeInv, NEW s \in Sessions, sid[s] \in SessionId, grant[s] \in GrantId,
           NEW kind \in {"connect", "disconnect"}, NEW lasted \in Time
    PROVE  NewEvent(s, kind, lasted) \in Event
  BY DEF TypeInv, TypeOK, NewEvent, Event

LEMMA LastedType == ASSUME TypeInv, NEW s \in Sessions PROVE Lasted(s) \in Time
<1>1. CASE sid[s] \in DOMAIN starts
  BY <1>1, GrantsAssumption DEF TypeInv, TypeOK, Carried, Lasted, Time
<1>2. CASE sid[s] \notin DOMAIN starts
  BY <1>2, GrantsAssumption DEF Lasted, Time
<1> QED
  BY <1>1, <1>2

LEMMA TypeStep == TypeInv /\ [Next]_vars => TypeInv'
<1> SUFFICES ASSUME TypeInv, [Next]_vars PROVE TypeInv'
  OBVIOUS
<1> USE DEF storeVars, logVars, sessionVars, Goto
<1> USE DEF TypeInv, TypeOK, Carried, LetIn
<1>1. CASE GrantsChange
  <2>1. clock' \in Time /\ IsTable(table') /\ clock <= clock'
    BY <1>1, StoreStep DEF GrantsChange
  <2>2. \A i \in DOMAIN starts : starts[i] <= clock'
    BY <2>1, GrantsAssumption DEF Time
  <2>3. fits' \in [Sessions -> SUBSET GrantId]
    <3>1. \A s \in Sessions : Fitting(table', clock', s) \subseteq GrantId
      BY <2>1 DEF Fitting, IsTable
    <3> QED
      BY <1>1, <3>1 DEF GrantsChange
  <2> QED
    BY <1>1, <2>1, <2>2, <2>3 DEF GrantsChange
<1>2. ASSUME NEW c \in Conns, Drop(c) PROVE TypeInv'
  BY <1>2 DEF Drop
<1>3. ASSUME NEW s \in Sessions, Request(s) PROVE TypeInv'
  <2>1. Fitting(table, clock, s) \subseteq GrantId
    BY DEF Fitting, IsTable
  <2> QED
    BY <1>3, <2>1 DEF Request, Ends
<1>4. ASSUME NEW s \in Sessions, CheckGrant(s) PROVE TypeInv'
  <2> DEFINE ids == Authorising(table, User[ConnOf[s]], Dest[s], clock)
  <2>1. ASSUME Reject(s) PROVE TypeInv'
    BY <1>4, <2>1 DEF CheckGrant, Reject
  <2>2. ASSUME NEW id \in ids, pc' = [pc EXCEPT ![s] = "granted"], UNCHANGED peer,
               grant' = [grant EXCEPT ![s] = id]
        PROVE  TypeInv'
    <3>1. id \in GrantId
      BY DEF Authorising, IsTable
    <3> QED
      BY <1>4, <2>2, <3>1 DEF CheckGrant
  <2> QED
    BY <1>4, <2>1, <2>2 DEF CheckGrant
<1>5. ASSUME NEW s \in Sessions, AcceptChannel(s) PROVE TypeInv'
  BY <1>5 DEF AcceptChannel
<1>6. ASSUME NEW s \in Sessions, Dial(s) PROVE TypeInv'
  <2>1. <<ConnOf[s], clock>> \in SessionId
    BY BastionAssumption DEF SessionId
  <2>2. peer' \in [Sessions -> SUBSET Ends]
    BY <1>6 DEF Dial, Ends
  <2>3. sid' \in [Sessions -> SessionId \cup {None}]
    BY <1>6, <2>1 DEF Dial
  <2>4. \A u \in Sessions :
          pc'[u] \in {"dialed", "starting", "proxying", "ending"} => sid'[u] \in SessionId
    BY <1>6, <2>1 DEF Dial
  <2> QED
    BY <1>6, <2>2, <2>3, <2>4 DEF Dial
<1>7. ASSUME NEW s \in Sessions, NoteStart(s) PROVE TypeInv'
  <2>1. sid[s] \in SessionId /\ grant[s] \in GrantId /\ 0 \in Time
    BY <1>7, GrantsAssumption DEF NoteStart, Time
  <2>2. NewEvent(s, "connect", 0) \in Event
    BY <2>1, NewEventType
  <2>3. /\ DOMAIN starts' \subseteq SessionId
        /\ \A i \in DOMAIN starts' : starts'[i] \in Time /\ starts'[i] <= clock
    BY <1>7, <2>1, GrantsAssumption DEF NoteStart, Time
  <2> QED
    BY <1>7, <2>1, <2>2, <2>3 DEF NoteStart
<1>8. ASSUME NEW s \in Sessions, LogConnect(s) PROVE TypeInv'
  <2>1. pending[s] \in Event
    BY <1>8 DEF LogConnect
  <2>2. events' \in Seq(Event) /\ Len(events') <= LogLimit /\ trail' \in Seq(Event)
    BY <1>8, <2>1, AddEventType DEF LogConnect
  <2> QED
    BY <1>8, <2>2 DEF LogConnect, Copies
<1>9. ASSUME NEW s \in Sessions, NEW copy, StopCopy(s, copy) PROVE TypeInv'
  BY <1>9 DEF StopCopy
<1>10. ASSUME NEW s \in Sessions, NoteEnd(s) PROVE TypeInv'
  <2>1. sid[s] \in SessionId /\ grant[s] \in GrantId /\ Lasted(s) \in Time
    BY <1>10, LastedType DEF NoteEnd
  <2>2. NewEvent(s, "disconnect", Lasted(s)) \in Event
    BY <2>1, NewEventType
  <2> QED
    BY <1>10, <2>1, <2>2 DEF NoteEnd
<1>11. ASSUME NEW s \in Sessions, LogDisconnect(s) PROVE TypeInv'
  <2>1. pending[s] \in Event
    BY <1>11 DEF LogDisconnect
  <2>2. events' \in Seq(Event) /\ Len(events') <= LogLimit /\ trail' \in Seq(Event)
    BY <1>11, <2>1, AddEventType DEF LogDisconnect
  <2> QED
    BY <1>11, <2>2 DEF LogDisconnect
<1>12. ASSUME NEW s \in Sessions, NEW end \in Ends, HangUp(s, end) PROVE TypeInv'
  BY <1>12 DEF HangUp
<1>13. CASE UNCHANGED vars
  BY <1>13 DEF vars
<1> QED
  BY <1>1, <1>2, <1>3, <1>4, <1>5, <1>6, <1>7, <1>8, <1>9, <1>10, <1>11, <1>12, <1>13
  DEF Next, Serve, CopyEnds, CopyFails

LEMMA TypeInvariance == Spec => []TypeInv
<1>1. Init => TypeInv
  <2> SUFFICES ASSUME Init PROVE TypeInv
    OBVIOUS
  <2>1. clock \in Time /\ IsTable(table)
    BY DEF Init, Store!Init, Store!Time, Time, Store!EmptyTable, IsTable
  <2>2. events \in Seq(Event) /\ trail \in Seq(Event) /\ Len(events) <= LogLimit
    BY BastionAssumption, EmptySeq DEF Init
  <2> QED
    BY <2>1, <2>2 DEF Init, TypeInv, TypeOK, Carried, LetIn
<1> QED
  BY <1>1, TypeStep, PTL DEF Spec

\* Every variable of the bastion keeps its type; no session ever lasted a
\* negative time, and the store never exceeds its limit.
THEOREM TypeCorrect == Spec => []TypeOK
  BY TypeInvariance, PTL DEF TypeInv

-----------------------------------------------------------------------------
(* Every event names a grant that fitted.  The grant is looked at once, so *)
(* its ID must be carried from step to step: by the session while it is    *)
(* served, by the event on its way to the log, and by those in the log.    *)

\* While a channel waits, what fits it is among what has fitted it.
WaitingSees == \A s \in Sessions : pc[s] = "requested" => Fitting(table, clock, s) \subseteq fits[s]

\* A session is served on a grant that fitted it while it waited.
ServedFits == \A s \in Sessions : LetIn(s) => grant[s] \in fits[s]

Covered(e) == pc[e.session] # "idle" /\ e.grant \in fits[e.session]

PendingCovered == \A s \in Sessions : pc[s] \in {"starting", "ending"} => Covered(pending[s])

TrailCovered == \A i \in DOMAIN trail : Covered(trail[i])

GrantInv == WaitingSees /\ ServedFits /\ PendingCovered /\ TrailCovered

\* What has fitted a session is not forgotten once its channel was asked for.
Remembered == \A s \in Sessions : pc[s] # "idle" => pc'[s] # "idle" /\ fits[s] \subseteq fits'[s]

LEMMA CoveredKept ==
    ASSUME Remembered, NEW e \in Event, Covered(e)
    PROVE  pc'[e.session] # "idle" /\ e.grant \in fits'[e.session]
<1>1. e.session \in Sessions
  BY DEF Event
<1> QED
  BY <1>1 DEF Covered, Remembered

\* What is covered stays covered, in the log and of every session whose event
\* is not a new one.
LEMMA TrailKept ==
    ASSUME TypeInv, GrantInv, Remembered, UNCHANGED trail
    PROVE  TrailCovered'
<1> SUFFICES ASSUME NEW i \in DOMAIN trail PROVE Covered(trail[i])'
  BY DEF TrailCovered
<1>1. trail[i] \in Event /\ Covered(trail[i]) /\ trail'[i] = trail[i]
  BY LenProperties, ElementOfSeq DEF TypeInv, TypeOK, GrantInv, TrailCovered
<1> QED
  BY <1>1, CoveredKept DEF Covered

LEMMA PendingKept ==
    ASSUME TypeInv, GrantInv, Remembered, NEW s \in Sessions, pc[s] \in {"starting", "ending"},
           pending'[s] = pending[s]
    PROVE  Covered(pending[s])'
<1>1. pending[s] \in Event /\ Covered(pending[s])
  BY DEF GrantInv, PendingCovered, TypeInv, Carried
<1> QED
  BY <1>1, CoveredKept DEF Covered

\* A step in which no session is let in, nothing is logged, and no event is
\* made: sessions may go on, but only those that have been let in.
LEMMA GrantInvCarried ==
    ASSUME TypeInv, GrantInv, Remembered, WaitingSees', UNCHANGED trail,
           \A s \in Sessions :
              /\ LetIn(s)' => LetIn(s) /\ grant'[s] = grant[s]
              /\ pc'[s] \in {"starting", "ending"} =>
                    pc[s] \in {"starting", "ending"} /\ pending'[s] = pending[s]
    PROVE  GrantInv'
<1>1. ServedFits'
  BY DEF GrantInv, ServedFits, Remembered, LetIn
<1>2. PendingCovered'
  BY PendingKept DEF PendingCovered
<1>3. TrailCovered'
  BY TrailKept
<1> QED
  BY <1>1, <1>2, <1>3 DEF GrantInv

\* A step that leaves the grant store alone and asks for no channel.
LEMMA StoreAlone ==
    ASSUME TypeInv, GrantInv, UNCHANGED <<clock, table, fits>>,
           \A s \in Sessions : /\ pc'[s] = "requested" => pc[s] = "requested"
                               /\ pc[s] # "idle" => pc'[s] # "idle"
    PROVE  Remembered /\ WaitingSees'
  BY DEF Remembered, GrantInv, WaitingSees, Fitting

LEMMA CheckGrantKeeps ==
    ASSUME TypeInv, GrantInv, NEW s \in Sessions, CheckGrant(s)
    PROVE  GrantInv'
<1> USE DEF storeVars, logVars, Goto
<1> DEFINE ids == Authorising(table, User[ConnOf[s]], Dest[s], clock)
<1>0. pc[s] = "requested" /\ UNCHANGED <<clock, table, fits, trail, pending>>
  BY DEF CheckGrant
<1>1. ASSUME Reject(s) PROVE GrantInv'
  <2>1. grant' = grant /\ \A u \in Sessions : pc'[u] = IF u = s THEN "rejected" ELSE pc[u]
    BY <1>1 DEF Reject, TypeInv, TypeOK
  <2> QED
    BY <1>0, <2>1, StoreAlone, GrantInvCarried DEF LetIn
<1>2. ASSUME NEW id \in ids, pc' = [pc EXCEPT ![s] = "granted"],
             grant' = [grant EXCEPT ![s] = id]
      PROVE  GrantInv'
  <2>1. \A u \in Sessions : /\ pc'[u] = IF u = s THEN "granted" ELSE pc[u]
                            /\ grant'[u] = IF u = s THEN id ELSE grant[u]
    BY <1>2 DEF TypeInv, TypeOK
  <2>2. id \in Fitting(table, clock, s)
    <3>1. /\ id \in DOMAIN table /\ ~ Expired(table[id], clock)
          /\ table[id].principal = User[ConnOf[s]] /\ MatchTarget(table[id].target, Dest[s])
      BY DEF Authorising
    <3>2. clock <= table[id].expiresAt
      BY <3>1, GrantsAssumption DEF Expired, TypeInv, TypeOK, IsTable, Grant, Time
    <3> QED
      BY <3>1, <3>2 DEF Fitting, MatchTarget
  <2>3. id \in fits[s]
    BY <1>0, <2>2 DEF GrantInv, WaitingSees
  <2>4. Remembered /\ WaitingSees'
    BY <1>0, <2>1, StoreAlone
  <2>5. ServedFits'
    BY <1>0, <2>1, <2>3 DEF GrantInv, ServedFits, LetIn
  <2>6. PendingCovered'
    <3> SUFFICES ASSUME NEW u \in Sessions, pc'[u] \in {"starting", "ending"}
                 PROVE  Covered(pending[u])'
      BY DEF PendingCovered
    <3> QED
      BY <1>0, <2>1, <2>4, PendingKept
  <2>7. TrailCovered'
    BY <1>0, <2>4, TrailKept
  <2> QED
    BY <2>4, <2>5, <2>6, <2>7 DEF GrantInv
<1> QED
  BY <1>1, <1>2 DEF CheckGrant

\* The two steps in which a session makes an event.
LEMMA NoteKeeps ==
    ASSUME TypeInv, GrantInv, NEW s \in Sessions, LetIn(s), NEW kind, NEW lasted,
           NEW step \in {"starting", "ending"}, Goto(s, step),
           pending' = [pending EXCEPT ![s] = NewEvent(s, kind, lasted)],
           UNCHANGED <<clock, table, fits, grant, trail>>
    PROVE  GrantInv'
<1>1. \A u \in Sessions :
        /\ pc'[u] = IF u = s THEN step ELSE pc[u]
        /\ pending'[u] = IF u = s THEN NewEvent(s, kind, lasted) ELSE pending[u]
  BY DEF Goto, TypeInv, TypeOK
<1>2. Covered(NewEvent(s, kind, lasted))
  BY DEF GrantInv, ServedFits, NewEvent, Covered, LetIn
<1>3. Remembered /\ WaitingSees'
  BY <1>1, StoreAlone
<1>4. ServedFits'
  BY <1>1 DEF GrantInv, ServedFits, LetIn
<1>5. PendingCovered'
  <2> SUFFICES ASSUME NEW u \in Sessions, pc'[u] \in {"starting", "ending"}
               PROVE  Covered(pending[u])'
    BY DEF PendingCovered
  <2>1. CASE u = s
    <3>1. NewEvent(s, kind, lasted).session = s
      BY DEF NewEvent
    <3> QED
      BY <1>1, <1>2, <2>1, <3>1 DEF Covered
  <2>2. CASE u # s
    BY <1>1, <1>3, <2>2, PendingKept
  <2> QED
    BY <2>1, <2>2
<1>6. TrailCovered'
  BY <1>3, TrailKept
<1> QED
  BY <1>3, <1>4, <1>5, <1>6 DEF GrantInv

\* The two steps in which a session's event is put into the log.
LEMMA LogKeeps ==
    ASSUME TypeInv, GrantInv, NEW s \in Sessions, pc[s] \in {"starting", "ending"},
           NEW step \in {"proxying", "done"}, Goto(s, step), AddEvent(pending[s]),
           pending' = [pending EXCEPT ![s] = None], UNCHANGED <<clock, table, fits, grant>>
    PROVE  GrantInv'
<1>1. \A u \in Sessions : /\ pc'[u] = IF u = s THEN step ELSE pc[u]
                          /\ pending'[u] = IF u = s THEN None ELSE pending[u]
  BY DEF Goto, TypeInv, TypeOK
<1>2. Remembered /\ WaitingSees'
  BY <1>1, StoreAlone
<1>3. ServedFits'
  BY <1>1 DEF GrantInv, ServedFits, LetIn
<1>4. PendingCovered'
  <2> SUFFICES ASSUME NEW u \in Sessions, pc'[u] \in {"starting", "ending"}
               PROVE  Covered(pending[u])'
    BY DEF PendingCovered
  <2> QED
    BY <1>1, <1>2, PendingKept
<1>5. TrailCovered'
  <2>1. pending[s] \in Event /\ Covered(pending[s]) /\ trail \in Seq(Event)
    BY DEF TypeInv, TypeOK, Carried, GrantInv, PendingCovered
  <2>2. /\ trail' = Append(trail, pending[s])
        /\ Len(trail) \in Nat /\ Len(trail') = Len(trail) + 1 /\ trail' \in Seq(Event)
        /\ \A i \in 1..Len(trail) : trail'[i] = trail[i]
        /\ trail'[Len(trail) + 1] = pending[s]
    BY <2>1, AppendProperties, LenProperties DEF AddEvent
  <2>3. DOMAIN trail = 1..Len(trail) /\ DOMAIN trail' = 1..(Len(trail) + 1)
    BY <2>1, <2>2, LenProperties
  <2>4. ASSUME NEW i \in DOMAIN trail'
        PROVE  trail'[i] \in Event /\ Covered(trail'[i])
    <3>1. CASE i = Len(trail) + 1
      BY <2>1, <2>2, <3>1
    <3>2. CASE i # Len(trail) + 1
      <4>1. i \in 1..Len(trail)
        BY <2>2, <2>3, <3>2
      <4> QED
        BY <2>1, <2>2, <2>3, <4>1, ElementOfSeq DEF GrantInv, TrailCovered
    <3> QED
      BY <3>1, <3>2
  <2> QED
    BY <1>2, <2>4, CoveredKept DEF TrailCovered, Covered
<1> QED
  BY <1>2, <1>3, <1>4, <1>5 DEF GrantInv

LEMMA GrantInvStep == TypeInv /\ GrantInv /\ [Next]_vars => GrantInv'
<1> SUFFICES ASSUME TypeInv, GrantInv, [Next]_vars PROVE GrantInv'
  OBVIOUS
<1> USE DEF storeVars, logVars, sessionVars
<1>1. CASE GrantsChange
  <2>1. \A s \in Sessions :
          fits'[s] = IF pc[s] = "requested" THEN fits[s] \cup Fitting(table', clock', s)
                     ELSE fits[s]
    BY <1>1 DEF GrantsChange
  <2>2. Remembered /\ WaitingSees'
    BY <1>1, <2>1 DEF GrantsChange, Remembered, WaitingSees, Fitting
  <2> QED
    BY <1>1, <2>2, GrantInvCarried DEF GrantsChange, LetIn
<1>2. ASSUME NEW c \in Conns, Drop(c) PROVE GrantInv'
  BY <1>2, StoreAlone, GrantInvCarried DEF Drop, LetIn
<1>3. ASSUME NEW s \in Sessions, Request(s) PROVE GrantInv'
  <2>1. \A u \in Sessions :
          /\ pc'[u] = IF u = s THEN "requested" ELSE pc[u]
          /\ fits'[u] = IF u = s THEN Fitting(table, clock, s) ELSE fits[u]
    BY <1>3 DEF Request, Goto, TypeInv, TypeOK
  <2>2. Remembered
    BY <1>3, <2>1 DEF Request, Remembered
  <2>3. WaitingSees'
    <3>1. \A u \in Sessions : Fitting(table', clock', u) = Fitting(table, clock, u)
      BY <1>3 DEF Request
    <3>2. \A u \in Sessions : pc[u] = "requested" => Fitting(table, clock, u) \subseteq fits[u]
      BY DEF GrantInv, WaitingSees
    <3>3. \A u \in Sessions :
            pc'[u] = "requested" => Fitting(table, clock, u) \subseteq fits'[u]
      BY <2>1, <3>2
    <3>4. \A u \in Sessions :
            pc'[u] = "requested" => Fitting(table', clock', u) \subseteq fits'[u]
      BY <3>1, <3>3
    <3> QED
      BY <3>4 DEF WaitingSees, Fitting
  <2> QED
    BY <1>3, <2>1, <2>2, <2>3, GrantInvCarried DEF Request, LetIn
<1>4. ASSUME NEW s \in Sessions, AcceptChannel(s) \/ Dial(s) PROVE GrantInv'
  <2>1. /\ UNCHANGED <<clock, table, fits, grant, trail, pending>>
        /\ \/ pc[s] = "granted" /\ (Goto(s, "accepted") \/ Goto(s, "done"))
           \/ pc[s] = "accepted" /\ (Goto(s, "dialed") \/ Goto(s, "done"))
    BY <1>4 DEF AcceptChannel, Dial
  <2>2. \A u \in Sessions :
          /\ LetIn(u)' => LetIn(u)
          /\ pc'[u] = "requested" => pc[u] = "requested"
          /\ pc[u] # "idle" => pc'[u] # "idle"
          /\ pc'[u] \in {"starting", "ending"} => pc[u] \in {"starting", "ending"}
    BY <2>1 DEF Goto, LetIn, TypeInv, TypeOK
  <2> QED
    BY <2>1, <2>2, StoreAlone, GrantInvCarried
<1>5. ASSUME NEW s \in Sessions, CheckGrant(s) PROVE GrantInv'
  BY <1>5, CheckGrantKeeps
<1>6. ASSUME NEW s \in Sessions, NoteStart(s) PROVE GrantInv'
  BY <1>6, NoteKeeps DEF NoteStart, LetIn
<1>7. ASSUME NEW s \in Sessions, NoteEnd(s) PROVE GrantInv'
  BY <1>7, NoteKeeps DEF NoteEnd, LetIn
<1>8. ASSUME NEW s \in Sessions, LogConnect(s) PROVE GrantInv'
  BY <1>8, LogKeeps DEF LogConnect
<1>9. ASSUME NEW s \in Sessions, LogDisconnect(s) PROVE GrantInv'
  BY <1>9, LogKeeps DEF LogDisconnect
<1>10. ASSUME NEW s \in Sessions, NEW copy, StopCopy(s, copy) PROVE GrantInv'
  BY <1>10, StoreAlone, GrantInvCarried DEF StopCopy, LetIn
<1>11. ASSUME NEW s \in Sessions, NEW end \in Ends, HangUp(s, end) PROVE GrantInv'
  BY <1>11, StoreAlone, GrantInvCarried DEF HangUp, LetIn
<1>12. CASE UNCHANGED vars
  BY <1>12, StoreAlone, GrantInvCarried DEF vars, LetIn
<1> QED
  BY <1>1, <1>2, <1>3, <1>4, <1>5, <1>6, <1>7, <1>8, <1>9, <1>10, <1>11, <1>12
  DEF Next, Serve, CopyEnds, CopyFails

\* proxy.go, handleDirectTCPIP: the grant that the log names for a session was,
\* under that ID, a grant of its user for its destination, in force while its
\* channel waited, although it may have run out or been revoked at any time
\* since and others been issued.
THEOREM EventsHadTheirGrants == Spec => []EveryEventHadItsGrant
<1>1. Init => GrantInv
  BY DEF Init, GrantInv, WaitingSees, ServedFits, PendingCovered, TrailCovered, LetIn
<1>2. GrantInv => EveryEventHadItsGrant
  BY DEF GrantInv, TrailCovered, Covered, EveryEventHadItsGrant
<1> QED
  BY <1>1, <1>2, GrantInvStep, TypeInvariance, PTL DEF Spec

-----------------------------------------------------------------------------
(* The event store holds the tail of all that was ever logged.             *)

\* What LastOf keeps, by position.
LEMMA LastOfAt ==
    ASSUME NEW S, NEW seq \in Seq(S), NEW n \in Nat \ {0}
    PROVE  /\ Len(LastOf(seq, n)) = IF Len(seq) <= n THEN Len(seq) ELSE n
           /\ \A i \in 1..Len(LastOf(seq, n)) :
                 /\ Len(seq) - Len(LastOf(seq, n)) + i \in 1..Len(seq)
                 /\ LastOf(seq, n)[i] = seq[Len(seq) - Len(LastOf(seq, n)) + i]
<1>0. Len(seq) \in Nat
  BY LenProperties
<1>1. CASE Len(seq) <= n
  BY <1>0, <1>1 DEF LastOf
<1>2. CASE ~ (Len(seq) <= n)
  <2> DEFINE m == Len(seq) - n + 1
  <2>1. m \in 1..Len(seq) /\ LastOf(seq, n) = SubSeq(seq, m, Len(seq)) /\ Len(seq) - m + 1 = n
    BY <1>0, <1>2 DEF LastOf
  <2>2. \A i \in m..Len(seq) : seq[i] \in S
    BY <1>0, <2>1, ElementOfSeq
  <2> HIDE DEF m
  <2>3. /\ Len(SubSeq(seq, m, Len(seq))) = IF m <= Len(seq) THEN Len(seq) - m + 1 ELSE 0
        /\ \A i \in 1..(Len(seq) - m + 1) : SubSeq(seq, m, Len(seq))[i] = seq[m + i - 1]
    BY <1>0, <2>1, <2>2, SubSeqProperties
  <2>4. Len(LastOf(seq, n)) = n /\ \A i \in 1..n : LastOf(seq, n)[i] = seq[m + i - 1]
    BY <1>0, <2>1, <2>3
  <2> QED
    BY <1>0, <1>2, <2>4 DEF m
<1> QED
  BY <1>1, <1>2

\* Cutting before an entry is added changes nothing of what is kept after.
LEMMA LastOfAppend ==
    ASSUME NEW S, NEW seq \in Seq(S), NEW e \in S, NEW n \in Nat \ {0}
    PROVE  LastOf(Append(LastOf(seq, n), e), n) = LastOf(Append(seq, e), n)
<1> DEFINE kept == LastOf(seq, n)
           short == Append(kept, e)
           long == Append(seq, e)
<1>1. kept \in Seq(S) /\ Len(seq) \in Nat /\ Len(kept) \in Nat
  BY LastOfType, LenProperties
<1>2. /\ Len(kept) = IF Len(seq) <= n THEN Len(seq) ELSE n
      /\ \A i \in 1..Len(kept) : Len(seq) - Len(kept) + i \in 1..Len(seq)
                                /\ kept[i] = seq[Len(seq) - Len(kept) + i]
  BY LastOfAt
<1>3. /\ short \in Seq(S) /\ Len(short) = Len(kept) + 1 /\ short[Len(kept) + 1] = e
      /\ \A i \in 1..Len(kept) : short[i] = kept[i]
  BY <1>1, AppendProperties
<1>4. /\ long \in Seq(S) /\ Len(long) = Len(seq) + 1 /\ long[Len(seq) + 1] = e
      /\ \A i \in 1..Len(seq) : long[i] = seq[i]
  BY <1>1, AppendProperties
<1> HIDE DEF kept, short, long
<1>5. /\ Len(LastOf(short, n)) = IF Len(short) <= n THEN Len(short) ELSE n
      /\ \A i \in 1..Len(LastOf(short, n)) :
            /\ Len(short) - Len(LastOf(short, n)) + i \in 1..Len(short)
            /\ LastOf(short, n)[i] = short[Len(short) - Len(LastOf(short, n)) + i]
  BY <1>3, LastOfAt
<1>6. /\ Len(LastOf(long, n)) = IF Len(long) <= n THEN Len(long) ELSE n
      /\ \A i \in 1..Len(LastOf(long, n)) :
            /\ Len(long) - Len(LastOf(long, n)) + i \in 1..Len(long)
            /\ LastOf(long, n)[i] = long[Len(long) - Len(LastOf(long, n)) + i]
  BY <1>4, LastOfAt
<1>7. Len(LastOf(short, n)) = Len(LastOf(long, n))
  BY <1>1, <1>2, <1>3, <1>4, <1>5, <1>6
\* From the end, both sequences hold the same.
<1>8. \A j \in 0..Len(kept) : short[Len(short) - j] = long[Len(long) - j]
  <2> TAKE j \in 0..Len(kept)
  <2>1. CASE j = 0
    BY <1>1, <1>3, <1>4, <2>1
  <2>2. CASE j # 0
    <3>1. Len(kept) + 1 - j \in 1..Len(kept) /\ Len(seq) + 1 - j \in 1..Len(seq)
      BY <1>1, <1>2, <2>2
    <3>2. short[Len(kept) + 1 - j] = kept[Len(kept) + 1 - j]
      BY <1>3, <3>1
    <3>3. kept[Len(kept) + 1 - j] = seq[Len(seq) - Len(kept) + (Len(kept) + 1 - j)]
      BY <1>2, <3>1
    <3>4. Len(seq) - Len(kept) + (Len(kept) + 1 - j) = Len(seq) + 1 - j
      BY <1>1
    <3>5. long[Len(seq) + 1 - j] = seq[Len(seq) + 1 - j]
      BY <1>4, <3>1
    <3> QED
      BY <1>3, <1>4, <3>2, <3>3, <3>4, <3>5
  <2> QED
    BY <2>1, <2>2
<1>9. ASSUME NEW i \in 1..Len(LastOf(short, n))
      PROVE  LastOf(short, n)[i] = LastOf(long, n)[i]
  <2> DEFINE j == Len(LastOf(short, n)) - i
  <2>1. j \in 0..Len(kept)
    BY <1>1, <1>2, <1>3, <1>5
  <2>2. LastOf(short, n)[i] = short[Len(short) - j]
    <3>1. Len(short) - Len(LastOf(short, n)) + i = Len(short) - j
      BY <1>1, <1>3, <1>5
    <3> QED
      BY <1>5, <3>1
  <2>3. LastOf(long, n)[i] = long[Len(long) - j]
    <3>1. Len(long) - Len(LastOf(long, n)) + i = Len(long) - j
      BY <1>1, <1>4, <1>6, <1>7
    <3> QED
      BY <1>6, <1>7, <3>1
  <2> QED
    BY <1>8, <2>1, <2>2, <2>3
<1>10. LastOf(short, n) \in Seq(S) /\ LastOf(long, n) \in Seq(S)
  BY <1>3, <1>4, LastOfType
<1>11. LastOf(short, n) = LastOf(long, n)
  BY <1>7, <1>9, <1>10, SeqEqual
<1> QED
  BY <1>11 DEF kept, short, long

\* Only the two log calls touch the store.
LEMMA LogTailStep ==
    ASSUME TypeInv, LogIsTail, [Next]_vars
    PROVE  LogIsTail'
<1>1. ASSUME NEW s \in Sessions, pc[s] \in {"starting", "ending"}, AddEvent(pending[s])
      PROVE  LogIsTail'
  BY <1>1, LastOfAppend, BastionAssumption
     DEF AddEvent, LogIsTail, TypeInv, TypeOK, Carried
<1>2. CASE UNCHANGED <<events, trail>>
  BY <1>2 DEF LogIsTail
<1>3. \/ UNCHANGED <<events, trail>>
      \/ \E s \in Sessions : pc[s] \in {"starting", "ending"} /\ AddEvent(pending[s])
  BY DEF Next, Serve, vars, logVars, sessionVars, GrantsChange, Drop, Request, CheckGrant,
         Reject, AcceptChannel, Dial, NoteStart, LogConnect, StopCopy, NoteEnd,
         LogDisconnect, HangUp, CopyEnds, CopyFails
<1> QED
  BY <1>1, <1>2, <1>3

\* logger.go, LogStore.Add: at its limit the store drops its oldest events and
\* nothing else, whatever order the sessions log in.
THEOREM LogIsAlwaysTail == Spec => []LogIsTail
<1>1. Init => LogIsTail
  BY EmptySeq, BastionAssumption DEF Init, LogIsTail, LastOf
<1>2. TypeInv /\ LogIsTail /\ [Next]_vars => LogIsTail'
  BY LogTailStep
<1> QED
  BY <1>1, <1>2, TypeInvariance, PTL DEF Spec

-----------------------------------------------------------------------------
(* What the log tells of each session.  The four steps of the logger are   *)
(* the only ones that touch the starts and the trail, and each is taken in *)
(* a step of its session that no other session can see.                    *)

Of(s, kind) == {i \in DOMAIN trail : trail[i].session = s /\ trail[i].kind = kind}

Early == {"idle", "requested", "granted", "accepted", "rejected"}

\* A session has no ID before it has dialed.
NoIdYet == \A s \in Sessions : pc[s] \in Early => sid[s] = None

\* A step before the logging: the session goes on, gives up, or dials.
EarlyStep(s) ==
    /\ pc[s] \in Early
    /\ UNCHANGED <<pending, starts, trail>>
    /\ \/ /\ UNCHANGED sid
          /\ \E step \in Early \cup {"done"} : pc' = [pc EXCEPT ![s] = step]
       \/ /\ pc' = [pc EXCEPT ![s] = "dialed"]
          /\ \E id \in SessionId : sid' = [sid EXCEPT ![s] = id]

\* The steps that the log is concerned with, and the rest.
LEMMA StepKinds ==
    ASSUME TypeInv, [Next]_vars
    PROVE  \/ UNCHANGED <<pc, sid, pending, starts, trail>>
           \/ \E s \in Sessions : \/ EarlyStep(s) \/ NoteStart(s) \/ LogConnect(s)
                                  \/ NoteEnd(s) \/ LogDisconnect(s)
<1> USE DEF storeVars, logVars, sessionVars, Goto
<1>1. CASE UNCHANGED vars
  BY <1>1 DEF vars
<1>2. CASE GrantsChange
  BY <1>2 DEF GrantsChange
<1>3. ASSUME NEW c \in Conns, Drop(c) PROVE UNCHANGED <<pc, sid, pending, starts, trail>>
  BY <1>3 DEF Drop
<1>4. ASSUME NEW s \in Sessions, Request(s) PROVE EarlyStep(s)
  BY <1>4 DEF Request, EarlyStep, Early
<1>5. ASSUME NEW s \in Sessions, CheckGrant(s) PROVE EarlyStep(s)
  BY <1>5 DEF CheckGrant, Reject, EarlyStep, Early
<1>6. ASSUME NEW s \in Sessions, AcceptChannel(s) PROVE EarlyStep(s)
  BY <1>6 DEF AcceptChannel, EarlyStep, Early
<1>7. ASSUME NEW s \in Sessions, Dial(s) PROVE EarlyStep(s)
  <2>1. <<ConnOf[s], clock>> \in SessionId
    BY BastionAssumption DEF SessionId, TypeInv, TypeOK
  <2> QED
    BY <1>7, <2>1 DEF Dial, EarlyStep, Early
<1>8. ASSUME NEW s \in Sessions, NEW copy, StopCopy(s, copy)
      PROVE  UNCHANGED <<pc, sid, pending, starts, trail>>
  BY <1>8 DEF StopCopy
<1>9. ASSUME NEW s \in Sessions, NEW end \in Ends, HangUp(s, end)
      PROVE  UNCHANGED <<pc, sid, pending, starts, trail>>
  BY <1>9 DEF HangUp
<1> QED
  BY <1>1, <1>2, <1>3, <1>4, <1>5, <1>6, <1>7, <1>8, <1>9
  DEF Next, Serve, CopyEnds, CopyFails

\* An event that is added is the last of the trail.
LEMMA OfAppend ==
    ASSUME TypeInv, NEW e \in Event, AddEvent(e)
    PROVE  /\ Len(trail) \in Nat
           /\ \A i \in DOMAIN trail : i \in Nat /\ i < Len(trail) + 1 /\ trail'[i] = trail[i]
           /\ trail'[Len(trail) + 1] = e
           /\ \A s \in Sessions, kind \in {"connect", "disconnect"} :
                 Of(s, kind)' = IF e.session = s /\ e.kind = kind
                                THEN Of(s, kind) \cup {Len(trail) + 1} ELSE Of(s, kind)
<1>1. trail \in Seq(Event) /\ trail' = Append(trail, e)
  BY DEF AddEvent, TypeInv, TypeOK
<1>2. /\ Len(trail) \in Nat /\ DOMAIN trail = 1..Len(trail)
      /\ trail' \in Seq(Event) /\ Len(trail') = Len(trail) + 1
      /\ trail'[Len(trail) + 1] = e /\ \A i \in 1..Len(trail) : trail'[i] = trail[i]
  BY <1>1, LenProperties, AppendProperties
<1>3. DOMAIN trail' = (DOMAIN trail) \cup {Len(trail) + 1}
  BY <1>2, LenProperties
<1>4. Len(trail) + 1 \notin DOMAIN trail
  BY <1>2
<1> QED
  BY <1>2, <1>3, <1>4 DEF Of

\* The event on its way is the session's own.
OwnPending == \A s \in Sessions :
    /\ pc[s] = "starting" => pending[s].session = s /\ pending[s].kind = "connect"
    /\ pc[s] = "ending" => pending[s].session = s /\ pending[s].kind = "disconnect"

Told(s) ==
    /\ Of(s, "connect") # {} <=> pc[s] \in {"proxying", "ending"} \/ Of(s, "disconnect") # {}
    /\ Of(s, "disconnect") # {} => pc[s] = "done"
    /\ pc[s] = "done" /\ sid[s] # None => Of(s, "disconnect") # {}
    /\ \A i \in Of(s, "connect") : \A j \in Of(s, "connect") : i = j
    /\ \A i \in Of(s, "disconnect") : \A j \in Of(s, "disconnect") : i = j
    /\ \A i \in Of(s, "connect"), j \in Of(s, "disconnect") : i < j

StoryInv == NoIdYet /\ OwnPending /\ \A s \in Sessions : Told(s)

LEMMA StoryStep ==
    ASSUME TypeInv, StoryInv, [Next]_vars
    PROVE  StoryInv'
<1> USE DEF Goto
<1>0. PICK Steps : pc \in [Sessions -> Steps] /\ sid \in [Sessions -> SessionId \cup {None}]
  BY DEF TypeInv, TypeOK
<1>1. CASE UNCHANGED <<pc, sid, pending, starts, trail>>
  BY <1>1 DEF StoryInv, NoIdYet, OwnPending, Told, Of
<1>2. ASSUME NEW s \in Sessions, EarlyStep(s) PROVE StoryInv'
  <2>1. NoIdYet' /\ OwnPending'
    BY <1>0, <1>2, BastionAssumption DEF EarlyStep, Early, StoryInv, NoIdYet, OwnPending
  <2>2. ASSUME NEW u \in Sessions PROVE Told(u)'
    <3>1. \A kind : Of(u, kind)' = Of(u, kind)
      BY <1>2 DEF EarlyStep, Of
    <3> QED
      BY <1>0, <1>2, <3>1 DEF EarlyStep, Early, StoryInv, NoIdYet, Told
  <2> QED
    BY <2>1, <2>2 DEF StoryInv
<1>3. ASSUME NEW s \in Sessions, NoteStart(s) \/ NoteEnd(s) PROVE StoryInv'
  <2>1. NoIdYet'
    BY <1>0, <1>3 DEF NoteStart, NoteEnd, Early, StoryInv, NoIdYet
  <2>2. OwnPending'
    BY <1>0, <1>3 DEF NoteStart, NoteEnd, NewEvent, StoryInv, OwnPending, TypeInv, TypeOK
  <2>3. ASSUME NEW u \in Sessions PROVE Told(u)'
    <3>1. \A kind : Of(u, kind)' = Of(u, kind)
      BY <1>3 DEF NoteStart, NoteEnd, Of
    <3> QED
      BY <1>0, <1>3, <3>1 DEF NoteStart, NoteEnd, StoryInv, Told
  <2> QED
    BY <2>1, <2>2, <2>3 DEF StoryInv
<1>4. ASSUME NEW s \in Sessions, LogConnect(s) \/ LogDisconnect(s) PROVE StoryInv'
  <2> DEFINE e == pending[s]
             last == Len(trail) + 1
  <2>1. e \in Event /\ AddEvent(e) /\ e.session = s
    BY <1>4 DEF LogConnect, LogDisconnect, TypeInv, Carried, StoryInv, OwnPending
  <2>2. /\ Len(trail) \in Nat /\ \A i \in DOMAIN trail : i \in Nat /\ i < last
        /\ \A u \in Sessions, kind \in {"connect", "disconnect"} :
              Of(u, kind)' = IF e.session = u /\ e.kind = kind
                             THEN Of(u, kind) \cup {last} ELSE Of(u, kind)
        /\ \A u, kind : Of(u, kind) \subseteq DOMAIN trail
    BY <2>1, OfAppend DEF Of
  <2> HIDE DEF e, last
  <2>3. NoIdYet' /\ OwnPending'
    BY <1>0, <1>4 DEF LogConnect, LogDisconnect, Early, StoryInv, NoIdYet, OwnPending, TypeInv,
                      TypeOK
  <2>4. ASSUME NEW u \in Sessions, u # s PROVE Told(u)'
    <3>1. Of(u, "connect")' = Of(u, "connect") /\ Of(u, "disconnect")' = Of(u, "disconnect")
      BY <2>1, <2>2, <2>4
    <3> QED
      BY <1>0, <1>4, <2>4, <3>1 DEF LogConnect, LogDisconnect, StoryInv, Told
  <2>5. CASE LogConnect(s)
    <3>1. e.kind = "connect" /\ Of(s, "connect") = {} /\ Of(s, "disconnect") = {}
      BY <2>5 DEF LogConnect, StoryInv, OwnPending, Told, e
    <3>2. Of(s, "connect")' = {last} /\ Of(s, "disconnect")' = {}
      BY <2>1, <2>2, <3>1
    <3> QED
      BY <1>0, <2>3, <2>4, <2>5, <3>2 DEF LogConnect, StoryInv, Told
  <2>6. CASE LogDisconnect(s)
    <3>1. /\ e.kind = "disconnect" /\ Of(s, "connect") # {} /\ Of(s, "disconnect") = {}
          /\ \A i, j \in Of(s, "connect") : i = j
      BY <2>6 DEF LogDisconnect, StoryInv, OwnPending, Told, e
    <3>2. Of(s, "connect")' = Of(s, "connect") /\ Of(s, "disconnect")' = {last}
      BY <2>1, <2>2, <3>1
    <3>3. \A i \in Of(s, "connect") : i < last
      BY <2>2
    <3>4. Told(s)'
      BY <1>0, <2>6, <3>1, <3>2, <3>3 DEF LogDisconnect, Told
    <3> QED
      BY <2>3, <2>4, <3>4 DEF StoryInv
  <2> QED
    BY <1>4, <2>5, <2>6
<1> QED
  BY <1>1, <1>2, <1>3, <1>4, StepKinds

LEMMA StoryAlways == Spec => [](TypeInv /\ StoryInv)
<1>1. Init => StoryInv
  BY DEF Init, StoryInv, NoIdYet, OwnPending, Told, Of, Early
<1>2. TypeInv /\ StoryInv /\ [Next]_vars => StoryInv'
  BY StoryStep
<1> QED
  BY <1>1, <1>2, TypeInvariance, PTL DEF Spec

\* logger.go: whatever the sessions do at the same time, the log tells each
\* story once, its connect before its disconnect, and never the end of one that
\* has not ended.
THEOREM StoriesAreTold == Spec => []TrailTellsSessions
<1>1. StoryInv => TrailTellsSessions
  BY DEF StoryInv, Told, Of, TrailTellsSessions
<1> QED
  BY <1>1, StoryAlways, PTL

-----------------------------------------------------------------------------
(* The starts and the durations, of sessions whose IDs are distinct.  An   *)
(* ID is taken once and kept, so IDs that are distinct always were.        *)

Live(s) == pc[s] \in {"starting", "proxying"}

StartsInv == DistinctIds =>
    /\ \A i \in DOMAIN starts : \E s \in Sessions : Live(s) /\ sid[s] = i
    /\ \A s \in Sessions : Live(s) => sid[s] \in DOMAIN starts

\* How long a session has lasted is known from its start, then from its event.
LengthKnown(s) ==
    /\ pc[s] = "starting" => pending[s].at = starts[sid[s]]
    /\ pc[s] = "proxying" => \A i \in Of(s, "connect") : trail[i].at = starts[sid[s]]
    /\ pc[s] = "ending" =>
          \A i \in Of(s, "connect") : pending[s].lasted = pending[s].at - trail[i].at
    /\ \A i \in Of(s, "connect"), j \in Of(s, "disconnect") :
          trail[j].lasted = trail[j].at - trail[i].at

LengthInv == DistinctIds => \A s \in Sessions : LengthKnown(s)

LEMMA DistinctBefore ==
    ASSUME TypeInv, NoIdYet, [Next]_vars, DistinctIds'
    PROVE  DistinctIds
<1>1. \A s \in Sessions : sid[s] # None => sid'[s] = sid[s]
  BY StepKinds DEF EarlyStep, NoteStart, LogConnect, NoteEnd, LogDisconnect, NoIdYet, TypeInv,
                   TypeOK
<1> SUFFICES ASSUME NEW s \in Sessions, NEW u \in Sessions, s # u, sid[s] # None, sid[s] = sid[u]
             PROVE  FALSE
  BY DEF DistinctIds
<1> QED
  BY <1>1 DEF DistinctIds

\* Live sessions have IDs of their own.
LEMMA OwnId ==
    ASSUME TypeInv, DistinctIds, NEW s \in Sessions, NEW u \in Sessions, s # u,
           pc[s] \in {"dialed", "starting", "proxying", "ending"}
    PROVE  sid[s] # sid[u]
  BY BastionAssumption DEF TypeInv, Carried, DistinctIds

LEMMA StartsStep ==
    ASSUME TypeInv, StoryInv, StartsInv, [Next]_vars
    PROVE  StartsInv'
<1> USE DEF Goto, Live
<1> SUFFICES ASSUME DistinctIds'
             PROVE  /\ \A i \in DOMAIN starts' : \E s \in Sessions : Live(s)' /\ sid'[s] = i
                    /\ \A s \in Sessions : Live(s)' => sid'[s] \in DOMAIN starts'
  BY DEF StartsInv
<1>0. /\ DistinctIds
      /\ \A i \in DOMAIN starts : \E s \in Sessions : Live(s) /\ sid[s] = i
      /\ \A s \in Sessions : Live(s) => sid[s] \in DOMAIN starts
  BY DistinctBefore DEF StoryInv, StartsInv
<1>1. PICK Steps : pc \in [Sessions -> Steps] /\ sid \in [Sessions -> SessionId \cup {None}]
  BY DEF TypeInv, TypeOK
<1>2. CASE UNCHANGED <<pc, sid, pending, starts, trail>>
  BY <1>0, <1>2
<1>3. ASSUME NEW s \in Sessions, EarlyStep(s)
      PROVE  /\ \A i \in DOMAIN starts' : \E u \in Sessions : Live(u)' /\ sid'[u] = i
             /\ \A u \in Sessions : Live(u)' => sid'[u] \in DOMAIN starts'
  <2>1. ~ Live(s) /\ starts' = starts
    BY <1>3 DEF EarlyStep, Early
  <2>2. \A u \in Sessions : /\ Live(u)' <=> Live(u)
                            /\ Live(u) => sid'[u] = sid[u]
    BY <1>1, <1>3, <2>1 DEF EarlyStep, Early
  <2> QED
    BY <1>0, <2>1, <2>2
<1>4. ASSUME NEW s \in Sessions, NoteStart(s)
      PROVE  /\ \A i \in DOMAIN starts' : \E u \in Sessions : Live(u)' /\ sid'[u] = i
             /\ \A u \in Sessions : Live(u)' => sid'[u] \in DOMAIN starts'
  <2>1. /\ DOMAIN starts' = DOMAIN starts \cup {sid[s]} /\ sid' = sid
        /\ \A u \in Sessions : Live(u)' <=> Live(u) \/ u = s
    BY <1>1, <1>4 DEF NoteStart
  <2> QED
    BY <1>0, <2>1
<1>5. ASSUME NEW s \in Sessions, NoteEnd(s)
      PROVE  /\ \A i \in DOMAIN starts' : \E u \in Sessions : Live(u)' /\ sid'[u] = i
             /\ \A u \in Sessions : Live(u)' => sid'[u] \in DOMAIN starts'
  <2>1. /\ DOMAIN starts' = DOMAIN starts \ {sid[s]} /\ sid' = sid
        /\ \A u \in Sessions : Live(u)' <=> Live(u) /\ u # s
    BY <1>1, <1>5 DEF NoteEnd
  <2>2. \A u \in Sessions : u # s => sid[u] # sid[s]
    BY <1>0, <1>5, OwnId DEF NoteEnd
  <2> QED
    BY <1>0, <2>1, <2>2
<1>6. ASSUME NEW s \in Sessions, LogConnect(s) \/ LogDisconnect(s)
      PROVE  /\ \A i \in DOMAIN starts' : \E u \in Sessions : Live(u)' /\ sid'[u] = i
             /\ \A u \in Sessions : Live(u)' => sid'[u] \in DOMAIN starts'
  <2>1. starts' = starts /\ sid' = sid /\ \A u \in Sessions : Live(u)' <=> Live(u)
    BY <1>1, <1>6 DEF LogConnect, LogDisconnect
  <2> QED
    BY <1>0, <2>1
<1> QED
  BY <1>2, <1>3, <1>4, <1>5, <1>6, StepKinds

\* A session that the logger leaves alone.
LEMMA LengthKept ==
    ASSUME NEW s \in Sessions, LengthKnown(s), pc'[s] = pc[s], pending'[s] = pending[s],
           Live(s) => sid'[s] = sid[s] /\ starts'[sid[s]] = starts[sid[s]],
           \A kind : Of(s, kind)' = Of(s, kind) /\ \A i \in Of(s, kind) : trail'[i] = trail[i]
    PROVE  LengthKnown(s)'
  BY DEF LengthKnown, Live

LEMMA LengthStep ==
    ASSUME TypeInv, StoryInv, StartsInv, LengthInv, [Next]_vars
    PROVE  LengthInv'
<1> USE DEF Goto
<1> SUFFICES ASSUME DistinctIds', NEW u \in Sessions PROVE LengthKnown(u)'
  BY DEF LengthInv
<1>0. DistinctIds /\ LengthKnown(u) /\ Told(u)
  BY DistinctBefore DEF StoryInv, LengthInv
<1>1. PICK Steps : pc \in [Sessions -> Steps] /\ sid \in [Sessions -> SessionId \cup {None}]
  BY DEF TypeInv, TypeOK
<1>2. CASE UNCHANGED <<pc, sid, pending, starts, trail>>
  BY <1>0, <1>2, LengthKept DEF Of
<1>3. ASSUME NEW s \in Sessions, EarlyStep(s) PROVE LengthKnown(u)'
  <2>1. \A kind : Of(u, kind)' = Of(u, kind)
    BY <1>3 DEF EarlyStep, Of
  <2>2. CASE u = s
    <3>1. Of(u, "connect") = {} /\ pc'[u] \notin {"starting", "proxying", "ending"}
      BY <1>0, <1>1, <1>3, <2>2 DEF Told, EarlyStep, Early
    <3> QED
      BY <2>1, <3>1 DEF LengthKnown
  <2>3. CASE u # s
    BY <1>0, <1>1, <1>3, <2>1, <2>3, LengthKept DEF EarlyStep
  <2> QED
    BY <2>2, <2>3
<1>4. ASSUME NEW s \in Sessions, NoteStart(s) PROVE LengthKnown(u)'
  <2>1. \A kind : Of(u, kind)' = Of(u, kind)
    BY <1>4 DEF NoteStart, Of
  <2>2. CASE u = s
    <3>1. Of(u, "connect") = {} /\ pc'[u] = "starting" /\ sid' = sid
      BY <1>0, <1>1, <1>4, <2>2 DEF Told, NoteStart
    <3>2. pending'[u].at = clock /\ starts'[sid[u]] = clock
      BY <1>4, <2>2 DEF NoteStart, NewEvent, TypeInv, TypeOK
    <3> QED
      BY <2>1, <3>1, <3>2 DEF LengthKnown
  <2>3. CASE u # s
    <3>1. Live(u) => sid[u] # sid[s] /\ sid[u] \in DOMAIN starts
      BY <1>0, <2>3, OwnId DEF Live, StartsInv
    <3>2. Live(u) => starts'[sid[u]] = starts[sid[u]]
      BY <1>4, <3>1 DEF NoteStart
    <3> QED
      BY <1>0, <1>1, <1>4, <2>1, <2>3, <3>2, LengthKept DEF NoteStart, TypeInv, TypeOK
  <2> QED
    BY <2>2, <2>3
<1>5. ASSUME NEW s \in Sessions, NoteEnd(s) PROVE LengthKnown(u)'
  <2>1. \A kind : Of(u, kind)' = Of(u, kind)
    BY <1>5 DEF NoteEnd, Of
  <2>2. CASE u = s
    <3>1. pc[u] = "proxying" /\ pc'[u] = "ending" /\ Of(u, "disconnect") = {}
      BY <1>0, <1>1, <1>5, <2>2 DEF Told, NoteEnd
    <3>2. sid[u] \in DOMAIN starts
      BY <1>0, <3>1 DEF StartsInv, Live
    <3>3. pending'[u].at = clock /\ pending'[u].lasted = clock - starts[sid[u]] /\ trail' = trail
      BY <1>5, <2>2, <3>2 DEF NoteEnd, NewEvent, Lasted, TypeInv, TypeOK
    <3> QED
      BY <1>0, <2>1, <3>1, <3>3 DEF LengthKnown
  <2>3. CASE u # s
    <3>1. Live(u) => sid[u] # sid[s] /\ sid[u] \in DOMAIN starts
      BY <1>0, <2>3, OwnId DEF Live, StartsInv
    <3>2. Live(u) => starts'[sid[u]] = starts[sid[u]]
      BY <1>5, <3>1 DEF NoteEnd
    <3> QED
      BY <1>0, <1>1, <1>5, <2>1, <2>3, <3>2, LengthKept DEF NoteEnd, TypeInv, TypeOK
  <2> QED
    BY <2>2, <2>3
<1>6. ASSUME NEW s \in Sessions, LogConnect(s) \/ LogDisconnect(s) PROVE LengthKnown(u)'
  <2> DEFINE e == pending[s]
             last == Len(trail) + 1
  <2>1. e \in Event /\ AddEvent(e) /\ e.session = s
    BY <1>6 DEF LogConnect, LogDisconnect, TypeInv, Carried, StoryInv, OwnPending
  <2>2. /\ \A i \in DOMAIN trail : trail'[i] = trail[i]
        /\ trail'[last] = e
        /\ \A kind \in {"connect", "disconnect"} :
              Of(u, kind)' = IF u = s /\ e.kind = kind
                             THEN Of(u, kind) \cup {last} ELSE Of(u, kind)
        /\ \A kind : Of(u, kind) \subseteq DOMAIN trail
    BY <2>1, OfAppend DEF Of
  <2> HIDE DEF last
  <2>3. CASE u # s
    <3>1. Of(u, "connect")' = Of(u, "connect") /\ Of(u, "disconnect")' = Of(u, "disconnect")
      BY <2>2, <2>3
    <3>2. /\ pc'[u] = pc[u] /\ pending'[u] = pending[u] /\ sid' = sid /\ starts' = starts
      BY <1>1, <1>6, <2>3 DEF LogConnect, LogDisconnect, TypeInv, TypeOK
    <3> QED
      BY <1>0, <2>2, <3>1, <3>2 DEF LengthKnown
  <2>4. CASE u = s /\ LogConnect(s)
    <3>1. /\ e.kind = "connect" /\ Of(u, "connect") = {} /\ Of(u, "disconnect") = {}
          /\ pc[u] = "starting" /\ pc'[u] = "proxying" /\ sid' = sid /\ starts' = starts
      BY <1>0, <1>1, <2>4 DEF LogConnect, StoryInv, OwnPending, Told
    <3>2. Of(u, "connect")' = {last} /\ Of(u, "disconnect")' = {}
      BY <2>2, <2>4, <3>1
    <3>3. e.at = starts[sid[u]]
      BY <1>0, <2>4, <3>1 DEF LengthKnown
    <3> QED
      BY <2>2, <3>1, <3>2, <3>3 DEF LengthKnown
  <2>5. CASE u = s /\ LogDisconnect(s)
    <3>1. /\ e.kind = "disconnect" /\ Of(u, "disconnect") = {}
          /\ pc[u] = "ending" /\ pc'[u] = "done"
      BY <1>0, <1>1, <2>5 DEF LogDisconnect, StoryInv, OwnPending, Told
    <3>2. Of(u, "connect")' = Of(u, "connect") /\ Of(u, "disconnect")' = {last}
      BY <2>2, <2>5, <3>1
    <3>3. \A i \in Of(u, "connect") : e.lasted = e.at - trail[i].at
      BY <1>0, <2>5, <3>1 DEF LengthKnown
    <3> QED
      BY <2>2, <3>1, <3>2, <3>3 DEF LengthKnown
  <2> QED
    BY <1>6, <2>3, <2>4, <2>5
<1> QED
  BY <1>2, <1>3, <1>4, <1>5, <1>6, StepKinds

LEMMA LengthsAlways == Spec => [](TypeInv /\ StoryInv /\ StartsInv /\ LengthInv)
<1>1. Init => StartsInv /\ LengthInv
  BY DEF Init, StartsInv, LengthInv, LengthKnown, Live, Of
<1>2. TypeInv /\ StoryInv /\ StartsInv /\ LengthInv /\ [Next]_vars => StartsInv' /\ LengthInv'
  BY StartsStep, LengthStep
<1> QED
  BY <1>1, <1>2, StoryAlways, PTL DEF Spec

\* logger.go, sessionStarts: as long as IDs are distinct the map holds the
\* sessions between their two events and nothing else, however many there were.
THEOREM StartsAreAlwaysLive == Spec => []StartsAreLive
<1>1. StartsInv => StartsAreLive
  BY DEF StartsInv, Live, StartsAreLive
<1> QED
  BY <1>1, LengthsAlways, PTL

\* logger.go, LogDisconnect: as long as IDs are distinct, a disconnect carries
\* the time since its own session's connect, whatever other sessions log between.
THEOREM DurationsAlwaysAreLengths == Spec => []DurationsAreLengths
<1>1. TypeInv /\ LengthInv => DurationsAreLengths
  <2> SUFFICES ASSUME TypeInv, LengthInv, DistinctIds, NEW i \in DOMAIN trail,
                      NEW j \in DOMAIN trail, trail[i].kind = "connect",
                      trail[j].kind = "disconnect", trail[i].session = trail[j].session
               PROVE  trail[j].lasted = trail[j].at - trail[i].at
    BY DEF DurationsAreLengths, Timed
  <2>1. trail[i] \in Event
    BY LenProperties, ElementOfSeq DEF TypeInv, TypeOK
  <2>2. trail[i].session \in Sessions
    BY <2>1 DEF Event
  <2> QED
    BY <2>2 DEF LengthInv, LengthKnown, Of
<1> QED
  BY <1>1, LengthsAlways, PTL

=============================================================================
