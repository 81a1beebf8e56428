------------------------------ MODULE Gateway ------------------------------
(***************************************************************************)
(* cmd/gateway: the bastion and the management API as main puts them       *)
(* together, as far as grants are concerned.  Each makes a grant store of  *)
(* its own: the API's is written by POST and DELETE /grants and never      *)
(* asked, the bastion's is asked for every session and never written.      *)
(***************************************************************************)
EXTENDS BastionSessions

CONSTANTS
    Anyone,    \* the principal "*"
    Unnamed    \* a request without a principal

VARIABLES
    apiTable    \* the grants of api.Store

gatewayVars == <<vars, apiTable>>

ApiStore == INSTANCE AccessGrants WITH table <- apiTable

\* NewStore keeps the API's grants in memory; the bastion's file is absent.
GatewayInit == Init /\ apiTable = EmptyTable

\* CreateGrantHandler, once the body has passed its checks.
CreateGrant(p, t, d) ==
    /\ \E id \in GrantId :
          ApiStore!Issue(id, IF p = Unnamed THEN Anyone ELSE p, t, d)
    /\ UNCHANGED table /\ UNCHANGED logVars /\ UNCHANGED sessionVars

\* DeleteGrantHandler.
DeleteGrant(id) ==
    /\ ApiStore!Revoke(id)
    /\ UNCHANGED table /\ UNCHANGED logVars /\ UNCHANGED sessionVars

TimePasses ==
    /\ Store!Tick
    /\ UNCHANGED apiTable /\ UNCHANGED logVars /\ UNCHANGED sessionVars

\* A step of the bastion: nobody changes the grants it goes by.
BastionStep ==
    /\ \/ \E c \in Conns : Drop(c)
       \/ \E s \in Sessions :
             \/ Request(s) \/ Serve(s) \/ CopyFails(s)
             \/ \E end \in Ends : HangUp(s, end)
    /\ UNCHANGED apiTable

GatewayNext ==
    \/ \E p \in (Principals \ {Anyone}) \cup {Unnamed}, t \in Targets, d \in Durations :
          CreateGrant(p, t, d)
    \/ \E id \in GrantId : DeleteGrant(id)
    \/ TimePasses
    \/ BastionStep

GatewaySpec == GatewayInit /\ [][GatewayNext]_gatewayVars

-----------------------------------------------------------------------------
(* Properties.                                                             *)

\* docs/architecture.md:301 and :304: to access a server the operator opens it
\* with an access grant.  Such a grant is in the API's store, and the bastion
\* turns its holder away.
GrantOpensBastion ==
    [][ \A s \in Sessions :
          pc[s] = "requested" /\ pc'[s] = "rejected" =>
              Authorising(apiTable, User[ConnOf[s]], Dest[s], clock) = {} ]_gatewayVars

=============================================================================
