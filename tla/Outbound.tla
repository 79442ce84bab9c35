-------------------------------- MODULE Outbound --------------------------------
(***************************************************************************)
(* A request on its way out: resolveOutboundAuth() of server.ts asks the       *)
(* token provider of its target's region and the path handler posts with what  *)
(* it got.  Requests run side by side over one cache.                          *)
(***************************************************************************)
EXTENDS TokenCache, PostJson

\* The requests are those that ask for tokens.
ASSUME OutboundAssumption == Call = Request

outboundVars == <<tokenVars, postVars>>

\* resolveOutboundAuth(): the provider is asked, and its promise awaited.
ResolveAuth(q) ==
    /\ post[q].at = "auth"
    /\ \E r \in Region : Ask(q, r)
    /\ UNCHANGED postVars

Bearer(q) ==
    /\ post[q].at = "auth" /\ waits[q] # 0 /\ mints[waits[q]].state = "done"
    /\ post' = [post EXCEPT ![q].at = "head"]
    /\ UNCHANGED <<tokenVars, delay, body, taken, answers, aborted, outcome>>

NoBearer(q) ==
    /\ post[q].at = "auth" /\ waits[q] # 0 /\ mints[waits[q]].state = "failed"
    /\ Conclude(q, "unauthorized")
    /\ UNCHANGED <<tokenVars, body, taken, answers, aborted>>

OutboundInit == TokenInit /\ PostInit("auth")

Handler(q) == ResolveAuth(q) \/ Bearer(q) \/ NoBearer(q) \/ (Loop(q) /\ UNCHANGED tokenVars)
Provider == \E m \in Mint : MintDone(m) \/ MintFails(m)

OutboundNext ==
    \/ \E q \in Request :
          \/ Handler(q)
          \/ (Upstream(q) \/ Abort(q)) /\ UNCHANGED tokenVars
    \/ (Provider \/ Tick) /\ UNCHANGED postVars

OutboundSpec == OutboundInit /\ [][OutboundNext]_outboundVars

\* Handlers and their timers go on and a mint settles; nothing is asked of the
\* upstream, the client or the clock.
FairOutboundSpec ==
    /\ OutboundSpec
    /\ \A q \in Request : WF_outboundVars(Handler(q))
    /\ WF_outboundVars(Provider /\ UNCHANGED postVars)

\* Every request comes to an outcome, one whose upstream hangs included.
OutboundEnds == \A q \in Request : <>(outcome[q] # "none")
==============================================================================
