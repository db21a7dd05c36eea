----------------------------- MODULE MCBlocking -----------------------------
(***************************************************************************)
(* The places where something may block or stay away for ever: a child     *)
(* process of the helper, the statfs of the daemon and the clients on its  *)
(* connections.  They share no state, so a behaviour is one of part's      *)
(* component while the others keep one state.                              *)
(***************************************************************************)
EXTENDS Subprocess, SystemTool, RequestPath

VARIABLE part  \* "child", "mounts" or "clients"

allVars == <<part, vars, sysVars, httpVars>>

\* A local mount, a network mount, a second line for the local one and a pseudo
\* file system.
MCTable == <<[mp |-> "nfs", fs |-> "blocking"], [mp |-> "proc", fs |-> "pseudo"],
             [mp |-> "root", fs |-> "local"], [mp |-> "root", fs |-> "local"]>>

AllInit == /\ part \in {"child", "mounts", "clients"} /\ Init /\ SysInit /\ HttpInit
           /\ part # "child" => mode = "Run"

OfChild(A) == part = "child" /\ A /\ UNCHANGED <<part, sysVars, httpVars>>
OfMounts(A) == part = "mounts" /\ A /\ UNCHANGED <<part, vars, httpVars>>
OfClients(A) == part = "clients" /\ A /\ UNCHANGED <<part, vars, sysVars>>

AllNext == OfChild(Next) \/ OfMounts(SysNext) \/ OfClients(HttpNext)

\* Fairness, SysFairness and HttpFairness.
AllFairness ==
    /\ WF_allVars(OfChild(Caller)) /\ WF_allVars(OfChild(Cancel)) /\ WF_allVars(OfChild(ContextEnds))
    /\ \A t \in {"cancel", "trunc"} : WF_allVars(OfChild(KillTimerFires(t)))
    /\ \A p \in Polls : /\ WF_allVars(OfMounts(PollStep(p)))
                        /\ \A m \in Mounts : WF_allVars(OfMounts(ProbeStep(p, m)))
    /\ \A c \in Conns : /\ WF_allVars(OfClients(HandlerStep(c)))
                        /\ WF_allVars(OfClients(ConnectionEnds(c)))
                        /\ WF_allVars(OfClients(Accept(c)))
    /\ WF_allVars(OfClients(ShutdownReturns))

AllSpec == AllInit /\ [][AllNext]_allVars /\ AllFairness

\* CallReturns, of the behaviours with a child.
ChildCallReturns == part = "child" => CallReturns
=============================================================================
