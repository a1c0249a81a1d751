----------------------------- MODULE MCClients -----------------------------
(***************************************************************************)
(* The clients and their streams on small instances, with fairness.  The   *)
(* models share no state, so a behaviour is one of one part, chosen at the *)
(* beginning, while the others stay in one state.                          *)
(***************************************************************************)
EXTENDS TuiApp, TuiAttach, Transfers, AttachStream

VARIABLE part

vars == <<tuiVars, attachVars, transferVars, attachStreamVars, part>>

Init ==
    /\ part \in {"app", "session", "transfer", "attach"}
    /\ TuiInit /\ AttachInit /\ TransferInit /\ AttachStreamInit
    /\ part # "app" => server = [j \in Jobs |-> "unborn"]
    /\ part # "transfer" => kind = "upload" /\ caller = "ends" /\ size = 0
    /\ part # "attach" => mode = "writer" /\ stdinOpen /\ ~elder

InApp(A) ==
    part = "app" /\ A
    /\ UNCHANGED <<attachVars, transferVars, attachStreamVars, part>>
InSession(A) ==
    part = "session" /\ A
    /\ UNCHANGED <<tuiVars, transferVars, attachStreamVars, part>>
InTransfer(A) ==
    part = "transfer" /\ A
    /\ UNCHANGED <<tuiVars, attachVars, attachStreamVars, part>>
InAttach(A) ==
    part = "attach" /\ A
    /\ UNCHANGED <<tuiVars, attachVars, transferVars, part>>

Next ==
    \/ InApp(TuiNext) \/ InSession(AttachNext) \/ InTransfer(TransferNext)
    \/ InAttach(AttachStreamNext)

\* The fairness of the parts.  As a behaviour is of one part for ever, actions of
\* different parts can share a condition.  (MaxSessions is 2.)
Fair1 ==
    \/ InApp(Tick) \/ InSession(TakeAnyEvent) \/ InTransfer(ClientStep)
    \/ InAttach(AttachHandlerStep)
Fair2 ==
    \/ InApp(TakeOther) \/ InSession(Receive(1)) \/ InTransfer(HandlerStep)
    \/ InAttach(ReceiverStep)
Fair3 ==
    \/ InApp(TakeAnyDetail) \/ InSession(Receive(2)) \/ InTransfer(WalkerStep)
    \/ InAttach(ExitStep)

Spec == Init /\ [][Next]_vars /\ WF_vars(Fair1) /\ WF_vars(Fair2) /\ WF_vars(Fair3)
=============================================================================
