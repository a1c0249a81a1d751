------------------------------ MODULE MCParts ------------------------------
(***************************************************************************)
(* The parts of the user interface, and the service the daemon runs as, on *)
(* small instances.  They share no state that their models keep, so a      *)
(* behaviour is one of one part, chosen at the beginning, while the others *)
(* stay in their first state.                                              *)
(***************************************************************************)
EXTENDS Terminal, TuiApp, TuiForms, ServiceConfig

VARIABLE part

vars == <<termVars, tuiVars, formsVars, serviceVars, part>>

Init ==
    /\ part \in {"terminal", "app", "forms", "service"}
    /\ TermInit /\ TuiInit /\ FormsInit /\ ServiceInit
    /\ part # "terminal" => width = AtLeastOne(CHOOSE w \in Widths : TRUE)
                             /\ height = AtLeastOne(CHOOSE h \in Heights : TRUE)
    /\ part # "app" => server = [j \in Jobs |-> "unborn"]
    /\ part # "service" => contents = Broken

InTerminal(A) ==
    part = "terminal" /\ A /\ UNCHANGED <<tuiVars, formsVars, serviceVars, part>>
InApp(A) ==
    part = "app" /\ A /\ UNCHANGED <<termVars, formsVars, serviceVars, part>>
InForms(A) ==
    part = "forms" /\ A /\ UNCHANGED <<termVars, tuiVars, serviceVars, part>>
InService(A) ==
    part = "service" /\ A /\ UNCHANGED <<termVars, tuiVars, formsVars, part>>

Next ==
    \/ InTerminal(TermNext) \/ InApp(TuiNext) \/ InForms(FormsNext)
    \/ InService(ServiceNext)

Spec == Init /\ [][Next]_vars
=============================================================================
