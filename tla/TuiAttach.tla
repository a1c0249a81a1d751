----------------------------- MODULE TuiAttach -----------------------------
(***************************************************************************)
(* Attach mode of the user interface (src/internal/tui/app.go).  A session *)
(* is a stream to the daemon with goroutines of the program waiting in     *)
(* Recv; each is attached to an execution of its own here (the daemon      *)
(* allows one session at a time for one execution).  An event does not say *)
(* which session it is from: the program takes it for one of the session   *)
(* it shows now.                                                           *)
(***************************************************************************)
EXTENDS Integers, FiniteSets

CONSTANTS
    MaxSessions,   \* bound on the attempts to attach
    MaxOutputs     \* bound on the output events of a session

ASSUME AttachAssumption == MaxSessions \in Nat \ {0} /\ MaxOutputs \in Nat

Sessions == 1 .. MaxSessions
NoSession == 0

VARIABLES
    session,      \* per session: "new", "connecting", "open", "deaf" (open to an
                  \* execution whose EOF was before), "exited", "closed"
    outputs,     \* per session, output events to come
    receiving,   \* per session, goroutines in Recv
    events,      \* events on their way to Update, with their session as history
    child,       \* per session, "running" or "ended", as the daemon sees it
    attach,      \* the session shown
    awaitingCmd, exited, closeOnExit

attachVars == <<session, outputs, receiving, events, child, attach, awaitingCmd,
                exited, closeOnExit>>
shownVars == <<attach, awaitingCmd, exited, closeOnExit>>

Event(kind, s) == [kind |-> kind, from |-> s]

AttachInit ==
    /\ session = [s \in Sessions |-> "new"]
    /\ outputs \in [Sessions -> {MaxOutputs}]
    /\ receiving = [s \in Sessions |-> 0]
    /\ events = {}
    /\ child = [s \in Sessions |-> "running"]
    /\ attach = NoSession
    /\ awaitingCmd = FALSE /\ exited = FALSE /\ closeOnExit = FALSE

(***************************************************************************)
(* The daemon's side of a stream (see OutputPipeline).                     *)
(***************************************************************************)
ChildEnds(s) ==
    /\ child[s] = "running" /\ child' = [child EXCEPT ![s] = "ended"]
    /\ UNCHANGED <<session, outputs, receiving, events, shownVars>>

TakesRequests(s) == session[s] \in {"open", "deaf"}

\* A Recv returns with output, or with the exit when all output has been sent.
Receive(s) ==
    /\ receiving[s] > 0 /\ TakesRequests(s)
    /\ receiving' = [receiving EXCEPT ![s] = @ - 1]
    /\ \/ /\ outputs[s] > 0
          /\ outputs' = [outputs EXCEPT ![s] = @ - 1]
          /\ events' = events \union {Event("output", s)}
          /\ UNCHANGED session
       \/ /\ outputs[s] = 0 /\ child[s] = "ended" /\ session[s] = "open"
          /\ session' = [session EXCEPT ![s] = "exited"]
          /\ events' = events \union {Event("exit", s)}
          /\ UNCHANGED outputs
    /\ UNCHANGED <<child, shownVars>>

\* It returns with an error after the exit, after a detach and when the stream
\* breaks.
ReceiveFails(s) ==
    /\ receiving[s] > 0
    /\ receiving' = [receiving EXCEPT ![s] = @ - 1]
    /\ session' = [session EXCEPT ![s] = "closed"]
    /\ events' = events \union {Event("error", s)}
    /\ UNCHANGED <<outputs, child, shownVars>>

\* The connecting command: the stream is opened and its ack received, or not.  The
\* daemon takes an execution that has ended too, whose EOF may have been published.
Connect(s) ==
    /\ session[s] = "connecting"
    /\ \/ /\ session' \in {[session EXCEPT ![s] = o] :
                           o \in IF child[s] = "running" THEN {"open"} ELSE {"open", "deaf"}}
          /\ events' = events \union {Event("connected", s)}
       \/ session' = [session EXCEPT ![s] = "closed"] /\ UNCHANGED events
    /\ UNCHANGED <<outputs, receiving, child, shownVars>>

(***************************************************************************)
(* Update.                                                                 *)
(***************************************************************************)

\* recvAttachCmd: one more goroutine waits for an event of the session shown.
ReceiveNext == receiving' = [receiving EXCEPT ![attach] = @ + 1]

\* detach cancels the stream of the session shown and of no other.
Detach ==
    /\ session' = [session EXCEPT ![attach] = "closed"]
    /\ attach' = NoSession
    /\ awaitingCmd' = FALSE /\ exited' = FALSE /\ closeOnExit' = FALSE

\* A second answer replaces a session that is shown already, without ending it.
TakeConnected(e) ==
    /\ e.kind = "connected"
    /\ attach' = e.from
    /\ awaitingCmd' = FALSE /\ exited' = FALSE /\ closeOnExit' = FALSE
    /\ receiving' = [receiving EXCEPT ![e.from] = @ + 1]
    /\ UNCHANGED session

TakeWhenDetached(e) ==
    /\ e.kind # "connected" /\ attach = NoSession
    /\ UNCHANGED <<session, receiving, shownVars>>

\* A seeded fault: after output nobody waits for the next event.
TakeOutputOnce(e) ==
    /\ e.kind = "output" /\ attach # NoSession
    /\ UNCHANGED <<session, receiving, shownVars>>

TakeOutput(e) ==
    /\ e.kind = "output" /\ attach # NoSession
    /\ ReceiveNext
    /\ UNCHANGED <<session, shownVars>>

\* After the user's cancel the exit leaves attach mode; otherwise it stays, and
\* nothing is received any more.
TakeExit(e) ==
    /\ e.kind = "exit" /\ attach # NoSession
    /\ IF closeOnExit
       THEN Detach
       ELSE exited' = TRUE /\ UNCHANGED <<session, attach, awaitingCmd, closeOnExit>>
    /\ UNCHANGED receiving

\* Any error leaves attach mode.  (The end of a cancelled stream is an error as
\* well: a gRPC status, which is not context.Canceled.)
TakeError(e) ==
    /\ e.kind = "error" /\ attach # NoSession
    /\ Detach
    /\ UNCHANGED receiving

TakeEvent(e) ==
    /\ e \in events
    /\ events' = events \ {e}
    /\ \/ TakeConnected(e) \/ TakeWhenDetached(e) \/ TakeOutput(e) \/ TakeExit(e)
       \/ TakeError(e)
    /\ UNCHANGED <<outputs, child>>

(***************************************************************************)
(* Keys.                                                                   *)
(***************************************************************************)

\* a, any number of times until the first session is shown.
KeyAttach ==
    /\ attach = NoSession
    /\ \E s \in Sessions :
        /\ session[s] = "new" /\ \A t \in 1 .. s - 1 : session[t] # "new"
        /\ session' = [session EXCEPT ![s] = "connecting"]
    /\ UNCHANGED <<outputs, receiving, events, child, shownVars>>

KeyPrefix ==
    /\ attach # NoSession /\ ~awaitingCmd
    /\ awaitingCmd' = TRUE
    /\ UNCHANGED <<session, outputs, receiving, events, child, attach, exited,
                   closeOnExit>>

\* ctrl+g q, and ctrl+c.
KeyDetach ==
    /\ attach # NoSession
    /\ Detach
    /\ UNCHANGED <<outputs, receiving, events, child>>

\* ctrl+g c: the daemon is asked to cancel, if the stream still takes requests.
KeyCancelAttached ==
    /\ attach # NoSession /\ awaitingCmd
    /\ awaitingCmd' = FALSE
    /\ closeOnExit' \in {closeOnExit, TakesRequests(attach) \/ closeOnExit}
    /\ UNCHANGED <<session, outputs, receiving, events, child, attach, exited>>

\* ctrl+g and any other key.
KeyPrefixEnds ==
    /\ attach # NoSession /\ awaitingCmd
    /\ awaitingCmd' = FALSE
    /\ UNCHANGED <<session, outputs, receiving, events, child, attach, exited,
                   closeOnExit>>

\* Input and a new window size are sent; on a stream that has ended this gives
\* an error event.
KeySend ==
    /\ attach # NoSession /\ ~awaitingCmd
    /\ ~TakesRequests(attach)
    /\ events' = events \union {Event("error", attach)}
    /\ UNCHANGED <<session, outputs, receiving, child, shownVars>>

AttachNext ==
    \/ \E s \in Sessions : ChildEnds(s) \/ Receive(s) \/ ReceiveFails(s) \/ Connect(s)
    \/ \E e \in events : TakeEvent(e)
    \/ KeyAttach \/ KeyPrefix \/ KeyDetach \/ KeyCancelAttached \/ KeyPrefixEnds
    \/ KeySend

\* A Recv returns when there is something to receive, and every event reaches
\* Update.
TakeAnyEvent == \E e \in events : TakeEvent(e)

AttachFairness ==
    (\A s \in Sessions : WF_attachVars(Receive(s))) /\ WF_attachVars(TakeAnyEvent)

AttachSpec == AttachInit /\ [][AttachNext]_attachVars /\ AttachFairness

(***************************************************************************)
(* Properties.                                                             *)
(***************************************************************************)

\* Nobody stays attached for ever to an execution that ends after he was attached and
\* sees it as running, although events of a session that was left or replaced are taken
\* for the new one's (app.go:490-542).  Who attaches after the EOF is not told.
AttachLearnsExit ==
    \A s \in Sessions :
        []<>~(attach = s /\ child[s] = "ended" /\ session[s] # "deaf" /\ ~exited)

=============================================================================
