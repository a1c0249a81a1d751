----------------------------- MODULE JobHistory -----------------------------
(***************************************************************************)
(* What the daemon promises about its job history, the table a client sees *)
(* through Get, List, Delete and Clear: an id is used once, its job runs   *)
(* until it gets one final outcome, the outcome never changes, and only a  *)
(* job with an outcome is ever removed.  Lifecycle implements this.        *)
(***************************************************************************)
CONSTANTS
    Ids,      \* the ids the daemon may draw (random 64-bit tokens in the code)
    Owners    \* the client certificates' common names

VARIABLE hist \* id -> what the table holds, or held, for it

Kinds       == {"exec", "xfer"}
FinalStates == {"exited", "canceled", "failed_to_start"}
ExitCodes   == {"none", "zero", "nonzero"}

JobRecords ==
    [state : {"absent", "running", "deleted"} \cup FinalStates,
     owner : Owners \cup {"nobody"},
     kind  : Kinds \cup {"none"},
     exit  : ExitCodes]

Absent  == [state |-> "absent",  owner |-> "nobody", kind |-> "none", exit |-> "none"]
Deleted == [state |-> "deleted", owner |-> "nobody", kind |-> "none", exit |-> "none"]

Init == hist = [i \in Ids |-> Absent]

Create(i) ==
    /\ hist[i] = Absent
    /\ \E o \in Owners, k \in Kinds :
          hist' = [hist EXCEPT ![i] = [state |-> "running", owner |-> o,
                                       kind |-> k, exit |-> "none"]]

Finish(i) ==
    /\ hist[i].state = "running"
    /\ \E s \in FinalStates, x \in ExitCodes :
          /\ s = "failed_to_start" => x = "nonzero"
          /\ hist' = [hist EXCEPT ![i] = [state |-> s, owner |-> hist[i].owner,
                                          kind |-> hist[i].kind, exit |-> x]]

Delete(i) ==
    /\ hist[i].state \in FinalStates
    /\ hist' = [hist EXCEPT ![i] = Deleted]

Next == \E i \in Ids : Create(i) \/ Finish(i) \/ Delete(i)

Spec == Init /\ [][Next]_hist
=============================================================================
