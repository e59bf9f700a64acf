----------------------------- MODULE TestSuite ------------------------------
(***************************************************************************)
(* What a run over a test folder promises: every file gets one verdict,    *)
(* that the run never takes back, and the run comes to an end, whatever    *)
(* the programs under test do.  A run may be given up only when a folder   *)
(* cannot be read.                                                         *)
(***************************************************************************)
VARIABLES
  may,       \* may[f]: the verdicts file f may get
  readable,  \* whether every folder can be read
  verdict,   \* of each file: "none", "ok" or "fail"
  state      \* "running", "done" or "fatal"

tsVars == <<may, readable, verdict, state>>

Files == DOMAIN may

Init == /\ verdict = [f \in Files |-> "none"]
        /\ state = "running"

Decide(f) ==
  /\ state = "running"
  /\ verdict[f] = "none"
  /\ \E v \in may[f] : verdict' = [verdict EXCEPT ![f] = v]
  /\ UNCHANGED <<may, readable, state>>

Finish == /\ state = "running"
          /\ \A f \in Files : verdict[f] # "none"
          /\ state' = "done"
          /\ UNCHANGED <<may, readable, verdict>>

GiveUp == /\ state = "running"
          /\ ~readable
          /\ state' = "fatal"
          /\ UNCHANGED <<may, readable, verdict>>

Next == (\E f \in Files : Decide(f)) \/ Finish \/ GiveUp

Spec == Init /\ [][Next]_tsVars /\ WF_tsVars(Next)

=============================================================================
