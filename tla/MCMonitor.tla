------------------------------ MODULE MCMonitor ------------------------------
(* The builder alone, with any times of files, or the monitor around it,   *)
(* with two clients and changes of three of the files, each with a new     *)
(* time, over the project of MCBuilder.                                    *)
EXTENDS MCBuilder, Monitor

CONSTANTS a, b

VARIABLE alone

MCFolder == [f \in Files |-> IF f \in Inis THEN "assets" ELSE "sources"]
Symmetry == Permutations(Clients)

NewTime ==
  \A f \in Files : files'[f] # files[f] => f \in {i1, sh, inc} /\ files'[f].time \in {0, clock'}

MCInit == MonitorInit /\ alone \in BOOLEAN
MCNext ==
  /\ alone' = alone
  /\ \/ alone /\ BuilderNext /\ UNCHANGED <<monitorVars, serverVars, noticeVars>>
     \/ ~alone /\ MonitorNext /\ NewTime
MCSpec == MCInit /\ [][MCNext]_<<allVars, alone>>
=============================================================================
