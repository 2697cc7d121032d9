------------------------------- MODULE MCMsgQ -------------------------------
(* Instances of MsgQ for TLC.                                              *)
EXTENDS Threads

(* A copied payload, as the engine pushes callback data, here in front of  *)
(* what is waiting; a borrowed pointer, as it pushes resource descriptors; *)
(* DIE.                                                                    *)
EngineBodies == {[what |-> "work", copied |-> TRUE,  onTop |-> TRUE],
                 [what |-> "work", copied |-> FALSE, onTop |-> FALSE],
                 [what |-> "die",  copied |-> FALSE, onTop |-> FALSE]}
=============================================================================
