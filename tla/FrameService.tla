---------------------------- MODULE FrameService ----------------------------
(***************************************************************************)
(* What loss recovery promises to the layers above it: an end answers for  *)
(* each of its frames until the other end has it, or until the connection  *)
(* fails.  LossRecovery.tla implements this.                               *)
(***************************************************************************)
CONSTANTS Ends, FramesOf(_)
VARIABLES held,     \* the frames an end answers for
          got,      \* the frames of an end that reached the other one
          failed    \* an end gave up the connection

Init == /\ held = [e \in Ends |-> FramesOf(e)]
        /\ got = [e \in Ends |-> {}]
        /\ failed = [e \in Ends |-> FALSE]

(* What arrives is answered for, and what is no longer answered for had    *)
(* arrived.  One packet may do both: it brings frames in one direction and *)
(* the acknowledgement of frames in the other.                             *)
Move ==
    /\ UNCHANGED failed
    /\ \A e \in Ends :
         /\ got[e] \subseteq got'[e]
         /\ held'[e] \subseteq held[e]
         /\ ~failed[e] => /\ got'[e] \ got[e] \subseteq held[e]
                          /\ held[e] \ held'[e] \subseteq got[e]

(* What a failed end holds is of no consequence.                           *)
Fail(e) ==
    /\ ~failed[e]
    /\ failed' = [failed EXCEPT ![e] = TRUE]
    /\ held' = [held EXCEPT ![e] = {}]
    /\ UNCHANGED got

Next == Move \/ \E e \in Ends : Fail(e)

Spec == Init /\ [][Next]_<<held, got, failed>>
=============================================================================
