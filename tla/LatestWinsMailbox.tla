------------------------- MODULE LatestWinsMailbox -------------------------
(***************************************************************************)
(* What the frame pipeline promises its producers, without xfers, URBs,    *)
(* locks or work items: a one-place mailbox behind a one-place transfer    *)
(* slot.  Frames are numbered in the order in which they are accepted; 0   *)
(* stands for no frame.  A frame that arrives while another one waits      *)
(* replaces it.  MproPipeline implements this specification.               *)
(***************************************************************************)
EXTENDS Naturals

VARIABLES
    open,      \* frames are accepted
    accepted,  \* number of frames accepted so far
    slot,      \* the frame being transferred
    waiting,   \* the frame to be transferred next
    panel      \* the frame the panel shows

mailboxVars == <<open, accepted, slot, waiting, panel>>

Init ==
    /\ open = TRUE
    /\ accepted = 0
    /\ slot = 0
    /\ waiting = 0
    /\ panel = 0

(* A frame is accepted: it is transferred at once, or it waits and the     *)
(* frame that waited so far is forgotten.                                  *)
Offer ==
    /\ open
    /\ accepted' = accepted + 1
    /\ IF slot = 0
         THEN slot' = accepted' /\ UNCHANGED waiting
         ELSE waiting' = accepted' /\ UNCHANGED slot
    /\ UNCHANGED <<open, panel>>

(* The transfer reaches the panel.                                         *)
Deliver ==
    /\ slot # 0
    /\ panel' = slot
    /\ UNCHANGED <<open, accepted, slot, waiting>>

(* The transfer is over, delivered or not: the waiting frame is next.      *)
Advance ==
    /\ open
    /\ slot # 0
    /\ slot' = waiting
    /\ waiting' = 0
    /\ UNCHANGED <<open, accepted, panel>>

(* The device goes away, and what has not been transferred is abandoned.   *)
Close ==
    /\ open
    /\ open' = FALSE
    /\ UNCHANGED <<accepted, slot, waiting, panel>>

Abandon ==
    /\ ~open
    /\ slot' = 0
    /\ waiting' \in {0, waiting}
    /\ UNCHANGED <<open, accepted, panel>>

(* A transfer that was abandoned may have been under way: the panel then   *)
(* still gets it, and it is not older than what the panel shows.           *)
Straggle ==
    /\ ~open
    /\ panel' \in panel .. accepted
    /\ UNCHANGED <<open, accepted, slot, waiting>>

Next == Offer \/ Deliver \/ Advance \/ Close \/ Abandon \/ Straggle

Spec == Init /\ [][Next]_mailboxVars
=============================================================================
