------------------------- MODULE MproPipelineProofs -------------------------
(***************************************************************************)
(* Proofs about MproPipeline for every set of producers, every set of xfer *)
(* addresses, every bound on the frames and every set of faults allowed.   *)
(***************************************************************************)
EXTENDS MproPipeline, TLAPS

(* The types alone are not inductive: that only real xfers are handed to   *)
(* USB rests on who holds an xfer at which point of mpro_send_xfer.        *)
TypedLocals == TypeOK /\ LocalsInv

(* stats_submitted++ and the number that a frame gets with it.             *)
LEMMA AcceptTypes ==
    ASSUME TypeOK, NEW p \in Producer, Accept(p)
    PROVE  /\ stats' \in [submitted : Nat, dropped : Nat, displayed : Nat]
           /\ stats'.submitted = stats.submitted + 1
           /\ seq' \in [Xfer -> Nat]
           /\ own[p] \in Xfer => seq'[own[p]] = stats.submitted + 1
           /\ \A x \in Xfer : x # own[p] => seq'[x] = seq[x]
<1>1. stats \in [submitted : Nat, dropped : Nat, displayed : Nat]
  BY DEF TypeOK
<1>2. stats' = [stats EXCEPT !.submitted = @ + 1]
  BY DEF Accept
<1>3. /\ stats' \in [submitted : Nat, dropped : Nat, displayed : Nat]
      /\ stats'.submitted = stats.submitted + 1
      /\ stats.submitted + 1 \in Nat
  BY <1>1, <1>2
<1>4. seq' = [seq EXCEPT ![own[p]] = stats.submitted + 1] /\ seq \in [Xfer -> Nat]
  BY DEF Accept, TypeOK
<1> QED
  BY <1>3, <1>4

(* Initially every variable has its type and nobody holds an xfer.         *)
LEMMA InitTyped == Init => TypedLocals
<1> SUFFICES ASSUME Init PROVE TypedLocals
  OBVIOUS
<1> USE DEF Init
<1>1. stats \in [submitted : Nat, dropped : Nat, displayed : Nat]
  OBVIOUS
<1>2. pc \in [Producer -> {"out", "send", "displaced", "submit", "undo"}]
  OBVIOUS
<1>3. own \in [Producer -> MaybeXfer]
  BY DEF MaybeXfer
<1>4. running \in BOOLEAN /\ is_idle \in BOOLEAN
      /\ in_flight \in BOOLEAN /\ work_queued \in BOOLEAN
  BY Zenon
<1>5. LocalsInv
  BY DEF LocalsInv
<1> QED
  BY <1>1, <1>2, <1>3, <1>4, <1>5 DEF TypedLocals, TypeOK, MaybeXfer

(* complete_work hands next to USB, or goes on to undo its claim.          *)
LEMMA WorkSubmitCases ==
    ASSUME WorkSubmit
    PROVE  /\ \/ /\ anchored' = anchored \cup {<<"ctrl", nxt>>}
                 /\ nxt' = NoXfer /\ wpc' = "out"
                 /\ shut = "cancel" => late'
                 /\ shut # "cancel" => late' = late
              \/ /\ SubmitMayFail
                 /\ anchored' = anchored /\ nxt' = nxt /\ wpc' = "undo"
                 /\ late' = late
           /\ wpc = "submit"
           /\ UNCHANGED <<running, is_idle, slotVars, work_queued, live, seq,
                          stats, shown, sendVars, done, shut>>
  BY Zenon DEF WorkSubmit, XferSubmit

(* One step of the pipeline, action by action.                             *)
LEMMA NextTyped == TypedLocals /\ [Next]_vars => TypedLocals'
<1> SUFFICES ASSUME TypedLocals, [Next]_vars PROVE TypedLocals'
  OBVIOUS
<1> USE XferAssumption DEF TypedLocals, TypeOK, LocalsInv, MaybeXfer,
                           sendVars, workVars, slotVars
<1>1. ASSUME NEW p \in Producer, AllocXfer(p) PROVE TypedLocals'
  BY <1>1 DEF AllocXfer
<1>2. ASSUME NEW p \in Producer, SendShutdown(p) PROVE TypedLocals'
  BY <1>2 DEF SendShutdown, FreeOwnAndReturn
<1>3. ASSUME NEW p \in Producer, SendIdle(p) PROVE TypedLocals'
  BY <1>3 DEF SendIdle, FreeOwnAndReturn
<1>4. ASSUME NEW p \in Producer, SendClaim(p) PROVE TypedLocals'
  <2>1. Accept(p)
    BY <1>4 DEF SendClaim
  <2>2. stats' \in [submitted : Nat, dropped : Nat, displayed : Nat]
        /\ seq' \in [Xfer -> Nat]
    BY <2>1, AcceptTypes
  <2> QED
    BY <1>4, <2>2 DEF SendClaim
<1>5. ASSUME NEW p \in Producer, SendCoalesce(p) PROVE TypedLocals'
  <2>1. Accept(p)
    BY <1>5 DEF SendCoalesce
  <2>2. stats' \in [submitted : Nat, dropped : Nat, displayed : Nat]
        /\ seq' \in [Xfer -> Nat]
    BY <2>1, AcceptTypes
  <2> QED
    BY <1>5, <2>2 DEF SendCoalesce
<1>6. ASSUME NEW p \in Producer, FreeDisplaced(p) PROVE TypedLocals'
  BY <1>6 DEF FreeDisplaced, FreeOwnAndReturn
<1>7. ASSUME NEW p \in Producer, SendSubmit(p) PROVE TypedLocals'
  BY <1>7 DEF SendSubmit, XferSubmit, Urb
<1>8. ASSUME NEW p \in Producer, SendUndo(p) PROVE TypedLocals'
  BY <1>8, ZenonT(60) DEF SendUndo, FreeOwnAndReturn, ClearCurrent
<1>9. ASSUME NEW x \in Xfer, CtrlDone(x) PROVE TypedLocals'
  BY <1>9 DEF CtrlDone, Urb
<1>10. ASSUME NEW x \in Xfer, BulkDone(x) PROVE TypedLocals'
  BY <1>10 DEF BulkDone
<1>11. ASSUME NEW u \in Urb, UrbAbort(u) PROVE TypedLocals'
  BY <1>11 DEF UrbAbort
<1>12. CASE WorkTake
  BY <1>12 DEF WorkTake, ClearCurrent
<1>13. CASE WorkFree
  BY <1>13 DEF WorkFree
<1>14. CASE WorkSubmit
  <2>1. nxt \in Xfer /\ done = NoXfer /\ wpc = "submit"
    BY <1>14 DEF WorkSubmit
  <2>2. anchored' \subseteq Urb
    BY <1>14, <2>1, WorkSubmitCases DEF Urb
  <2>3. late' \in BOOLEAN
    BY <1>14 DEF WorkSubmit
  <2>4. /\ nxt' \in MaybeXfer /\ wpc' \in {"out", "free", "submit", "undo"}
        /\ wpc' = "out" => nxt' = NoXfer
        /\ wpc' \in {"submit", "undo"} => nxt' # NoXfer
    BY <1>14, <2>1 DEF WorkSubmit
  <2> QED
    BY <1>14, <2>1, <2>2, <2>3, <2>4 DEF WorkSubmit
<1>15. CASE WorkUndo
  BY <1>15 DEF WorkUndo, ClearCurrent
<1>16. CASE ShutStop \/ ShutUnplug \/ ShutChildrenGone \/ ShutKilled
  <2>1. CASE ShutStop
    BY <2>1 DEF ShutStop
  <2>2. CASE ShutUnplug \/ ShutChildrenGone \/ ShutKilled
    BY <2>2 DEF ShutUnplug, ShutChildrenGone, ShutKilled
  <2> QED
    BY <1>16, <2>1, <2>2
<1>17. CASE ShutCancel \/ ShutTake \/ ToggleIdle
  <2>1. CASE ShutCancel
    BY <2>1 DEF ShutCancel
  <2>2. CASE ShutTake
    BY <2>2 DEF ShutTake
  <2>3. CASE ToggleIdle
    BY <2>3 DEF ToggleIdle
  <2> QED
    BY <1>17, <2>1, <2>2, <2>3
<1>18. CASE UNCHANGED vars
  BY <1>18 DEF vars
<1> QED
  BY <1>1, <1>2, <1>3, <1>4, <1>5, <1>6, <1>7, <1>8, <1>9, <1>10, <1>11,
     <1>12, <1>13, <1>14, <1>15, <1>16, <1>17, <1>18
     DEF Next, SendStep, UrbStep, WorkStep, ShutStep, UrbError, ShutKillUrb,
         Unbound

(* Every variable of the frame pipeline keeps its type under every step of *)
(* mpro_pipeline.c and of the disconnect, whatever faults occur.           *)
THEOREM PipelineTypeCorrect == Spec => []TypeOK
<1>1. TypedLocals => TypeOK
  BY DEF TypedLocals
<1> QED
  BY <1>1, InitTyped, NextTyped, PTL DEF Spec

-----------------------------------------------------------------------------
(* Exactly the xfers with an owner are allocated.  With the other parts of *)
(* the invariant this says that Held = live.                               *)
LiveInv ==
    \A x \in Xfer :
        x \in live <=> \/ x \in {current_xfer, pending_xfer, done}
                      \/ \E p \in Producer : own[p] = x

SafeInv ==
    /\ TypedLocals
    /\ OwnersInv
    /\ TokenInv
    /\ ShutInv
    /\ UrbOfCurrent
    /\ InFlightHasOwner
    /\ LiveInv

(* Initially nothing is allocated and nobody holds the token.              *)
LEMMA InitSafe == Init => SafeInv
<1> SUFFICES ASSUME Init PROVE SafeInv
  OBVIOUS
<1>1. TypedLocals
  BY InitTyped
<1> QED
  BY <1>1, XferAssumption DEF Init, SafeInv, OwnersInv, TokenInv, Submitting, ShutInv,
     UrbOfCurrent, InFlightHasOwner,
        Straggling, LiveInv

(* One step of the pipeline, action by action; the actions that move an    *)
(* xfer to or from USB or the completion work, conjunct by conjunct.       *)
LEMMA NextSafe ==
    ASSUME SafeInv, [Next]_vars
    PROVE  SafeInv'
<1>0. TypedLocals'
  BY NextTyped DEF SafeInv
<1> USE XferAssumption, <1>0
    DEF SafeInv, TypedLocals, TypeOK, LocalsInv, MaybeXfer, Urb, sendVars,
        workVars, slotVars, OwnersInv, TokenInv, Submitting, ShutInv,
        UrbOfCurrent, InFlightHasOwner,
        Straggling, LiveInv
<1>1. ASSUME NEW p \in Producer, AllocXfer(p) PROVE SafeInv'
  BY <1>1 DEF AllocXfer
<1>2. ASSUME NEW p \in Producer, SendShutdown(p) PROVE SafeInv'
  BY <1>2 DEF SendShutdown, FreeOwnAndReturn
<1>3. ASSUME NEW p \in Producer, SendIdle(p) PROVE SafeInv'
  BY <1>3 DEF SendIdle, FreeOwnAndReturn
<1>4. ASSUME NEW p \in Producer, SendClaim(p) PROVE SafeInv'
  BY <1>4 DEF SendClaim, Accept
<1>5. ASSUME NEW p \in Producer, SendCoalesce(p) PROVE SafeInv'
  BY <1>5 DEF SendCoalesce, Accept
<1>6. ASSUME NEW p \in Producer, FreeDisplaced(p) PROVE SafeInv'
  BY <1>6 DEF FreeDisplaced, FreeOwnAndReturn
<1>7. ASSUME NEW p \in Producer, SendSubmit(p) PROVE SafeInv'
  <2>1. OwnersInv'
    BY <1>7 DEF SendSubmit, XferSubmit
  <2>2. TokenInv'
    BY <1>7 DEF SendSubmit, XferSubmit
  <2>3. ShutInv'
    BY <1>7 DEF SendSubmit, XferSubmit
  <2>4. UrbOfCurrent'
    BY <1>7 DEF SendSubmit, XferSubmit
  <2>5. InFlightHasOwner'
    <3>1. CASE XferSubmit(own[p])
      <4>1. <<"ctrl", own[p]>> \in anchored'
        BY <3>1 DEF XferSubmit
      <4> QED
        BY <4>1 DEF InFlightHasOwner
    <3>2. CASE pc' = [pc EXCEPT ![p] = "undo"]
      <4>1. pc'[p] = "undo"
        BY <3>2
      <4> QED
        BY <4>1
    <3> QED
      BY <1>7, <3>1, <3>2 DEF SendSubmit
  <2>6. LiveInv'
    BY <1>7 DEF SendSubmit, XferSubmit
  <2> QED
    BY <2>1, <2>2, <2>3, <2>4, <2>5, <2>6
<1>8. ASSUME NEW p \in Producer, SendUndo(p) PROVE SafeInv'
  BY <1>8 DEF SendUndo, FreeOwnAndReturn, ClearCurrent
<1>9. ASSUME NEW x \in Xfer, CtrlDone(x) PROVE SafeInv'
  <2>1. OwnersInv'
    BY <1>9 DEF CtrlDone
  <2>2. TokenInv'
    BY <1>9 DEF CtrlDone
  <2>3. ShutInv'
    BY <1>9 DEF CtrlDone
  <2>4. UrbOfCurrent'
    BY <1>9 DEF CtrlDone
  <2>5. InFlightHasOwner'
    BY <1>9 DEF CtrlDone
  <2>6. LiveInv'
    BY <1>9 DEF CtrlDone
  <2> QED
    BY <2>1, <2>2, <2>3, <2>4, <2>5, <2>6
<1>10. ASSUME NEW x \in Xfer, BulkDone(x) PROVE SafeInv'
  BY <1>10 DEF BulkDone
<1>11. ASSUME NEW u \in Urb, UrbAbort(u) PROVE SafeInv'
  BY <1>11 DEF UrbAbort
<1>12. CASE WorkTake
  <2>1. OwnersInv'
    <3>1. CASE pending_xfer # NoXfer /\ running
      BY <1>12, <3>1 DEF WorkTake, ClearCurrent
    <3>2. CASE ~(pending_xfer # NoXfer /\ running)
      <4>1. /\ current_xfer' = NoXfer /\ done' = current_xfer /\ nxt' = NoXfer
            /\ pending_xfer' = pending_xfer /\ pc' = pc /\ own' = own
        BY <1>12, <3>2 DEF WorkTake, ClearCurrent
      <4>2. ~Submitting
        BY <1>12 DEF WorkTake
      <4> QED
        BY <4>1, <4>2
    <3> QED
      BY <3>1, <3>2
  <2>2. TokenInv'
    BY <1>12 DEF WorkTake, ClearCurrent
  <2>3. ShutInv'
    BY <1>12 DEF WorkTake, ClearCurrent
  <2>4. UrbOfCurrent'
    BY <1>12 DEF WorkTake, ClearCurrent
  <2>5. InFlightHasOwner'
    BY <1>12 DEF WorkTake, ClearCurrent
  <2>6. LiveInv'
    <3>1. /\ live' = live /\ own' = own /\ done' = current_xfer /\ done = NoXfer
      BY <1>12 DEF WorkTake
    <3>2. \/ current_xfer' = pending_xfer /\ pending_xfer' = NoXfer
          \/ current_xfer' = NoXfer /\ pending_xfer' = pending_xfer
      BY <1>12 DEF WorkTake, ClearCurrent
    <3> QED
      BY <3>1, <3>2
  <2> QED
    BY <2>1, <2>2, <2>3, <2>4, <2>5, <2>6
<1>13. CASE WorkFree
  BY <1>13 DEF WorkFree
<1>14. CASE WorkSubmit
  <2>1. OwnersInv'
    BY <1>14, WorkSubmitCases
  <2>2. TokenInv'
    BY <1>14, WorkSubmitCases
  <2>3. ShutInv'
    BY <1>14, WorkSubmitCases
  <2>4. UrbOfCurrent'
    BY <1>14, WorkSubmitCases
  <2>5. InFlightHasOwner'
    BY <1>14, WorkSubmitCases
  <2>6. LiveInv'
    BY <1>14, WorkSubmitCases
  <2> QED
    BY <2>1, <2>2, <2>3, <2>4, <2>5, <2>6
<1>15. CASE WorkUndo
  BY <1>15 DEF WorkUndo, ClearCurrent
<1>16. CASE ShutStop
  BY <1>16 DEF ShutStop
<1>17. CASE ShutUnplug
  BY <1>17 DEF ShutUnplug
<1>18. CASE ShutChildrenGone
  BY <1>18 DEF ShutChildrenGone
<1>19. CASE ShutKilled
  BY <1>19 DEF ShutKilled
<1>20. CASE ShutCancel
  BY <1>20 DEF ShutCancel
<1>21. CASE ShutTake
  BY <1>21 DEF ShutTake
<1>22. CASE ToggleIdle
  BY <1>22 DEF ToggleIdle
<1>23. CASE UNCHANGED vars
  BY <1>23 DEF vars
<1> QED
  BY <1>1, <1>2, <1>3, <1>4, <1>5, <1>6, <1>7, <1>8, <1>9, <1>10, <1>11, <1>12, <1>13, <1>14, <1>15, <1>16, <1>17, <1>18, <1>19, <1>20, <1>21, <1>22, <1>23
     DEF Next, SendStep, UrbStep, WorkStep, ShutStep, UrbError, ShutKillUrb,
         Unbound

(* Held is what LiveInv describes, since complete_work's next and the      *)
(* URBs, but for the straggler, point to current_xfer.                     *)
LEMMA SafeMeansHeldIsLive ==
    SafeInv => NoDanglingXfer /\ NoLeakedXfer
<1> SUFFICES ASSUME SafeInv PROVE NoDanglingXfer /\ NoLeakedXfer
  OBVIOUS
<1> USE DEF SafeInv, TypedLocals, TypeOK, MaybeXfer
<1>1. \A u \in anchored : u[2] \in Xfer /\ (u[2] = current_xfer \/ u[2] \in Straggler)
  BY DEF UrbOfCurrent, Urb, Straggler
<1>2. nxt = NoXfer \/ nxt = current_xfer
  BY DEF OwnersInv
<1>3. \A x \in Held \ Straggler :
        x \in Xfer /\ (\/ x \in {current_xfer, pending_xfer, done}
                       \/ \E p \in Producer : own[p] = x)
  BY <1>1, <1>2 DEF Held
<1>4. Held \ Straggler \subseteq live
  BY <1>3 DEF LiveInv
<1>5. ASSUME NEW x \in live PROVE x \in Held
  BY <1>5, XferAssumption DEF LiveInv, Held
<1> QED
  BY <1>4, <1>5 DEF NoDanglingXfer, NoLeakedXfer

(* The induction, once for all the theorems below.                         *)
LEMMA AlwaysSafe == Spec => []SafeInv
<1>1. SafeInv /\ [Next]_vars => SafeInv'
  BY NextSafe
<1> QED
  BY <1>1, InitSafe, PTL DEF Spec

(* No interleaving of producers, URB handlers, complete_work and           *)
(* mpro_io_shutdown frees an xfer that somebody still holds, but for a     *)
(* frame that complete_work submitted behind the kill of the URBs, and     *)
(* every allocated xfer has somebody to free it.                           *)
THEOREM XferMemorySafety ==
    Spec => [](NoDanglingXfer /\ NoLeakedXfer)
<1>1. SafeInv => NoDanglingXfer /\ NoLeakedXfer
  BY SafeMeansHeldIsLive
<1> QED
  BY <1>1, AlwaysSafe, PTL

(* "Single transfer in flight", and in_flight is never left set with       *)
(* nobody to clear it, whichever submission or URB fails: the pipeline     *)
(* cannot wedge itself.                                                    *)
THEOREM SingleTransferTheorem ==
    Spec => []SingleTransferInFlight
<1>1. SafeInv => SingleTransferInFlight
  BY DEF SafeInv, SingleTransferInFlight
<1> QED
  BY <1>1, AlwaysSafe, PTL

(* After mpro_io_shutdown no URB, no work and no xfer is left, unless      *)
(* complete_work submitted its frame between the kill and the cancellation,*)
(* and then one URB at most and no xfer but the one the work is to free.   *)
THEOREM ShutdownDrainsTheorem ==
    Spec => []ShutdownDrains
<1>1. SafeInv => ShutdownDrains
  <2> SUFFICES ASSUME SafeInv, shut = "down"
               PROVE  /\ ~late => anchored = {} /\ ~work_queued /\ wpc = "out" /\ live = {}
                      /\ \A u, v \in anchored : u = v
                      /\ live \subseteq {done}
    BY DEF ShutdownDrains, Drained
  <2> USE DEF SafeInv, TypedLocals
  <2>1. /\ current_xfer = NoXfer /\ pending_xfer = NoXfer
        /\ \A p \in Producer : own[p] = NoXfer
    BY DEF ShutInv, LocalsInv
  <2>2. live \subseteq {done}
    BY <2>1, XferAssumption DEF LiveInv, TypeOK
  <2>3. ~late => anchored = {} /\ ~work_queued /\ wpc = "out"
    BY DEF ShutInv
  <2>4. ~late => done = NoXfer
    BY <2>3 DEF LocalsInv
  <2>5. ~late => live = {}
    BY <2>2, <2>4, XferAssumption DEF LiveInv, TypeOK
  <2>6. \A u, v \in anchored : u = v
    BY DEF UrbOfCurrent
  <2> QED
    BY <2>2, <2>3, <2>5, <2>6
<1> QED
  BY <1>1, AlwaysSafe, PTL

------------------------------------------------------------------------------
(***************************************************************************)
(* The order of frames: the pipeline never shows an older frame after a    *)
(* newer one and implements LatestWinsMailbox, for every value of the      *)
(* constants that excludes errors in submitting control URBs.              *)
(***************************************************************************)

OrderedInv == SafeInv /\ OrderInv

(* Initially no frame has been accepted.                                   *)
LEMMA InitOrdered == Init => OrderInv
  BY DEF Init, OrderInv, PendingBehindCurrent

(* One step of the pipeline keeps the order and does not take the panel    *)
(* back.                                                                   *)
LEMMA NextOrdered ==
    ASSUME "submit" \notin Faults, OrderedInv, SafeInv', [Next]_vars
    PROVE  OrderInv' /\ shown' >= shown
<1> DEFINE Goal == OrderInv' /\ shown' >= shown
<1>0. /\ TypeOK /\ LocalsInv /\ OwnersInv /\ TokenInv /\ ShutInv /\ LiveInv
      /\ UrbOfCurrent /\ TypeOK'
  BY DEF OrderedInv, SafeInv, TypedLocals
<1> USE XferAssumption, <1>0
    DEF OrderedInv, OrderInv, PendingBehindCurrent, TypeOK, LocalsInv,
        MaybeXfer, sendVars, workVars, slotVars, OwnersInv, TokenInv,
        ShutInv, UrbOfCurrent, Straggling, LiveInv
<1>1. ASSUME NEW p \in Producer, AllocXfer(p) PROVE Goal
  BY <1>1 DEF AllocXfer
<1>2. ASSUME NEW p \in Producer, SendShutdown(p) PROVE Goal
  BY <1>2 DEF SendShutdown, FreeOwnAndReturn
<1>3. ASSUME NEW p \in Producer, SendIdle(p) PROVE Goal
  BY <1>3 DEF SendIdle, FreeOwnAndReturn
<1>4. ASSUME NEW p \in Producer, SendClaim(p) PROVE Goal
  <2>1. /\ stats'.submitted = stats.submitted + 1 /\ stats.submitted \in Nat
        /\ own[p] \in Xfer => seq'[own[p]] = stats.submitted + 1
        /\ \A x \in Xfer : x # own[p] => seq'[x] = seq[x]
    BY <1>4, AcceptTypes DEF SendClaim
  <2> QED
    BY <1>4, <2>1 DEF SendClaim
<1>5. ASSUME NEW p \in Producer, SendCoalesce(p) PROVE Goal
  <2>1. /\ stats'.submitted = stats.submitted + 1 /\ stats.submitted \in Nat
        /\ own[p] \in Xfer => seq'[own[p]] = stats.submitted + 1
        /\ \A x \in Xfer : x # own[p] => seq'[x] = seq[x]
    BY <1>5, AcceptTypes DEF SendCoalesce
  <2> QED
    BY <1>5, <2>1 DEF SendCoalesce
<1>6. ASSUME NEW p \in Producer, FreeDisplaced(p) PROVE Goal
  BY <1>6 DEF FreeDisplaced, FreeOwnAndReturn
<1>7. ASSUME NEW p \in Producer, SendSubmit(p) PROVE Goal
  BY <1>7 DEF SendSubmit, XferSubmit, SubmitMayFail
<1>8. ASSUME NEW p \in Producer, SendUndo(p) PROVE Goal
  BY <1>8 DEF SendUndo, FreeOwnAndReturn, ClearCurrent
<1>9. ASSUME NEW x \in Xfer, CtrlDone(x) PROVE Goal
  BY <1>9 DEF CtrlDone
<1>10. ASSUME NEW x \in Xfer, BulkDone(x) PROVE Goal
  BY <1>10 DEF BulkDone
<1>11. ASSUME NEW u \in Urb, UrbAbort(u) PROVE Goal
  BY <1>11 DEF UrbAbort
<1>12. CASE WorkTake
  <2>1. /\ running' = running /\ seq' = seq /\ stats' = stats /\ shown' = shown
        /\ pc' = pc /\ wpc' = "free" /\ shown \in Nat /\ stats.submitted \in Nat
        /\ anchored' = {}
    BY <1>12 DEF WorkTake
  <2>2. CASE pending_xfer # NoXfer /\ running
    <3>1. current_xfer' = pending_xfer /\ pending_xfer' = NoXfer
      BY <1>12, <2>2 DEF WorkTake
    <3> QED
      BY <2>1, <2>2, <3>1
  <2>3. CASE ~(pending_xfer # NoXfer /\ running)
    <3>1. current_xfer' = NoXfer /\ pending_xfer' = pending_xfer
      BY <1>12, <2>3 DEF WorkTake, ClearCurrent
    <3> QED
      BY <2>1, <2>3, <3>1
  <2> QED
    BY <2>2, <2>3
<1>13. CASE WorkFree
  BY <1>13 DEF WorkFree
<1>14. CASE WorkSubmit
  <2>1. /\ nxt = current_xfer /\ current_xfer # NoXfer
        /\ seq' = seq /\ stats' = stats /\ shown' = shown /\ pc' = pc
        /\ current_xfer' = current_xfer /\ pending_xfer' = pending_xfer
        /\ in_flight' = in_flight /\ running' = running
        /\ shown \in Nat /\ stats.submitted \in Nat
    BY <1>14 DEF WorkSubmit
  <2>2. \A u \in anchored' : u \in anchored \/ u[2] = current_xfer
    BY <1>14, <2>1, WorkSubmitCases
  <2>3. running => wpc' # "undo"
    BY <1>14 DEF WorkSubmit, SubmitMayFail
  <2> QED
    BY <2>1, <2>2, <2>3
<1>15. CASE WorkUndo
  BY <1>15 DEF WorkUndo, ClearCurrent
<1>16. CASE ShutStop
  BY <1>16 DEF ShutStop
<1>17. CASE ShutUnplug
  BY <1>17 DEF ShutUnplug
<1>18. CASE ShutChildrenGone
  BY <1>18 DEF ShutChildrenGone
<1>19. CASE ShutKilled
  BY <1>19 DEF ShutKilled
<1>20. CASE ShutCancel
  BY <1>20 DEF ShutCancel
<1>21. CASE ShutTake
  BY <1>21 DEF ShutTake
<1>22. CASE ToggleIdle
  BY <1>22 DEF ToggleIdle
<1>23. CASE UNCHANGED vars
  BY <1>23 DEF vars
<1> QED
  BY <1>1, <1>2, <1>3, <1>4, <1>5, <1>6, <1>7, <1>8, <1>9, <1>10, <1>11, <1>12, <1>13, <1>14, <1>15, <1>16, <1>17, <1>18, <1>19, <1>20, <1>21, <1>22, <1>23
     DEF Next, SendStep, UrbStep, WorkStep, ShutStep, UrbError, ShutKillUrb,
         Unbound

(* The induction, once for the theorems below.                             *)
LEMMA AlwaysOrdered ==
    ASSUME "submit" \notin Faults
    PROVE  Spec => []OrderedInv
<1>1. Init => OrderedInv
  BY InitSafe, InitOrdered DEF OrderedInv
<1>2. OrderedInv /\ [Next]_vars => OrderedInv'
  BY NextSafe, NextOrdered DEF OrderedInv
<1> QED
  BY <1>1, <1>2, PTL DEF Spec

(* A waiting frame is never stranded: a transfer whose completion fetches  *)
(* it is in flight.                                                        *)
THEOREM PendingNeverStranded ==
    ASSUME "submit" \notin Faults
    PROVE  Spec => []OrderInv
<1>1. OrderedInv => OrderInv
  BY DEF OrderedInv
<1> QED
  BY <1>1, AlwaysOrdered, PTL

(* "Stale frames are dropped automatically when newer ones arrive": the    *)
(* panel never goes back to an older frame, for any number of producers    *)
(* and frames, as long as no control URB fails to submit.                  *)
THEOREM LatestWinsTheorem ==
    ASSUME "submit" \notin Faults
    PROVE  Spec => LatestWins
<1>1. OrderedInv /\ OrderedInv' /\ [Next]_vars => [shown' >= shown]_vars
  BY NextOrdered DEF OrderedInv
<1> QED
  BY <1>1, AlwaysOrdered, PTL DEF Spec, LatestWins

-----------------------------------------------------------------------------
(* Every step of the pipeline is a step of the mailbox or leaves it alone. *)
LEMMA MailboxStep ==
    ASSUME "submit" \notin Faults, OrderedInv, OrderedInv', [Next]_vars
    PROVE  [Mailbox!Next]_(Mailbox!mailboxVars)
<1> DEFINE Goal == [Mailbox!Next]_(Mailbox!mailboxVars)
           Same == UNCHANGED <<running, stats.submitted, SeqOf(current_xfer),
                               SeqOf(pending_xfer), shown>>
<1>0. /\ TypeOK /\ LocalsInv /\ OwnersInv /\ TokenInv /\ ShutInv /\ LiveInv
      /\ UrbOfCurrent /\ OrderInv
  BY DEF OrderedInv, SafeInv, TypedLocals
<1>same. Same => Goal
  BY DEF Mailbox!mailboxVars
<1> USE XferAssumption, <1>0
    DEF OrderInv, PendingBehindCurrent, TypeOK, LocalsInv, MaybeXfer,
        sendVars, workVars, slotVars, OwnersInv, TokenInv, ShutInv,
        UrbOfCurrent, Straggling, LiveInv
<1>1. ASSUME NEW p \in Producer, AllocXfer(p) PROVE Goal
  <2>1. Same
    BY <1>1 DEF AllocXfer, SeqOf
  <2> QED
    BY <2>1, <1>same
<1>2. ASSUME NEW p \in Producer, SendShutdown(p) PROVE Goal
  <2>1. Same
    BY <1>2 DEF SendShutdown, FreeOwnAndReturn, SeqOf
  <2> QED
    BY <2>1, <1>same
<1>3. ASSUME NEW p \in Producer, SendIdle(p) PROVE Goal
  <2>1. Same
    BY <1>3 DEF SendIdle, FreeOwnAndReturn, SeqOf
  <2> QED
    BY <2>1, <1>same
<1>4. ASSUME NEW p \in Producer, SendClaim(p) PROVE Goal
  <2>1. /\ stats'.submitted = stats.submitted + 1 /\ stats.submitted \in Nat
        /\ own[p] \in Xfer => seq'[own[p]] = stats.submitted + 1
        /\ \A x \in Xfer : x # own[p] => seq'[x] = seq[x]
    BY <1>4, AcceptTypes DEF SendClaim
  <2>2. Mailbox!Offer
    BY <1>4, <2>1 DEF SendClaim, Mailbox!Offer, SeqOf
  <2> QED
    BY <2>2 DEF Mailbox!Next
<1>5. ASSUME NEW p \in Producer, SendCoalesce(p) PROVE Goal
  <2>1. /\ stats'.submitted = stats.submitted + 1 /\ stats.submitted \in Nat
        /\ own[p] \in Xfer => seq'[own[p]] = stats.submitted + 1
        /\ \A x \in Xfer : x # own[p] => seq'[x] = seq[x]
    BY <1>5, AcceptTypes DEF SendCoalesce
  <2>2. Mailbox!Offer
    BY <1>5, <2>1 DEF SendCoalesce, Mailbox!Offer, SeqOf
  <2> QED
    BY <2>2 DEF Mailbox!Next
<1>6. ASSUME NEW p \in Producer, FreeDisplaced(p) PROVE Goal
  <2>1. Same
    BY <1>6 DEF FreeDisplaced, FreeOwnAndReturn, SeqOf
  <2> QED
    BY <2>1, <1>same
<1>7. ASSUME NEW p \in Producer, SendSubmit(p) PROVE Goal
  <2>1. Same
    BY <1>7 DEF SendSubmit, XferSubmit, SeqOf
  <2> QED
    BY <2>1, <1>same
<1>8. ASSUME NEW p \in Producer, SendUndo(p) PROVE Goal
  <2>1. Mailbox!Abandon
    BY <1>8 DEF SendUndo, ClearCurrent, Mailbox!Abandon, SeqOf
  <2> QED
    BY <2>1 DEF Mailbox!Next
<1>9. ASSUME NEW x \in Xfer, CtrlDone(x) PROVE Goal
  <2>1. Same
    BY <1>9 DEF CtrlDone, SeqOf
  <2> QED
    BY <2>1, <1>same
<1>10. ASSUME NEW x \in Xfer, BulkDone(x) PROVE Goal
  <2>1. CASE x = current_xfer
    <3>1. Mailbox!Deliver
      BY <1>10, <2>1 DEF BulkDone, Mailbox!Deliver, SeqOf
    <3> QED
      BY <3>1 DEF Mailbox!Next
  <2>2. CASE x # current_xfer
    <3>1. late /\ shut = "down" /\ ~running
      BY <1>10, <2>2 DEF BulkDone
    <3>2. Mailbox!Straggle
      BY <1>10, <3>1 DEF BulkDone, Mailbox!Straggle, SeqOf
    <3> QED
      BY <3>2 DEF Mailbox!Next
  <2> QED
    BY <2>1, <2>2
<1>11. ASSUME NEW u \in Urb, UrbAbort(u) PROVE Goal
  <2>1. Same
    BY <1>11 DEF UrbAbort, SeqOf
  <2> QED
    BY <2>1, <1>same
<1>12. CASE WorkTake
  <2>1. CASE running
    <3>1. Mailbox!Advance
      <4>1. /\ current_xfer # NoXfer /\ seq[current_xfer] # 0
            /\ running' = running /\ stats' = stats /\ shown' = shown /\ seq' = seq
        BY <1>12, <2>1 DEF WorkTake
      <4>2. current_xfer' = pending_xfer /\ pending_xfer' = NoXfer
        BY <1>12, <2>1 DEF WorkTake, ClearCurrent
      <4> QED
        BY <2>1, <4>1, <4>2 DEF Mailbox!Advance, SeqOf
    <3> QED
      BY <3>1 DEF Mailbox!Next
  <2>2. CASE ~running
    <3>1. Mailbox!Abandon
      BY <1>12, <2>2 DEF WorkTake, ClearCurrent, Mailbox!Abandon, SeqOf
    <3> QED
      BY <3>1 DEF Mailbox!Next
  <2> QED
    BY <2>1, <2>2
<1>13. CASE WorkFree
  <2>1. Same
    BY <1>13 DEF WorkFree, SeqOf
  <2> QED
    BY <2>1, <1>same
<1>14. CASE WorkSubmit
  <2>1. Same
    BY <1>14 DEF WorkSubmit, XferSubmit, SeqOf
  <2> QED
    BY <2>1, <1>same
<1>15. CASE WorkUndo
  <2>1. Mailbox!Abandon
    BY <1>15 DEF WorkUndo, ClearCurrent, Mailbox!Abandon, SeqOf
  <2> QED
    BY <2>1 DEF Mailbox!Next
<1>16. CASE ShutStop
  <2>1. Mailbox!Close
    BY <1>16 DEF ShutStop, Mailbox!Close, SeqOf
  <2> QED
    BY <2>1 DEF Mailbox!Next
<1>17. CASE ShutUnplug
  <2>1. Same
    BY <1>17 DEF ShutUnplug, SeqOf
  <2> QED
    BY <2>1, <1>same
<1>18. CASE ShutChildrenGone
  <2>1. Same
    BY <1>18 DEF ShutChildrenGone, SeqOf
  <2> QED
    BY <2>1, <1>same
<1>19. CASE ShutKilled
  <2>1. Same
    BY <1>19 DEF ShutKilled, SeqOf
  <2> QED
    BY <2>1, <1>same
<1>20. CASE ShutCancel
  <2>1. Same
    BY <1>20 DEF ShutCancel, SeqOf
  <2> QED
    BY <2>1, <1>same
<1>21. CASE ShutTake
  <2>1. Mailbox!Abandon
    BY <1>21 DEF ShutTake, Mailbox!Abandon, SeqOf
  <2> QED
    BY <2>1 DEF Mailbox!Next
<1>22. CASE ToggleIdle
  <2>1. Same
    BY <1>22 DEF ToggleIdle, SeqOf
  <2> QED
    BY <2>1, <1>same
<1>23. CASE UNCHANGED vars
  <2>1. Same
    BY <1>23 DEF vars, SeqOf
  <2> QED
    BY <2>1, <1>same
<1> QED
  BY <1>1, <1>2, <1>3, <1>4, <1>5, <1>6, <1>7, <1>8, <1>9, <1>10, <1>11, <1>12, <1>13, <1>14, <1>15, <1>16, <1>17, <1>18, <1>19, <1>20, <1>21, <1>22, <1>23
     DEF Next, SendStep, UrbStep, WorkStep, ShutStep, UrbError, ShutKillUrb,
         Unbound

(* The frame pipeline implements the latest-wins mailbox: for producers    *)
(* and panel, xfers, URBs and completion work are invisible.               *)
THEOREM PipelineRefinesMailbox ==
    ASSUME "submit" \notin Faults
    PROVE  Spec => ImplementsMailbox
<1>1. Init => Mailbox!Init
  BY DEF Init, Mailbox!Init, SeqOf
<1>2. OrderedInv /\ OrderedInv' /\ [Next]_vars
        => [Mailbox!Next]_(Mailbox!mailboxVars)
  BY MailboxStep
<1> QED
  BY <1>1, <1>2, AlwaysOrdered, PTL DEF Spec, ImplementsMailbox, Mailbox!Spec
=============================================================================
