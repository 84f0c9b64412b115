---------------------------- MODULE GenericXmit ----------------------------
(***************************************************************************)
(* The transmit glue of the generic adapter (src/LINUX/netmap_linux.c,    *)
(* 138-221): generic_xmit_frame hands a pooled sk_buff to dev_queue_xmit, *)
(* and netmap_catch_packet_steering swaps the device's netdev_ops for a   *)
(* copy whose ndo_select_queue sends each frame to the hardware queue of  *)
(* the netmap ring it came from.                                          *)
(*                                                                         *)
(* The callers live in netmap_generic.c, outside src/: register enables   *)
(* steering and unregister disables it (both under rtnl), and txsync      *)
(* transmits the skb of a slot only after the stack has given its         *)
(* reference back (skb->users is 1 again).  The kernel side is the        *)
(* contract of dev_queue_xmit: it consumes one reference of the skb       *)
(* whatever it returns; NET_XMIT_SUCCESS and NET_XMIT_CN ("it does not    *)
(* guarantee that this packet is lost") may leave the skb queued for the  *)
(* driver, NET_XMIT_DROP and the negative errors free it at once.         *)
(***************************************************************************)
EXTENDS Integers, FiniteSets

CONSTANTS
  Skbs,          \* the sk_buffs of the tx pool
  NumTxQueues,   \* ifp->real_num_tx_queues
  MaxXmits       \* bound on the calls of generic_xmit_frame

ASSUME Skbs # {} /\ NumTxQueues \in Nat \ {0} /\ MaxXmits \in Nat \ {0}

VARIABLES
  users,        \* skb->users of every pool skb
  mapping,      \* skb->queue_mapping of every pool skb
  stack,        \* frames dev_queue_xmit has queued and the driver not yet freed
  netdev_ops,   \* ifp->netdev_ops: the driver's own, or &gna->generic_ndo
  if_transmit,  \* na->if_transmit, the saved netdev_ops pointer
  registered,   \* the generic adapter is registered (steering enabled)
  xmits,        \* calls of generic_xmit_frame so far
  last,         \* the last call: its skb, its return value, whether kept
  gen_ndo,      \* the contents of gna->generic_ndo
  steer_pc      \* progress of the enable branch of the steering switch

vars == <<users, mapping, stack, netdev_ops, if_transmit, registered, xmits,
          last, gen_ndo, steer_pc>>

(* generic_find_num_queues: one netmap tx ring per hardware tx queue and  *)
(* a single rx ring.                                                      *)
generic_find_num_queues == [txq |-> NumTxQueues, rxq |-> 1]

Queues == 0..(generic_find_num_queues.txq - 1)
Rings == Queues
Ops == {"driver", "generic_ndo"}
NdoContents == {"zero", "copied", "steer"}
SteerPCs == {"idle", "saved", "copied", "selected", "published"}

(* generic_netmap_register is still inside the enable branch.             *)
Registering == registered /\ steer_pc # "idle"

(* What dev_queue_xmit returns, and whether the stack kept the skb.       *)
Outcomes == {[ret |-> "NET_XMIT_SUCCESS", kept |-> TRUE],
             [ret |-> "NET_XMIT_CN",      kept |-> TRUE],
             [ret |-> "NET_XMIT_CN",      kept |-> FALSE],
             [ret |-> "NET_XMIT_DROP",    kept |-> FALSE],
             [ret |-> "ENETDOWN",         kept |-> FALSE]}

(* Mutant: a select_queue that ignores the mapping.                       *)
SelectQueueZero(m, map) == 0

(* generic_ndo_select_queue: skb_get_queue_mapping(m).                    *)
generic_ndo_select_queue(m, map) == map[m]

(* The queues dev_queue_xmit may pick: the one ndo_select_queue of the    *)
(* current netdev_ops returns, or any when the driver's ops choose.       *)
PickTx(m, map) ==
  IF netdev_ops = "generic_ndo" /\ gen_ndo = "steer"
  THEN {generic_ndo_select_queue(m, map)}
  ELSE Queues

(* Mutant: the reference for the stack is not taken.                      *)
XmitNoRef(m) == users

(* NM_ATOMIC_INC(&m->users): netmap keeps its own reference across        *)
(* dev_queue_xmit, which consumes one.                                    *)
TakeRef(m) == [users EXCEPT ![m] = @ + 1]

(***************************************************************************)
(* generic_xmit_frame(ifp, m, addr, len, ring_nr): refill the skb, take a *)
(* reference, set the queue mapping, dev_queue_xmit; 0 on                 *)
(* NET_XMIT_SUCCESS, -1 otherwise.                                        *)
(***************************************************************************)
generic_xmit_frame(m, ring_nr) ==
  /\ registered /\ ~Registering        \* txsync runs on a registered adapter
  /\ users[m] = 1                     \* the stack has released this skb
  /\ xmits < MaxXmits
  /\ LET ref == TakeRef(m)
         map == [mapping EXCEPT ![m] = ring_nr]
     IN  \E q \in PickTx(m, map), o \in Outcomes :
           /\ users' = IF o.kept THEN ref ELSE [ref EXCEPT ![m] = @ - 1]
           /\ stack' = IF o.kept
                         THEN stack \cup {[skb |-> m, ring |-> ring_nr, queue |-> q]}
                         ELSE stack
           /\ mapping' = map
           /\ last' = [skb |-> m, kept |-> o.kept,
                       ret |-> IF o.ret = "NET_XMIT_SUCCESS" THEN 0 ELSE -1]
  /\ xmits' = xmits + 1
  /\ UNCHANGED <<netdev_ops, if_transmit, registered, gen_ndo, steer_pc>>

(* The driver transmits a queued frame and frees the skb (kfree_skb drops *)
(* one reference).                                                        *)
DriverFree(f) ==
  /\ stack' = stack \ {f}
  /\ users' = [users EXCEPT ![f.skb] = @ - 1]
  /\ UNCHANGED <<mapping, netdev_ops, if_transmit, registered, xmits, last,
                 gen_ndo, steer_pc>>

(***************************************************************************)
(* netmap_catch_packet_steering runs under rtnl, but dev_queue_xmit on    *)
(* other CPUs reads ifp->netdev_ops without it (lines 156-159), so the    *)
(* four stores of the enable branch are four steps, in source order:      *)
(*   "idle"     -> na->if_transmit = ifp->netdev_ops          ("saved")   *)
(*   "saved"    -> gna->generic_ndo = *ifp->netdev_ops        ("copied")  *)
(*   "copied"   -> generic_ndo.ndo_select_queue = ours        ("selected")*)
(*   "selected" -> ifp->netdev_ops = &gna->generic_ndo        ("idle")    *)
(* gen_ndo is what gna->generic_ndo holds: "zero" before the first copy,  *)
(* "copied" (the driver's ops), "steer" (with our ndo_select_queue).      *)
(* The copy of *ifp->netdev_ops is the driver's ops while those are       *)
(* installed, and netmap's own copy (no change) otherwise.  The disable   *)
(* branch is the single store restoring the saved pointer.                *)
(***************************************************************************)
SaveStep == /\ steer_pc = "idle"
            /\ if_transmit' = netdev_ops /\ steer_pc' = "saved"
            /\ UNCHANGED <<netdev_ops, gen_ndo>>
CopyStep(next) ==
  /\ gen_ndo' = IF netdev_ops = "driver" THEN "copied" ELSE gen_ndo
  /\ steer_pc' = next /\ UNCHANGED <<netdev_ops, if_transmit>>
SelectStep(next) ==
  /\ gen_ndo' = "steer" /\ steer_pc' = next
  /\ UNCHANGED <<netdev_ops, if_transmit>>
PublishStep(next) ==
  /\ netdev_ops' = "generic_ndo" /\ steer_pc' = next
  /\ UNCHANGED <<if_transmit, gen_ndo>>
Restore == /\ netdev_ops' = if_transmit
           /\ UNCHANGED <<if_transmit, gen_ndo, steer_pc>>

(* Mutant: the old pointer is saved after netdev_ops has been replaced.   *)
SteeringSaveLate(enable) ==
  IF enable THEN \/ steer_pc = "idle" /\ CopyStep("copied")
                 \/ steer_pc = "copied" /\ SelectStep("selected")
                 \/ steer_pc = "selected" /\ PublishStep("published")
                 \/ /\ steer_pc = "published"
                    /\ if_transmit' = netdev_ops /\ steer_pc' = "idle"
                    /\ UNCHANGED <<netdev_ops, gen_ndo>>
  ELSE Restore

(* netmap_catch_packet_steering(gna, enable): one store per step.         *)
netmap_catch_packet_steering(enable) ==
  IF enable THEN \/ SaveStep
                 \/ steer_pc = "saved" /\ CopyStep("copied")
                 \/ steer_pc = "copied" /\ SelectStep("selected")
                 \/ steer_pc = "selected" /\ PublishStep("idle")
  ELSE Restore

(* The register and unregister paths of the generic adapter, under rtnl:  *)
(* register goes through the steps of the enable branch; txsync and       *)
(* unregister come only once it has returned (steer_pc back at "idle").   *)
Register ==
  /\ ~registered \/ Registering
  /\ netmap_catch_packet_steering(TRUE)
  /\ registered' = TRUE
  /\ UNCHANGED <<users, mapping, stack, xmits, last>>

Unregister ==
  /\ registered /\ ~Registering
  /\ netmap_catch_packet_steering(FALSE)
  /\ registered' = FALSE
  /\ UNCHANGED <<users, mapping, stack, xmits, last>>

Init ==
  /\ users = [m \in Skbs |-> 1]
  /\ mapping = [m \in Skbs |-> 0]
  /\ stack = {}
  /\ netdev_ops = "driver"
  /\ if_transmit = "driver"
  /\ registered = FALSE
  /\ xmits = 0
  /\ last = [skb |-> CHOOSE m \in Skbs : TRUE, kept |-> FALSE, ret |-> 0]
  /\ gen_ndo = "zero"
  /\ steer_pc = "idle"

Next ==
  \/ \E m \in Skbs, r \in Rings : generic_xmit_frame(m, r)
  \/ \E f \in stack : DriverFree(f)
  \/ Register
  \/ Unregister

Spec == Init /\ [][Next]_vars

-----------------------------------------------------------------------------
TypeOK ==
  /\ users \in [Skbs -> Nat]
  /\ mapping \in [Skbs -> Queues]
  /\ stack \subseteq [skb : Skbs, ring : Rings, queue : Queues]
  /\ netdev_ops \in Ops /\ if_transmit \in Ops
  /\ registered \in BOOLEAN
  /\ xmits \in 0..MaxXmits
  /\ gen_ndo \in NdoContents /\ steer_pc \in SteerPCs

(* The skb reference the stack consumes is the one generic_xmit_frame     *)
(* takes with NM_ATOMIC_INC: netmap's own reference survives every        *)
(* outcome of dev_queue_xmit and every driver free, so skb->users is one  *)
(* plus the frames of that skb the stack still holds, and never 0.        *)
PoolSkbRetained ==
  \A m \in Skbs : users[m] = 1 + Cardinality({f \in stack : f.skb = m})

(* Packet steering: every frame generic_xmit_frame queues goes to the     *)
(* hardware queue of the netmap ring it was sent for, through             *)
(* skb_set_queue_mapping and generic_ndo_select_queue.                    *)
FramesOnRingQueue == \A f \in stack : f.queue = f.ring

(* Steering over register/unregister cycles: na->if_transmit only ever    *)
(* saves the driver's own netdev_ops (never netmap's copy, which would    *)
(* be restored as a dangling pointer into gna), and the copy is installed *)
(* exactly while the adapter is registered: never outside register and  *)
(* unregister, always once register has returned.                        *)
OpsOwnedByAdapter ==
  /\ if_transmit = "driver"
  /\ netdev_ops = "generic_ndo" => registered
  /\ registered /\ ~Registering => netdev_ops = "generic_ndo"

(* generic_xmit_frame's comment (line 166): -1 means the frame was        *)
(* dropped or failed.  A -1 return leaves no frame of that skb with the   *)
(* stack.                                                                 *)
XmitResultTruthful == last.ret = -1 => ~last.kept

=============================================================================
