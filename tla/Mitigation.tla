----------------------------- MODULE Mitigation -----------------------------
(***************************************************************************)
(* Receive-notification mitigation of the generic netmap adapter           *)
(* (src/LINUX/netmap_linux.c, "MITIGATION SUPPORT").                       *)
(*                                                                         *)
(* Two execution contexts share gna->mit_pending and the hrtimer:          *)
(*  - the receive path, run once per packet on a CPU of CPUs (the caller  *)
(*    generic_rx_handler lives in netmap_generic.c, outside src/, and is   *)
(*    modelled from the spec, section 4.4);                               *)
(*  - generic_timer_handler, run by the hrtimer core when the timer       *)
(*    expires.                                                            *)
(* Neither takes a lock: every read or write of a shared field is its own *)
(* step.  The hrtimer is modelled by the two facts hrtimer_active() looks *)
(* at: whether the timer is queued, and whether its callback is running   *)
(* (hpc # "idle").  Time itself is abstracted: an expiry can happen at    *)
(* any moment after the timer is queued, and one expiry is one interval.  *)
(***************************************************************************)
EXTENDS Naturals, FiniteSets

CONSTANTS
  CPUs,         \* contexts that may run the receive path concurrently
  MaxArrivals   \* bound on the number of packets that arrive

ASSUME CPUs # {} /\ MaxArrivals \in Nat \ {0}

VARIABLES
  mit_pending,  \* gna->mit_pending
  queued,       \* the hrtimer is enqueued (armed, not yet expired)
  hpc,          \* where generic_timer_handler is; "idle" when not running
  apc,          \* where each CPU is in the receive path
  arrived,      \* packets that have arrived so far
  unnotified,   \* a queued packet arrived after the last notification began
  dpc           \* where the adapter's rx hook is: "detached" before it is
                \* registered, "attached", then "sync", "cancel", "done"

vars == <<mit_pending, queued, hpc, apc, arrived, unnotified, dpc>>

HandlerPCs == {"idle", "check", "norestart", "clear", "notify", "restart"}
ArrivalPCs == {"idle", "mitigate", "irq", "start"}
DetachPCs == {"detached", "attached", "sync", "cancel", "done"}

(* netmap_mitigation_active: hrtimer_active() is true while the timer is  *)
(* queued or its callback is running.                                     *)
netmap_mitigation_active == queued \/ hpc # "idle"

(* A notification (netmap_common_irq / netmap_generic_irq) wakes the      *)
(* reader, which then sees every packet queued before it.  The handler's  *)
(* IFCAP_NETMAP test (line 66) is taken as true: the flag is cleared by   *)
(* the unregister path of netmap_generic.c, outside src/.                 *)
Notify == unnotified' = FALSE

Init ==
  /\ mit_pending = 0                      \* netmap_mitigation_init
  /\ queued = FALSE
  /\ hpc = "idle"
  /\ apc = [c \in CPUs |-> "idle"]
  /\ arrived = 0
  /\ unnotified = FALSE
  /\ dpc = "detached"

(***************************************************************************)
(* Receive path (generic_rx_handler, spec 4.4): queue the packet; if the  *)
(* timer is not active, notify and start it, else set mit_pending.        *)
(***************************************************************************)
ArrivalEnqueue(c) ==
  /\ apc[c] = "idle"
  /\ dpc = "attached"                     \* linux_generic_rx_handler registered
  /\ arrived < MaxArrivals
  /\ arrived' = arrived + 1
  /\ unnotified' = TRUE
  /\ apc' = [apc EXCEPT ![c] = "mitigate"]
  /\ UNCHANGED <<mit_pending, queued, hpc, dpc>>

(* Mutant: the receive path counts pending packets instead of flagging.  *)
ArrivalMitigateCounts(c) ==
  /\ apc[c] = "mitigate"
  /\ IF netmap_mitigation_active
       THEN /\ mit_pending' = mit_pending + 1
            /\ apc' = [apc EXCEPT ![c] = "idle"]
       ELSE /\ apc' = [apc EXCEPT ![c] = "irq"]
            /\ UNCHANGED mit_pending
  /\ UNCHANGED <<queued, hpc, arrived, unnotified, dpc>>

ArrivalMitigate(c) ==
  /\ apc[c] = "mitigate"
  /\ IF netmap_mitigation_active
       THEN /\ mit_pending' = 1
            /\ apc' = [apc EXCEPT ![c] = "idle"]
       ELSE /\ apc' = [apc EXCEPT ![c] = "irq"]
            /\ UNCHANGED mit_pending
  /\ UNCHANGED <<queued, hpc, arrived, unnotified, dpc>>

ArrivalIrq(c) ==
  /\ apc[c] = "irq"
  /\ Notify
  /\ apc' = [apc EXCEPT ![c] = "start"]
  /\ UNCHANGED <<mit_pending, queued, hpc, arrived, dpc>>

(* netmap_mitigation_start: hrtimer_start queues the timer afresh.        *)
netmap_mitigation_start(c) ==
  /\ apc[c] = "start"
  /\ queued' = TRUE
  /\ apc' = [apc EXCEPT ![c] = "idle"]
  /\ UNCHANGED <<mit_pending, hpc, arrived, unnotified, dpc>>

(***************************************************************************)
(* Timer side: the hrtimer core dequeues the expired timer and runs       *)
(* generic_timer_handler; its return value decides whether the core       *)
(* queues the timer again.                                                *)
(***************************************************************************)
TimerExpire ==
  /\ queued
  /\ hpc = "idle"
  /\ queued' = FALSE
  /\ hpc' = "check"
  /\ UNCHANGED <<mit_pending, apc, arrived, unnotified, dpc>>

HandlerCheck ==
  /\ hpc = "check"
  /\ hpc' = IF mit_pending = 0 THEN "norestart" ELSE "clear"
  /\ UNCHANGED <<mit_pending, queued, apc, arrived, unnotified, dpc>>

(* return HRTIMER_NORESTART: the callback ends, the timer stays idle.     *)
HandlerNoRestart ==
  /\ hpc = "norestart"
  /\ hpc' = "idle"
  /\ UNCHANGED <<mit_pending, queued, apc, arrived, unnotified, dpc>>

(* Mutant: the handler forgets to reset mit_pending.                      *)
HandlerClearKeepsPending ==
  /\ hpc = "clear"
  /\ hpc' = "notify"
  /\ UNCHANGED <<mit_pending, queued, apc, arrived, unnotified, dpc>>

HandlerClear ==
  /\ hpc = "clear"
  /\ mit_pending' = 0
  /\ hpc' = "notify"
  /\ UNCHANGED <<queued, apc, arrived, unnotified, dpc>>

HandlerNotify ==
  /\ hpc = "notify"
  /\ Notify
  /\ hpc' = "restart"
  /\ UNCHANGED <<mit_pending, queued, apc, arrived, dpc>>

(* netmap_mitigation_restart (hrtimer_forward_now) and return             *)
(* HRTIMER_RESTART: the core queues the timer for one more interval.      *)
netmap_mitigation_restart ==
  /\ hpc = "restart"
  /\ queued' = TRUE
  /\ hpc' = "idle"
  /\ UNCHANGED <<mit_pending, apc, arrived, unnotified, dpc>>

TimerHandler ==
  \/ HandlerCheck
  \/ HandlerNoRestart
  \/ HandlerClear
  \/ HandlerNotify
  \/ netmap_mitigation_restart

ReceivePath(c) ==
  \/ ArrivalMitigate(c)
  \/ ArrivalIrq(c)
  \/ netmap_mitigation_start(c)

(***************************************************************************)
(* Detach.  The generic adapter's unregister path (netmap_generic.c,      *)
(* spec 5) first stops intercepting receives, then cancels the timer.     *)
(***************************************************************************)
(* netmap_catch_rx(na, intercept): netdev_rx_handler_register installs    *)
(* linux_generic_rx_handler, from when on every received packet enters    *)
(* the receive path (its -EBUSY return, when the device has a handler     *)
(* already, changes nothing here); netdev_rx_handler_unregister clears    *)
(* it, so no new packet enters the receive path.                          *)
netmap_catch_rx(intercept) ==
  /\ dpc = IF intercept THEN "detached" ELSE "attached"
  /\ dpc' = IF intercept THEN "attached" ELSE "sync"
  /\ UNCHANGED <<mit_pending, queued, hpc, apc, arrived, unnotified>>

(* ... and its synchronize_net waits until no CPU is inside the handler.  *)
RxHandlerSynced ==
  /\ dpc = "sync"
  /\ \A c \in CPUs : apc[c] = "idle"
  /\ dpc' = "cancel"
  /\ UNCHANGED <<mit_pending, queued, hpc, apc, arrived, unnotified>>

(* Mutant: hrtimer_try_to_cancel instead of hrtimer_cancel, which does    *)
(* not wait for a running callback.                                       *)
MitigationCleanupNoWait ==
  /\ dpc = "cancel"
  /\ queued' = FALSE
  /\ dpc' = "done"
  /\ UNCHANGED <<mit_pending, hpc, apc, arrived, unnotified>>

(* netmap_mitigation_cleanup: hrtimer_cancel waits for a running          *)
(* generic_timer_handler to return, then dequeues the timer, even if the  *)
(* callback has just re-armed it.                                         *)
netmap_mitigation_cleanup ==
  /\ dpc = "cancel"
  /\ hpc = "idle"
  /\ queued' = FALSE
  /\ dpc' = "done"
  /\ UNCHANGED <<mit_pending, hpc, apc, arrived, unnotified>>

Detach == netmap_catch_rx(FALSE) \/ RxHandlerSynced \/ netmap_mitigation_cleanup

(* linux_generic_rx_handler: generic_rx_handler queues the packet and     *)
(* runs the mitigation test, and the packet is consumed (the stack never  *)
(* sees it).                                                              *)
linux_generic_rx_handler(c) == ArrivalEnqueue(c) \/ ReceivePath(c)

Next ==
  \/ netmap_catch_rx(TRUE)
  \/ \E c \in CPUs : linux_generic_rx_handler(c)
  \/ TimerExpire
  \/ TimerHandler
  \/ Detach

(* A queued hrtimer fires, a running callback completes, and a receive    *)
(* path that has started handling a packet finishes it.  Arrivals         *)
(* themselves are not forced.                                             *)
Fairness ==
  /\ WF_vars(TimerExpire)
  /\ WF_vars(TimerHandler)
  /\ \A c \in CPUs : WF_vars(ReceivePath(c))

Spec == Init /\ [][Next]_vars /\ Fairness

-----------------------------------------------------------------------------
TypeOK ==
  /\ mit_pending \in {0, 1}
  /\ queued \in BOOLEAN
  /\ hpc \in HandlerPCs
  /\ apc \in [CPUs -> ArrivalPCs]
  /\ arrived \in 0..MaxArrivals
  /\ unnotified \in BOOLEAN
  /\ dpc \in DetachPCs

(* Quiescence: once packets stop arriving, generic_timer_handler          *)
(* eventually finds mit_pending clear and returns HRTIMER_NORESTART, so   *)
(* the timer does not keep restarting forever.                            *)
TimerQuiesces == <>[](~netmap_mitigation_active)

(* No lost wakeup (spec 4.4: "no arrival is ever silently dropped"): a    *)
(* packet queued by the receive path is eventually followed by a          *)
(* notification, either immediate or at the next timer expiry.            *)
ArrivalNotified == unnotified ~> ~unnotified

(* Teardown (spec 5: "any armed timer must be cancelled and awaited to    *)
(* ensure no expiry callback executes after teardown begins"): once       *)
(* netmap_mitigation_cleanup has returned, the timer is neither queued    *)
(* nor running, and nothing can arm it again.                             *)
NoTimerAfterCleanup == dpc = "done" => ~netmap_mitigation_active
=============================================================================
