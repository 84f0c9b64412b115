------------------------------ MODULE NetmapTx ------------------------------
(***************************************************************************)
(* The transmit side of the netmap socket: netmap_socket_sendmsg          *)
(* (src/LINUX/netmap_linux.c) copies a caller's iovec[] into consecutive  *)
(* slots of tx ring 0, then calls the adapter's nm_txsync, which hands    *)
(* the new slots to the NIC and reclaims the ones the NIC has completed.  *)
(*                                                                         *)
(* nm_txsync and the NIC live outside src/ (netmap_generic.c and the      *)
(* drivers) and are modelled from the spec: txsync transmits the slots    *)
(* between hwcur and cur, in order, onto the wire, and gives back to      *)
(* ring->avail the slots the NIC has completed since the last txsync.     *)
(*                                                                         *)
(* Data is abstracted: byte p of the k-th accepted message is <<k, p>>,   *)
(* so a slot's payload is a sequence of such pairs and a reordered, lost  *)
(* or duplicated byte is visible on the wire.  One slot of the ring is    *)
(* never available (hwavail starts at NumSlots - 1, as netmap_reset sets  *)
(* it for a tx ring).                                                     *)
(***************************************************************************)
EXTENDS Naturals, Sequences, SequencesExt

CONSTANTS
  NumSlots,       \* ring->num_slots
  BufSize,        \* ring->nr_buf_size
  MaxIovLen,      \* bound on iov_len of one iovec
  MaxIovCnt,      \* bound on msg_iovlen
  MaxMsgs,        \* bound on the messages sendmsg accepts
  ExternalTxSync, \* whether some other context (poll, NIOCTXSYNC) syncs
  CopyFaults      \* whether copy_from_user may fault on the caller's buffer

ASSUME /\ NumSlots \in Nat /\ NumSlots >= 2
       /\ BufSize \in Nat \ {0}
       /\ MaxIovLen \in Nat /\ MaxIovCnt \in Nat \ {0}
       /\ MaxMsgs \in Nat \ {0}
       /\ ExternalTxSync \in BOOLEAN /\ CopyFaults \in BOOLEAN

VARIABLES
  slot,       \* ring->slot[]: [flags, data]; len is Len(data)
  cur,        \* ring->cur
  avail,      \* ring->avail
  hwcur,      \* kring->nr_hwcur
  hwavail,    \* kring->nr_hwavail
  busy,       \* slots handed to the NIC and not yet reclaimed
  completed,  \* of those, how many the NIC has finished with
  wire,       \* history: every slot handed to the NIC, in order
  sent        \* history: the payload of every message sendmsg accepted

vars == <<slot, cur, avail, hwcur, hwavail, busy, completed, wire, sent>>

Slots == 0..(NumSlots - 1)
Flags == {"MOREFRAG", "VNET_HDR"}
Byte == (0..MaxMsgs) \X (0..(MaxIovLen * MaxIovCnt))
Zero == <<0, 0>>   \* a byte copy_from_user zero-filled after a fault
Slot == [flags : SUBSET Flags, data : Seq(Byte)]

(* The iovec[] a caller may pass: the iov_len of each entry.              *)
IovLens == UNION {[1..n -> 0..MaxIovLen] : n \in 1..MaxIovCnt}

(* Stepping d slots forward, NETMAP_RING_NEXT applied d times.           *)
RingAdd(i, d) == (i + d) % NumSlots

min(a, b) == IF a < b THEN a ELSE b

(***************************************************************************)
(* The copy loop of sendmsg, lines 267-307, cut into the pieces it writes *)
(* one per slot: each iovec is split into chunks of at most nm_buf_size   *)
(* bytes; a chunk is the position in the message before it and its size.  *)
(***************************************************************************)
RECURSIVE IovChunks(_, _)
IovChunks(iov_frag_size, offset) ==
  IF iov_frag_size = 0 THEN << >>
  ELSE LET nm_frag_size == min(iov_frag_size, BufSize)
       IN  <<[start |-> offset, size |-> nm_frag_size]>>
             \o IovChunks(iov_frag_size - nm_frag_size, offset + nm_frag_size)

RECURSIVE Chunks(_, _)
Chunks(iov, offset) ==
  IF iov = << >> THEN << >>
  ELSE IovChunks(Head(iov), offset) \o Chunks(Tail(iov), offset + Head(iov))

(* The bytes of a chunk of message k.                                     *)
ChunkData(k, c) == [q \in 1..c.size |-> <<k, c.start + q>>]

(* Lines 296-298: when copy_from_user faults, the rest of the slot is     *)
(* zero-filled, the error is only logged, and the loop goes on.  The      *)
(* model lets the whole chunk fault.                                      *)
CopiedData(k, c, faulted) ==
  IF faulted THEN [q \in 1..c.size |-> Zero] ELSE ChunkData(k, c)

(* The slots the loop writes before it stops, for message k: the t-th     *)
(* chunk goes to slot cur + t - 1 with NS_MOREFRAG, and the first also    *)
(* with NS_VNET_HDR (slot_flags loses it after the first write); the copy *)
(* of chunk bad faults (0: none does).                                    *)
WriteChunks(s, k, cs, n, bad) ==
  [i \in Slots |->
     IF \E t \in 1..n : i = RingAdd(cur, t - 1)
       THEN LET t == CHOOSE t \in 1..n : i = RingAdd(cur, t - 1)
            IN  [flags |-> IF t = 1 THEN Flags ELSE {"MOREFRAG"},
                 data  |-> CopiedData(k, cs[t], t = bad)]
       ELSE s[i]]

(* Line 309: the last slot written ends the packet.                       *)
KeepLastMoreFrag(w, last) == w
ClearLastMoreFrag(w, last) == [w EXCEPT ![last].flags = @ \ {"MOREFRAG"}]

(* Lines 283-289: the loop stops at the first chunk with avail == 0, so   *)
(* only the first avail chunks reach the ring.  The mutant tests avail    *)
(* after the copy instead of before it.                                   *)
OutOfSlotsLateCheck(k, cs, bad) == WriteChunks(slot, k, cs, Len(cs), bad)
OutOfSlots(k, cs, bad) == WriteChunks(slot, k, cs, avail, bad)

(***************************************************************************)
(* nm_txsync (spec-modelled): hand slots hwcur..ncur-1 to the NIC, then   *)
(* reclaim the completed ones and publish kring->nr_hwavail as            *)
(* ring->avail.                                                           *)
(***************************************************************************)
(* Mutant: txsync forgets that reclaimed slots are no longer busy.       *)
TxSyncKeepsBusy(s, ncur) ==
  LET n == (ncur - hwcur + NumSlots) % NumSlots
  IN  /\ wire' = wire \o [t \in 1..n |-> s[RingAdd(hwcur, t - 1)]]
      /\ hwcur' = ncur
      /\ busy' = busy + n
      /\ hwavail' = hwavail - n + completed
      /\ avail' = hwavail - n + completed
      /\ completed' = 0

TxSync(s, ncur) ==
  LET n == (ncur - hwcur + NumSlots) % NumSlots
  IN  /\ wire' = wire \o [t \in 1..n |-> s[RingAdd(hwcur, t - 1)]]
      /\ hwcur' = ncur
      /\ busy' = busy + n - completed
      /\ hwavail' = hwavail - n + completed
      /\ avail' = hwavail - n + completed
      /\ completed' = 0

(***************************************************************************)
(* netmap_socket_sendmsg with an iovec[] of lengths iov, whose copy of    *)
(* chunk bad faults.                                                      *)
(***************************************************************************)
netmap_socket_sendmsg(iov, bad) ==
  LET k  == Len(sent) + 1
      cs == Chunks(iov, 0)
      n  == Len(cs)
  IN
  /\ Len(sent) < MaxMsgs
  /\ IF avail < Len(iov)
       THEN UNCHANGED vars                   \* not enough slots: return 0
     ELSE IF n > avail
       THEN \* ran out of slots inside the loop: return 0 with the slots
            \* written so far left unpublished
            /\ slot' = OutOfSlots(k, cs, bad)
            /\ UNCHANGED <<cur, avail, hwcur, hwavail, busy, completed, wire, sent>>
     ELSE LET last == IF n = 0 THEN cur ELSE RingAdd(cur, n - 1)
              w    == WriteChunks(slot, k, cs, n, bad)
              s    == ClearLastMoreFrag(w, last)
          IN  /\ slot' = s
              /\ cur' = RingAdd(cur, n)
              /\ TxSync(s, RingAdd(cur, n))
              /\ sent' = IF n = 0 THEN sent
                         ELSE Append(sent, FlattenSeq([t \in 1..n |-> ChunkData(k, cs[t])]))

(* The chunks whose copy may fault.                                       *)
Faults(iov) == IF CopyFaults THEN 0..Len(Chunks(iov, 0)) ELSE {0}

(* The NIC finishes transmitting the oldest busy slot.                    *)
NicComplete ==
  /\ completed < busy
  /\ completed' = completed + 1
  /\ UNCHANGED <<slot, cur, avail, hwcur, hwavail, busy, wire, sent>>

(* A txsync from outside the socket path (poll or NIOCTXSYNC).            *)
PollTxSync ==
  /\ ExternalTxSync
  /\ TxSync(slot, cur)
  /\ UNCHANGED <<slot, cur, sent>>

Init ==
  /\ slot = [i \in Slots |-> [flags |-> {}, data |-> << >>]]
  /\ cur = 0
  /\ avail = NumSlots - 1
  /\ hwcur = 0
  /\ hwavail = NumSlots - 1
  /\ busy = 0
  /\ completed = 0
  /\ wire = << >>
  /\ sent = << >>

Next ==
  \/ \E iov \in IovLens : \E bad \in Faults(iov) : netmap_socket_sendmsg(iov, bad)
  \/ NicComplete
  \/ PollTxSync

(* The caller retries sendmsg, and the NIC completes what it was given.   *)
Fairness ==
  /\ WF_vars(\E iov \in IovLens : \E bad \in Faults(iov) : netmap_socket_sendmsg(iov, bad))
  /\ WF_vars(NicComplete)
  /\ WF_vars(PollTxSync)

Spec == Init /\ [][Next]_vars /\ Fairness

-----------------------------------------------------------------------------
(* How a receiver of the wire cuts it into packets: a slot without        *)
(* NS_MOREFRAG ends the packet.                                           *)
RECURSIVE Reassemble(_, _)
Reassemble(fs, acc) ==
  IF fs = << >> THEN << >>
  ELSE LET d == acc \o Head(fs).data
       IN  IF "MOREFRAG" \in Head(fs).flags
             THEN Reassemble(Tail(fs), d)
             ELSE <<d>> \o Reassemble(Tail(fs), << >>)

(* The slot handed to the NIC t slots before hwcur, t in 1..busy.         *)
BusySlot(t) == RingAdd(hwcur, NumSlots - t)

TypeOK ==
  /\ slot \in [Slots -> Slot]
  /\ cur \in Slots /\ hwcur \in Slots
  /\ avail \in 0..(NumSlots - 1) /\ hwavail \in 0..(NumSlots - 1)
  /\ busy \in 0..(NumSlots - 1) /\ completed \in 0..busy
  /\ wire \in Seq(Slot)
  /\ sent \in Seq(Seq(Byte))

(* Round trip (spec 8): cutting the transmitted slots at the slots whose  *)
(* NS_MOREFRAG sendmsg cleared (line 309) gives back exactly the messages *)
(* sendmsg accepted, byte for byte and in order; no transmitted packet is *)
(* left open, and NS_VNET_HDR marks exactly the first slot of each.       *)
WireCarriesMessages ==
  /\ Reassemble(wire, << >>) = sent
  /\ wire # << >> => "MOREFRAG" \notin Last(wire).flags
  /\ \A t \in 1..Len(wire) :
       ("VNET_HDR" \in wire[t].flags) <=> (t = 1 \/ "MOREFRAG" \notin wire[t - 1].flags)

(* sendmsg writes only slots the ring gives it (the avail tests at lines  *)
(* 262 and 287): every slot still owned by the NIC holds what was handed  *)
(* to it.                                                                 *)
BusySlotsUntouched ==
  \A t \in 1..busy : slot[BusySlot(t)] = wire[Len(wire) - t + 1]

(* Out of space is recoverable (spec 7, "caller should retry later"):     *)
(* once the ring is full, the retried sendmsg eventually finds free slots *)
(* again, after the NIC completes the busy ones.                          *)
RingRecovers == (avail = 0 /\ Len(sent) < MaxMsgs) ~> (avail > 0)

(* Refinement: seen through the packets a receiver of the wire cuts out   *)
(* of it, netmap_socket_sendmsg with its trailing nm_txsync implements    *)
(* the ingest contract of IngestChannel: every step publishes exactly     *)
(* the one message it accepts, whole, or nothing (the out-of-slots exits  *)
(* at lines 262 and 287 and the NIC's own steps included).                *)
Channel == INSTANCE IngestChannel
             WITH accepted <- sent, published <- Reassemble(wire, << >>),
                  MaxLen <- MaxIovLen * MaxIovCnt

ImplementsIngestChannel == Channel!Spec
=============================================================================
