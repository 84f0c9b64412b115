------------------------------ MODULE NetmapRx ------------------------------
(***************************************************************************)
(* The receive side of the netmap socket: netmap_socket_recvmsg           *)
(* (src/LINUX/netmap_linux.c:321-437) copies the packet at ring->cur of   *)
(* rx ring 0, possibly spread over several NS_MOREFRAG slots, into the    *)
(* caller's iovec[], and writes back ring->cur and ring->avail.           *)
(*                                                                         *)
(* The kernel side, nm_rxsync of the adapter (netmap_generic.c and the    *)
(* drivers, outside src/), is modelled from the spec: it fills free slots *)
(* after hwcur + hwavail with fragments the NIC has received, releases    *)
(* the slots the user moved ring->cur past, and publishes hwavail as      *)
(* ring->avail.  It runs between recvmsg calls, never inside one (one     *)
(* owner per ring direction, spec 5).                                     *)
(*                                                                         *)
(* Byte p of the k-th packet the NIC receives is <<k, p>>.                *)
(***************************************************************************)
EXTENDS Naturals, Sequences, SequencesExt, Functions

CONSTANTS
  NumSlots,     \* ring->num_slots
  BufSize,      \* ring->nr_buf_size
  Shapes,       \* fragment sizes a received packet may have, slot by slot
  IovChoices,   \* iov_len vectors a caller may pass to recvmsg
  MaxPkts,      \* bound on the packets the NIC receives
  MaxRecvs,     \* bound on the recvmsg calls that copy something
  WholePackets  \* TRUE: rxsync only publishes complete packets

ASSUME /\ NumSlots \in Nat /\ NumSlots >= 2
       /\ BufSize \in Nat \ {0}
       /\ Shapes \subseteq Seq(1..BufSize) /\ << >> \notin Shapes
       /\ IovChoices \subseteq Seq(Nat) /\ << >> \notin IovChoices
       /\ MaxPkts \in Nat \ {0} /\ MaxRecvs \in Nat \ {0}
       /\ WholePackets \in BOOLEAN

VARIABLES
  slot,       \* ring->slot[]: [flags, data]; len is Len(data)
  cur,        \* ring->cur
  avail,      \* ring->avail
  hwcur,      \* kring->nr_hwcur
  hwavail,    \* kring->nr_hwavail
  fifo,       \* fragments the NIC has received and rxsync not yet imported
  received,   \* history: the payload of every packet the NIC received
  delivered,  \* history: what every recvmsg that copied bytes returned
  lastcall    \* the last recvmsg: its iovec, the ring it saw, its result

vars == <<slot, cur, avail, hwcur, hwavail, fifo, received, delivered, lastcall>>

Slots == 0..(NumSlots - 1)
RingAdd(i, d) == (i + d) % NumSlots
min(a, b) == IF a < b THEN a ELSE b

Byte == (1..MaxPkts) \X Nat
Slot == [flags : SUBSET {"MOREFRAG"}, data : Seq(Byte)]

(* The slots a received packet k of the given shape occupies.             *)
Fragments(k, shape) ==
  LET start(f) == SumFunctionOnSet(shape, 1..(f - 1))
  IN  [f \in 1..Len(shape) |->
         [flags |-> IF f < Len(shape) THEN {"MOREFRAG"} ELSE {},
          data  |-> [q \in 1..shape[f] |-> <<k, start(f) + q>>]]]

(***************************************************************************)
(* The copy loop of recvmsg, lines 381-424.  A state of the loop holds    *)
(* its local variables; j counts iovecs from 0 as the code does.          *)
(***************************************************************************)
(* Mutant: line 400 left out, so the flag of the previous slot is kept.  *)
TakeNextSlotStaleMorefrag(st) ==
  LET i == RingAdd(st.i, 1)
  IN  [st EXCEPT !.i = i, !.avail = @ - 1,
                 !.nm_frag_ofs = 0, !.nm_frag_size = Len(slot[i].data)]

(* Lines 397-403: take the next slot.                                     *)
TakeNextSlot(st) ==
  LET i == RingAdd(st.i, 1)
  IN  [st EXCEPT !.i = i, !.avail = @ - 1,
                 !.morefrag = "MOREFRAG" \in slot[i].flags,
                 !.nm_frag_ofs = 0, !.nm_frag_size = Len(slot[i].data)]

(* Lines 382-389: copy min(nm_frag_size, iov_frag_size) bytes.            *)
CopyStep(st) ==
  LET copy_size == min(st.nm_frag_size, st.iov_frag_size)
  IN  [st EXCEPT
         !.out = @ \o SubSeq(slot[st.i].data, st.nm_frag_ofs + 1,
                             st.nm_frag_ofs + copy_size),
         !.nm_frag_ofs = @ + copy_size, !.nm_frag_size = @ - copy_size,
         !.iov_frag_size = @ - copy_size, !.copied = @ + copy_size]

RECURSIVE CopyLoop(_, _)
CopyLoop(st, iov) ==
  IF st.copied >= SumFunction(iov) THEN st
  ELSE
    LET s1 == CopyStep(st)
    IN  IF s1.nm_frag_size = 0 /\ (~s1.morefrag \/ s1.avail = 0)
          THEN s1                                     \* line 396: break
        ELSE
          LET s2 == IF s1.nm_frag_size = 0 THEN TakeNextSlot(s1) ELSE s1
          IN  IF s2.iov_frag_size # 0 THEN CopyLoop(s2, iov)
              ELSE IF s2.j + 1 >= Len(iov)
                THEN [s2 EXCEPT !.j = @ + 1]          \* line 417: break
              ELSE CopyLoop([s2 EXCEPT !.j = @ + 1,
                                       !.iov_frag_ofs = 0,
                                       !.iov_frag_size = iov[s2.j + 2]], iov)

(* Lines 353-376: the loop's starting state.                              *)
LoopStart(iov) ==
  [i |-> cur, avail |-> avail,
   morefrag |-> "MOREFRAG" \in slot[cur].flags,
   nm_frag_ofs |-> 0, nm_frag_size |-> Len(slot[cur].data),
   j |-> 0, iov_frag_ofs |-> 0, iov_frag_size |-> iov[1],
   copied |-> 0, out |-> << >>]

(* The bytes of the packet that starts at slot i, as far as the n slots   *)
(* from i reach.                                                          *)
RECURSIVE PacketFrom(_, _)
PacketFrom(i, n) ==
  IF n = 0 THEN << >>
  ELSE slot[i].data \o (IF "MOREFRAG" \in slot[i].flags
                          THEN PacketFrom(RingAdd(i, 1), n - 1) ELSE << >>)

(***************************************************************************)
(* netmap_socket_recvmsg with an iovec[] of lengths iov; total_len is     *)
(* their sum.  With avail == 0 the call returns 0 and changes nothing.    *)
(***************************************************************************)
netmap_socket_recvmsg(iov) ==
  /\ avail # 0
  /\ Len(delivered) < MaxRecvs
  /\ LET r == CopyLoop(LoopStart(iov), iov)
     IN  /\ cur' = r.i                                \* lines 431-432
         /\ avail' = r.avail
         /\ delivered' = IF r.copied > 0 THEN Append(delivered, r.out)
                         ELSE delivered
         /\ lastcall' = [iov |-> iov, avail |-> avail,
                         packet |-> PacketFrom(cur, avail),
                         out |-> r.out, advanced |-> avail - r.avail]
  /\ UNCHANGED <<slot, hwcur, hwavail, fifo, received>>

(* The NIC receives packet k; its fragments wait for rxsync.              *)
NicReceive(shape) ==
  LET k == Len(received) + 1
      fr == Fragments(k, shape)
  IN  /\ Len(received) < MaxPkts
      /\ fifo' = fifo \o fr
      /\ received' = Append(received, FlattenSeq([f \in 1..Len(fr) |-> fr[f].data]))
      /\ UNCHANGED <<slot, cur, avail, hwcur, hwavail, delivered, lastcall>>

(***************************************************************************)
(* nm_rxsync (spec-modelled): import m waiting fragments into the free    *)
(* slots (one slot always stays empty), then release the slots between    *)
(* hwcur and ring->cur, then publish hwavail as ring->avail.              *)
(***************************************************************************)
(* Mutant: rxsync lets the NIC fill the slot that must stay empty.        *)
RxSyncFillsAll(m) ==
  LET released == (cur - hwcur + NumSlots) % NumSlots
      first    == RingAdd(hwcur, hwavail)
  IN  /\ m <= Len(fifo)
      /\ m <= NumSlots - hwavail
      /\ WholePackets /\ m > 0 => "MOREFRAG" \notin fifo[m].flags
      /\ slot' = [i \in Slots |->
                    IF \E t \in 1..m : i = RingAdd(first, t - 1)
                      THEN fifo[((i - first + NumSlots) % NumSlots) + 1]
                      ELSE slot[i]]
      /\ fifo' = SubSeq(fifo, m + 1, Len(fifo))
      /\ hwcur' = cur
      /\ hwavail' = hwavail + m - released
      /\ avail' = hwavail + m - released
      /\ UNCHANGED <<cur, received, delivered, lastcall>>

RxSync(m) ==
  LET released == (cur - hwcur + NumSlots) % NumSlots
      first    == RingAdd(hwcur, hwavail)
  IN  /\ m <= Len(fifo)
      /\ m <= NumSlots - 1 - hwavail
      /\ WholePackets /\ m > 0 => "MOREFRAG" \notin fifo[m].flags
      /\ slot' = [i \in Slots |->
                    IF \E t \in 1..m : i = RingAdd(first, t - 1)
                      THEN fifo[((i - first + NumSlots) % NumSlots) + 1]
                      ELSE slot[i]]
      /\ fifo' = SubSeq(fifo, m + 1, Len(fifo))
      /\ hwcur' = cur
      /\ hwavail' = hwavail + m - released
      /\ avail' = hwavail + m - released
      /\ UNCHANGED <<cur, received, delivered, lastcall>>

Init ==
  /\ slot = [i \in Slots |-> [flags |-> {}, data |-> << >>]]
  /\ cur = 0
  /\ avail = 0
  /\ hwcur = 0
  /\ hwavail = 0
  /\ fifo = << >>
  /\ received = << >>
  /\ delivered = << >>
  /\ lastcall = [iov |-> << >>, avail |-> 0, packet |-> << >>,
                 out |-> << >>, advanced |-> 0]

Next ==
  \/ \E iov \in IovChoices : netmap_socket_recvmsg(iov)
  \/ \E shape \in Shapes : NicReceive(shape)
  \/ \E m \in 0..(NumSlots - 1) : RxSync(m)

Spec == Init /\ [][Next]_vars

-----------------------------------------------------------------------------
TypeOK ==
  /\ slot \in [Slots -> Slot]
  /\ cur \in Slots /\ hwcur \in Slots
  /\ avail \in 0..(NumSlots - 1) /\ hwavail \in 0..(NumSlots - 1)
  /\ fifo \in Seq(Slot)
  /\ received \in Seq(Seq(Byte)) /\ delivered \in Seq(Seq(Byte))

(* The copy loop against its reference (spec 4.3): one recvmsg returns    *)
(* the first total_len bytes of the packet at ring->cur, or all of it     *)
(* when it is shorter, with the bytes of consecutive slots and iovecs     *)
(* joined in order whatever the slot and iovec boundaries.                *)
RecvCopiesPrefix ==
  LET total == SumFunction(lastcall.iov)
  IN  lastcall.out = SubSeq(lastcall.packet, 1, min(total, Len(lastcall.packet)))

(* recvmsg reads only slots the ring gives it: the slots from ring->cur   *)
(* to ring->cur + ring->avail - 1 (the avail test at line 395).           *)
ReadsOnlyAvailable == lastcall.advanced < lastcall.avail \/ lastcall.iov = << >>

(* Drain law (spec 8): with iovecs large enough for any packet, the       *)
(* successive recvmsg calls return the received packets once each and in *)
(* order.                                                                 *)
DeliversInOrder == IsPrefix(delivered, received)
=============================================================================
