-------------------------- MODULE SocketLifecycle --------------------------
(***************************************************************************)
(* The kernel socket that src/LINUX/netmap_linux.c attaches to a netmap   *)
(* adapter for in-kernel users (get_netmap_socket, netmap_sock_setup,     *)
(* netmap_sock_teardown, netmap_socket_nm_dtor), and the file references *)
(* that keep the adapter alive (linux_netmap_release).                    *)
(*                                                                         *)
(* One adapter na, bound (priv->np_na) by the netmap files in Files.      *)
(* Tasks call get_netmap_socket(fd) for one of those files; the task is   *)
(* "current".  get_netmap_socket does all of its work on na under         *)
(* NMG_LOCK and only returns after the unlock, and the adapter destructor *)
(* runs under NMG_LOCK too (netmap_dtor, netmap.c), so each is one step.  *)
(*                                                                         *)
(* Modelled from the spec, as that code is not under src/: netmap_dtor    *)
(* dropping the file's reference on na, the adapter's own destructor      *)
(* (generic_netmap_dtor or none), and a caller that drops the socket it   *)
(* was given by fput(sock->file), as vhost does with a tap socket.        *)
(***************************************************************************)
EXTENDS Integers, Sequences, FiniteSets

CONSTANTS
  Files,        \* the open netmap files
  Bound,        \* those bound to na by NIOCREGIF at the start (priv->np_na == na)
  Unopened,     \* netmap files linux_netmap_open has not created yet
  Foreign,      \* open files of other kinds (filp->f_op != &netmap_fops)
  Tasks,        \* the tasks that call get_netmap_socket
  MaxGets,      \* bound on the calls of get_netmap_socket
  MaxIoctls,    \* bound on the calls of linux_netmap_ioctl
  MaxAllocs,    \* bound on the sockets sk_alloc returns
  MaxDtorDepth, \* bound on the nesting of destructor calls
  AllocFails,   \* whether sk_alloc and alloc_skb may fail
  KernOwned,    \* whether a kernel user may own na (NETMAP_OWNED_BY_KERN)
  NoFile,       \* sock.file of no socket
  NoTask        \* owner of no socket

ASSUME /\ Bound \subseteq Files /\ Tasks # {}
       /\ Foreign \subseteq Files /\ Foreign \cap Bound = {}
       /\ Unopened \subseteq Files \ (Bound \cup Foreign)
       /\ MaxGets \in Nat /\ MaxIoctls \in Nat /\ MaxAllocs \in Nat /\ MaxDtorDepth \in Nat \ {0}
       /\ AllocFails \in BOOLEAN /\ KernOwned \in BOOLEAN
       /\ NoFile \notin Files /\ NoTask \notin Tasks

SockIds == 1..MaxAllocs
Dtors == {"none", "orig", "socket"}   \* NULL, the adapter's own, netmap_socket_nm_dtor
(* errno values.                                                          *)
ENXIO == 6
EBADF == 9
ENOMEM == 12
EFAULT == 14
EBUSY == 16
EINVAL == 22

(* What get_netmap_socket returns: &nm_sock->sock, or ERR_PTR(e) for the  *)
(* errno e as written in the code, a positive one.  IS_ERR only flags the *)
(* values -MAX_ERRNO..-1, so it does not flag ERR_PTR of a positive       *)
(* errno.                                                                 *)
SockPtr(s) == [kind |-> "sock", val |-> s]
ERR_PTR(e) == [kind |-> "errptr", val |-> e]
IS_ERR(v) == v.kind = "errptr" /\ v.val \in -4095..-1
RetVals == {SockPtr(s) : s \in SockIds} \cup
           {ERR_PTR(e) : e \in {EBADF, EINVAL, EBUSY, ENOMEM}}

VARIABLES
  fd_open,     \* the file still has its descriptor
  fcount,      \* file->f_count
  na_refs,     \* references on na held by bound files
  na_alive,    \* na not yet destroyed
  kern_owned,  \* NETMAP_OWNED_BY_KERN(na)
  na_private,  \* na->na_private: a socket, or 0 for NULL
  nm_dtor,     \* na->nm_dtor
  sk,          \* the sockets: state, owner, sock.file, saved_nm_dtor, rx queue
  nallocs,     \* sockets sk_alloc has returned
  orig_calls,  \* calls of the adapter's own destructor
  overflow,    \* the destructor chain nested deeper than MaxDtorDepth
  np_na,       \* priv->np_na == na for the priv of each netmap file
  unopened,    \* the files of Unopened not opened yet
  nioctls,     \* calls of linux_netmap_ioctl so far
  ioctl_ret,   \* what the last linux_netmap_ioctl returned
  dtor0,       \* history: the adapter's destructor before any socket
  calls        \* history: each get_netmap_socket, its result, and whether
               \* the caller still holds the socket it returned

vars == <<fd_open, fcount, na_refs, na_alive, kern_owned, na_private, nm_dtor,
          sk, nallocs, orig_calls, overflow, np_na, unopened, nioctls,
          ioctl_ret, dtor0, calls>>

NoSock == [state |-> "unused", owner |-> NoTask, file |-> NoFile,
           saved |-> "none", rxq |-> 0]

(***************************************************************************)
(* The adapter's part of the state as one record, so that the setup and   *)
(* destructor code can be written as functions of it.                     *)
(***************************************************************************)
NaState == [na_private |-> na_private, nm_dtor |-> nm_dtor, sk |-> sk,
            nallocs |-> nallocs, orig_calls |-> orig_calls,
            overflow |-> overflow, ret |-> 0]

StoreNa(st) ==
  /\ na_private' = st.na_private
  /\ nm_dtor' = st.nm_dtor
  /\ sk' = st.sk
  /\ nallocs' = st.nallocs
  /\ orig_calls' = st.orig_calls
  /\ overflow' = st.overflow

(* Mutant: the failure path frees the socket but leaves it in            *)
(* na->na_private (line 519 left out).                                    *)
SkbAllocFailedKeepsPrivate(st, s) ==
  [st EXCEPT !.sk[s].state = "freed", !.ret = 0]

(* Lines 515-522: alloc_skb failed; sk_free the socket, clear             *)
(* na->na_private, return NULL.                                           *)
SkbAllocFailed(st, s) ==
  [st EXCEPT !.sk[s].state = "freed", !.na_private = 0, !.ret = 0]

(* Mutant: na->nm_dtor is replaced before it is saved (lines 532-533      *)
(* swapped).                                                              *)
HookDtorSwapped(st, s) ==
  [st EXCEPT !.nm_dtor = "socket", !.sk[s].saved = "socket"]

(* Lines 532-533: save na->nm_dtor, install netmap_socket_nm_dtor.        *)
HookDtor(st, s) ==
  [st EXCEPT !.sk[s].saved = st.nm_dtor, !.nm_dtor = "socket"]

(***************************************************************************)
(* netmap_sock_setup(na, filp) run by task p on file f; outcome says      *)
(* whether sk_alloc ("nosk") or alloc_skb ("noskb") fails.  ret is the    *)
(* socket returned, 0 for NULL.  sk_alloc's result is stored in           *)
(* na->na_private before it is tested (line 501).                         *)
(***************************************************************************)
netmap_sock_setup(st, p, f, outcome) ==
  LET s == st.nallocs + 1
      a == [st EXCEPT !.nallocs = s, !.na_private = s,
                      !.sk[s] = [NoSock EXCEPT !.state = "alive", !.owner = p,
                                               !.file = f]]
  IN  CASE outcome = "nosk"  -> [st EXCEPT !.na_private = 0, !.ret = 0]
        [] outcome = "noskb" -> SkbAllocFailed(a, s)
        [] OTHER             -> HookDtor([a EXCEPT !.sk[s].rxq = 1, !.ret = s], s)

(* netmap_sock_teardown: restore the saved destructor, purge the fake     *)
(* skb, sock_put and sk_free the socket, clear na->na_private.            *)
netmap_sock_teardown(st) ==
  LET s == st.na_private
  IN  IF s = 0 THEN st
      ELSE [st EXCEPT !.nm_dtor = st.sk[s].saved, !.sk[s].rxq = 0,
                      !.sk[s].state = "freed", !.na_private = 0]

(* Calling na->nm_dtor(na), whichever function it points to.              *)
RECURSIVE CallDtor(_, _), netmap_socket_nm_dtor(_, _)
CallDtor(st, depth) ==
  CASE depth = 0              -> [st EXCEPT !.overflow = TRUE]
    [] st.nm_dtor = "socket"  -> netmap_socket_nm_dtor(st, depth)
    [] st.nm_dtor = "orig"    -> [st EXCEPT !.orig_calls = @ + 1]
    [] OTHER                  -> st

(* netmap_socket_nm_dtor: tear the socket down, then call the saved       *)
(* destructor, if any.                                                    *)
netmap_socket_nm_dtor(st, depth) ==
  LET t == netmap_sock_teardown(st)
  IN  IF t.nm_dtor = "none" THEN t ELSE CallDtor(t, depth - 1)

(***************************************************************************)
(* File references.  fput drops one; the last one runs                    *)
(* linux_netmap_release, whose netmap_dtor (netmap.c) drops the file's    *)
(* reference on na and, with the last of those, calls na->nm_dtor(na).    *)
(***************************************************************************)
(* Mutant: the descriptor is looked up without taking a reference, as     *)
(* fdget/fget_light would.                                                *)
fgetNoRef(f) == UNCHANGED fcount

(* fget(fd) at line 697 takes a reference on the file.                    *)
fget(f) == fcount' = [fcount EXCEPT ![f] = @ + 1]

(* netmap_dtor (spec-modelled) frees the priv; for a bound one na loses  *)
(* the reference NIOCREGIF took, and the last one destroys na through its *)
(* destructor.                                                            *)
netmap_dtor(f) ==
  LET destroy == np_na[f] /\ na_refs = 1
  IN  /\ na_refs' = IF np_na[f] THEN na_refs - 1 ELSE na_refs
      /\ np_na' = [np_na EXCEPT ![f] = FALSE]
      /\ na_alive' = (na_alive /\ ~destroy)
      /\ IF destroy THEN StoreNa(CallDtor(NaState, MaxDtorDepth))
         ELSE UNCHANGED <<na_private, nm_dtor, sk, nallocs, orig_calls, overflow>>

(* linux_netmap_release: file->private_data is set by every successful    *)
(* open, so netmap_dtor always runs.                                      *)
linux_netmap_release(f) == netmap_dtor(f)

(* The last fput runs the file's release: netmap_fops' for a netmap file. *)
fput(f) ==
  /\ fcount' = [fcount EXCEPT ![f] = @ - 1]
  /\ IF fcount[f] = 1 /\ f \notin Foreign THEN linux_netmap_release(f)
     ELSE UNCHANGED <<na_refs, na_alive, na_private, nm_dtor, sk, nallocs,
                      orig_calls, overflow, np_na>>

(***************************************************************************)
(* get_netmap_socket(fd) by task p, for the descriptor of file f.         *)
(***************************************************************************)
Outcomes == IF AllocFails THEN {"ok", "nosk", "noskb"} ELSE {"ok"}

(* The call returns v; its caller tests IS_ERR(v), as vhost does, and    *)
(* holds anything that test lets through as a socket.                     *)
Returns(p, f, v) ==
  calls' = Append(calls, [task |-> p, file |-> f, ret |-> v,
                          held |-> ~IS_ERR(v)])

get_netmap_socket(p, f, outcome) ==
  LET nm   == na_private
      busy == kern_owned /\ (nm = 0 \/ sk[nm].owner # p)
      st   == netmap_sock_setup(NaState, p, f, outcome)
  IN
  /\ Len(calls) < MaxGets
  /\ outcome # "nosk" => nallocs < MaxAllocs
  /\ IF ~fd_open[f]
       THEN /\ Returns(p, f, ERR_PTR(EBADF))          \* fget returned NULL
            /\ UNCHANGED <<fcount, na_private, nm_dtor, sk, nallocs>>
     ELSE
       /\ fget(f)
       /\ CASE f \in Foreign ->                        \* not a netmap file
                 Returns(p, f, ERR_PTR(EINVAL)) /\ UNCHANGED <<na_private, nm_dtor, sk, nallocs>>
            \* filp->private_data is never NULL: linux_netmap_open sets it
            \* or fails, and then there is no file.
            [] ~np_na[f] ->                       \* priv->np_na == NULL
                 Returns(p, f, ERR_PTR(EBADF)) /\ UNCHANGED <<na_private, nm_dtor, sk, nallocs>>
            [] busy ->
                 Returns(p, f, ERR_PTR(EBUSY)) /\ UNCHANGED <<na_private, nm_dtor, sk, nallocs>>
            [] nm # 0 ->
                 Returns(p, f, SockPtr(nm)) /\ UNCHANGED <<na_private, nm_dtor, sk, nallocs>>
            [] OTHER ->
                 /\ StoreNa(st)
                 /\ Returns(p, f, IF st.ret = 0 THEN ERR_PTR(ENOMEM) ELSE SockPtr(st.ret))
  /\ UNCHANGED <<fd_open, na_refs, na_alive, kern_owned, orig_calls, overflow,
                 np_na, unopened, nioctls, ioctl_ret, dtor0>>

(***************************************************************************)
(* The character device.  linux_netmap_open allocates a zeroed priv and   *)
(* stores it in file->private_data (its ENOMEM return creates no file and *)
(* so no state); a file is opened once and its slot in Files is never     *)
(* reused.                                                                *)
(***************************************************************************)
linux_netmap_open(f) ==
  /\ f \in unopened
  /\ unopened' = unopened \ {f}
  /\ fd_open' = [fd_open EXCEPT ![f] = TRUE]
  /\ fcount' = [fcount EXCEPT ![f] = 1]
  /\ np_na' = [np_na EXCEPT ![f] = FALSE]
  /\ UNCHANGED <<na_refs, na_alive, kern_owned, na_private, nm_dtor, sk, nallocs,
                 orig_calls, overflow, nioctls, ioctl_ret, dtor0, calls>>

Cmds == {"NIOCREGIF", "NIOCTXSYNC", "NIOCRXSYNC"}
(* The user's argument: NULL, a writable nmreq, a read-only one           *)
(* (copy_to_user faults), or an unmapped address (both copies fault).     *)
Args == {"null", "rw", "ro", "bad"}

(***************************************************************************)
(* netmap_ioctl (netmap.c, spec-modelled) on the priv of f with the       *)
(* nmreq the wrapper passes: the errno it returns and whether it bound    *)
(* the priv to na.  A zeroed nmreq (NULL argument) has nr_version 0 and   *)
(* is refused; NIOCREGIF refuses a bound priv and an adapter a kernel     *)
(* user owns, and may fail to allocate; the syncs need a bound priv.      *)
(***************************************************************************)
netmap_ioctl(f, cmd, arg) ==
  LET fail(e) == {[err |-> e, bind |-> FALSE]}
  IN  CASE cmd = "NIOCREGIF" /\ arg = "null" -> fail(EINVAL)
        [] cmd = "NIOCREGIF" /\ np_na[f]     -> fail(EBUSY)
        [] cmd = "NIOCREGIF" /\ kern_owned   -> fail(EBUSY)
        [] cmd = "NIOCREGIF" ->
             {[err |-> 0, bind |-> TRUE]} \cup (IF AllocFails THEN fail(ENOMEM) ELSE {})
        [] ~np_na[f] -> fail(ENXIO)
        [] OTHER     -> {[err |-> 0, bind |-> FALSE]}

(***************************************************************************)
(* linux_netmap_ioctl(file, cmd, data): the syncs take no argument; copy  *)
(* the nmreq in (EFAULT, and nothing done, if that faults), run           *)
(* netmap_ioctl, copy the nmreq back (EFAULT if that faults, after        *)
(* netmap_ioctl has done its work), return -ret.  NIOCREGIF is only       *)
(* issued while na exists: a new adapter after na's destruction is        *)
(* outside the model.                                                     *)
(***************************************************************************)
linux_netmap_ioctl(f, cmd, data) ==
  LET arg == IF cmd \in {"NIOCTXSYNC", "NIOCRXSYNC"} THEN "null" ELSE data
  IN
  /\ fd_open[f] /\ f \notin Foreign
  /\ nioctls < MaxIoctls
  /\ cmd = "NIOCREGIF" => na_alive
  /\ nioctls' = nioctls + 1
  /\ IF arg = "bad"
       THEN /\ ioctl_ret' = -EFAULT
            /\ UNCHANGED <<na_refs, np_na>>
     ELSE \E r \in netmap_ioctl(f, cmd, arg) :
            /\ np_na' = [np_na EXCEPT ![f] = @ \/ r.bind]
            /\ na_refs' = IF r.bind THEN na_refs + 1 ELSE na_refs
            /\ ioctl_ret' = IF arg = "ro" THEN -EFAULT ELSE -r.err
  /\ UNCHANGED <<fd_open, fcount, na_alive, kern_owned, na_private, nm_dtor, sk,
                 nallocs, orig_calls, overflow, unopened, dtor0, calls>>

(* The process closes its descriptor of f.                                *)
Close(f) ==
  /\ fd_open[f]
  /\ fd_open' = [fd_open EXCEPT ![f] = FALSE]
  /\ fput(f)
  /\ UNCHANGED <<kern_owned, unopened, nioctls, ioctl_ret, dtor0, calls>>

(* The caller of the i-th get_netmap_socket is done with the socket and   *)
(* drops it with fput(sock->file) (spec-modelled, the vhost convention).  *)
(* A caller holding ERR_PTR of a positive errno would read sock->file at  *)
(* that small address; what happens then is not followed.                 *)
DropSocket(i) ==
  /\ calls[i].held /\ calls[i].ret.kind = "sock"
  /\ calls' = [calls EXCEPT ![i].held = FALSE]
  /\ fput(sk[calls[i].ret.val].file)
  /\ UNCHANGED <<fd_open, kern_owned, unopened, nioctls, ioctl_ret, dtor0>>

Init ==
  /\ fd_open = [f \in Files |-> f \notin Unopened]
  /\ fcount = [f \in Files |-> IF f \in Unopened THEN 0 ELSE 1]
  /\ np_na = [f \in Files |-> f \in Bound]
  /\ unopened = Unopened
  /\ nioctls = 0
  /\ ioctl_ret = 0
  /\ na_refs = Cardinality(Bound)
  /\ na_alive = TRUE
  /\ kern_owned \in IF KernOwned THEN BOOLEAN ELSE {FALSE}
  /\ na_private = 0
  /\ nm_dtor \in {"none", "orig"}
  /\ sk = [s \in SockIds |-> NoSock]
  /\ nallocs = 0
  /\ orig_calls = 0
  /\ overflow = FALSE
  /\ dtor0 = nm_dtor
  /\ calls = << >>

Next ==
  \/ \E p \in Tasks, f \in Files, o \in Outcomes : get_netmap_socket(p, f, o)
  \/ \E f \in Files : Close(f)
  \/ \E f \in Files : linux_netmap_open(f)
  \/ \E f \in Files, c \in Cmds, d \in Args : linux_netmap_ioctl(f, c, d)
  \/ \E i \in 1..Len(calls) : DropSocket(i)

Spec == Init /\ [][Next]_vars

-----------------------------------------------------------------------------
TypeOK ==
  /\ fd_open \in [Files -> BOOLEAN]
  /\ fcount \in [Files -> Nat]
  /\ na_refs \in 0..Cardinality(Files) /\ na_alive \in BOOLEAN
  /\ kern_owned \in BOOLEAN
  /\ na_private \in 0..MaxAllocs /\ nm_dtor \in Dtors /\ dtor0 \in Dtors
  /\ sk \in [SockIds -> [state : {"unused", "alive", "freed"},
                          owner : Tasks \cup {NoTask},
                          file : Files \cup {NoFile},
                          saved : Dtors, rxq : 0..1]]
  /\ nallocs \in 0..MaxAllocs /\ orig_calls \in Nat /\ overflow \in BOOLEAN
  /\ np_na \in [Files -> BOOLEAN] /\ unopened \subseteq Unopened
  /\ nioctls \in 0..MaxIoctls /\ ioctl_ret \in -EINVAL..0
  /\ calls \in Seq([task : Tasks, file : Files,
                    ret : RetVals, held : BOOLEAN])

(* Setup and teardown keep na->na_private exact (the failure path at      *)
(* lines 515-522, the teardown at 465-486): a socket is alive exactly     *)
(* when na->na_private points to it, so a socket that failed setup, or    *)
(* was torn down, is never reachable from na and none is leaked, and its  *)
(* fake skb lives and dies with it.                                       *)
LiveSocketIsPrivate ==
  \A s \in SockIds :
    /\ sk[s].state = "alive" <=> s = na_private
    /\ sk[s].rxq = 1 <=> sk[s].state = "alive"

(* The destructor chain (netmap_sock_setup saving na->nm_dtor at lines    *)
(* 532-533, netmap_socket_nm_dtor restoring and calling it): however      *)
(* many get_netmap_socket calls there were, destroying na calls the       *)
(* adapter's own destructor exactly once, never recurses without end, and *)
(* leaves na->nm_dtor as it was before any socket.                        *)
DestructorChain ==
  /\ ~overflow
  /\ orig_calls <= 1
  /\ ~na_alive => /\ orig_calls = IF dtor0 = "orig" THEN 1 ELSE 0
                  /\ nm_dtor = dtor0

(* A socket that get_netmap_socket handed out stays allocated while its   *)
(* caller holds it: the file reference fget took (line 697) keeps the     *)
(* file, and so na and its destructor, alive after NMG_UNLOCK (line 728). *)
(* Only real sockets count here; the ERR_PTR values of the error returns *)
(* are not sockets at all.                                                *)
HandedSocketAlive ==
  \A i \in 1..Len(calls) :
    calls[i].held /\ calls[i].ret.kind = "sock" => sk[calls[i].ret.val].state = "alive"

(* Reference balance (the fget/fput contract): every reference on a file  *)
(* is the descriptor's or that of a caller that holds a socket whose      *)
(* sock->file is that file, so each fget of get_netmap_socket is matched  *)
(* by the fput its caller will do.                                        *)
RefsAccounted ==
  \A f \in Files :
    fcount[f] = (IF fd_open[f] THEN 1 ELSE 0)
                  + Cardinality({i \in 1..Len(calls) :
                                   calls[i].held /\ calls[i].ret.kind = "sock"
                                   /\ sk[calls[i].ret.val].file = f})
=============================================================================
