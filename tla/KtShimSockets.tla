---------------------------- MODULE KtShimSockets ----------------------------
(***************************************************************************)
(* The shim's socket table in src/libktsn.c: one kt_socket record (fd,    *)
(* prio, txtime) per descriptor in g_socket_list, kept beside the kernel's *)
(* descriptor table by the intercepted socket, setsockopt and close, and   *)
(* read by sendmsg to decide whether a send goes to the tx ring or to the  *)
(* kernel.  The kernel side is the part the shim relies on: the lowest     *)
(* free descriptor for a new socket, EBADF on a closed one, and EINVAL for *)
(* an SCM_TXTIME cmsg on a socket without SO_TXTIME.  The interface list  *)
(* the shim builds at start-up decides which destinations count as local. *)
(* One application thread makes the calls; each call is one step.         *)
(***************************************************************************)
EXTENDS Integers, Sequences, FiniteSets, FiniteSetsExt, SequencesExt, Bitwise

CONSTANTS
  Fds,        \* the descriptors the kernel can hand out (numbers)
  Prios,      \* SO_PRIORITY values the application sets
  IfAddrs,    \* getifaddrs(): [family, ifindex, addr, netmask] entries, in order
  Dests,      \* the IPv4 destination addresses the application sends to
  MaxCalls,   \* bound: number of calls the application makes
  NoRec,      \* no kt_socket record for the descriptor
  NoIface     \* no kt_interface (NULL)

------------------------------------------------------------------------------
(* Interface discovery, done once by __libc_start_main before main.       *)

(* is_same_subnetwork (lines 121-127): both addresses masked alike. *)
SameSubnet(a1, a2, mask) == (a1 & mask) = (a2 & mask)

(* kt_interface_exists (lines 109-119). *)
IfaceExists(list, ifindex) == \E k \in DOMAIN list : list[k].ifindex = ifindex

(* query_interfaces (lines 401-446): getifaddrs' entries in order; an     *)
(* IPv4 one whose ifindex is not yet listed is put at the head of the     *)
(* list (LIST_INSERT_HEAD), every other one skipped.  The MAC query that  *)
(* follows (query_and_add_mac_address, lines 371-400) opens and closes a  *)
(* socket through the shim's own socket() and close(), which leaves the   *)
(* socket table as it was; the MAC itself is data no property tells apart. *)
QueryInterfaces(ifaddrs) ==
  FoldLeft(LAMBDA list, ifa :
             IF ifa.family # "inet" \/ IfaceExists(list, ifa.ifindex)
               THEN list
               ELSE <<ifa>> \o list,
           <<>>, ifaddrs)

(* g_interface_list after start-up: query_interfaces returns it (lines   *)
(* 447-462) with the MAC of each entry filled in, a field no send route  *)
(* reads.                                                                   *)
InterfaceList == QueryInterfaces(IfAddrs)

(* kt_interface_get_by_net (lines 129-145): the first interface in list   *)
(* order on whose subnet addr lies, or NULL.                               *)
GetByNet(addr) ==
  LET k == SelectInSeq(InterfaceList,
                       LAMBDA i : SameSubnet(i.addr, addr, i.netmask))
  IN  IF k = 0 THEN NoIface ELSE InterfaceList[k]

------------------------------------------------------------------------------

VARIABLES
  kOpen,      \* kernel: a socket is open on fd
  kTxtime,    \* kernel: SOCK_TXTIME is set on the socket on fd (only
              \* default_setsockopt could set it, and the shim never calls it
              \* for SO_TXTIME)
  rec,        \* the shim's record for fd, or NoRec
  held,       \* descriptors socket() returned and the application keeps
  appTxtime,  \* ghost: the application's SO_TXTIME on this socket succeeded
  appPrio,    \* ghost: the last SO_PRIORITY the application set on it, or -1
  sent,       \* the outcome of the last sendmsg, or NoRec
  calls

vars == <<kOpen, kTxtime, rec, held, appTxtime, appPrio, sent, calls>>

(* The shim's globals at load: g_socket_list empty (lines 73-83). *)
Init ==
  /\ kOpen = [f \in Fds |-> FALSE]
  /\ kTxtime = [f \in Fds |-> FALSE]
  /\ rec = [f \in Fds |-> NoRec]
  /\ held = {}
  /\ appTxtime = [f \in Fds |-> FALSE]
  /\ appPrio = [f \in Fds |-> -1]
  /\ sent = NoRec
  /\ calls = 0

Call == calls < MaxCalls /\ calls' = calls + 1

(* kt_socket_find (lines 85-96): the record for fd, or NULL. *)
SocketFind(fd) == rec[fd]

------------------------------------------------------------------------------
(* socket() (lines 191-208): default_socket gives the lowest free         *)
(* descriptor, or fails with EMFILE and the shim returns it; a record     *)
(* already present for the descriptor is kept as it is, else a fresh one  *)
(* (prio -1, txtime 0) is inserted.                                        *)
Socket ==
  /\ Call
  /\ LET freeFds == {f \in Fds : ~kOpen[f]}
         fd      == Min(freeFds)
     IN  IF freeFds = {}
           THEN UNCHANGED <<kOpen, kTxtime, rec, held, appTxtime, appPrio>>
           ELSE /\ kOpen' = [kOpen EXCEPT ![fd] = TRUE]
                /\ kTxtime' = [kTxtime EXCEPT ![fd] = FALSE]
                /\ rec' = IF SocketFind(fd) = NoRec
                            THEN [rec EXCEPT ![fd] = [prio |-> -1, txtime |-> 0]]
                            ELSE rec
                /\ held' = held \cup {fd}
                /\ appTxtime' = [appTxtime EXCEPT ![fd] = FALSE]
                /\ appPrio' = [appPrio EXCEPT ![fd] = -1]
  /\ UNCHANGED sent

(* setsockopt(fd, SOL_SOCKET, SO_TXTIME, ..., optlen) (lines 217-240):    *)
(* EINVAL unless optlen is 8; else the record is created with txtime 1, or *)
(* its txtime set, and 0 returned without calling default_setsockopt.      *)
SetTxtime(fd, lenOk) ==
  /\ Call
  /\ IF ~lenOk
       THEN UNCHANGED <<rec, appTxtime>>
       ELSE /\ rec' = IF SocketFind(fd) = NoRec
                        THEN [rec EXCEPT ![fd] = [prio |-> -1, txtime |-> 1]]
                        ELSE [rec EXCEPT ![fd].txtime = 1]
            /\ appTxtime' = [appTxtime EXCEPT ![fd] = TRUE]
  /\ UNCHANGED <<kOpen, kTxtime, held, appPrio, sent>>

(* setsockopt(fd, SOL_SOCKET, SO_PRIORITY, &v, optlen) (lines 242-263):   *)
(* EINVAL unless optlen is sizeof(int); else the record is created with   *)
(* prio v, or its prio set, and 0 returned, again without the kernel.     *)
SetPrio(fd, lenOk, v) ==
  /\ Call
  /\ IF ~lenOk
       THEN UNCHANGED <<rec, appPrio>>
       ELSE /\ rec' = IF SocketFind(fd) = NoRec
                        THEN [rec EXCEPT ![fd] = [prio |-> v, txtime |-> 0]]
                        ELSE [rec EXCEPT ![fd].prio = v]
            /\ appPrio' = [appPrio EXCEPT ![fd] = v]
  /\ UNCHANGED <<kOpen, kTxtime, held, appTxtime, sent>>

(* default_sendmsg: what the kernel answers. *)
KernelSend(fd, cmsg) ==
  CASE ~kOpen[fd] -> "EBADF"
    [] cmsg /\ ~kTxtime[fd] -> "EINVAL"
    [] OTHER -> "sent"

(* sendmsg(fd, msg) (lines 273-353) up to the ring: the kernel takes the  *)
(* send when there is no record, txtime is 0, no SCM_TXTIME cmsg, or no   *)
(* interface on the destination's subnet; otherwise the shim stages it on *)
(* the tx ring, which KtSystem models, with -ENOBUFS when a ring is full.  *)
SendRoute(fd, cmsg, dest) ==
  IF \/ SocketFind(fd) = NoRec \/ SocketFind(fd).txtime = 0 \/ ~cmsg
     \/ GetByNet(dest) = NoIface
    THEN {KernelSend(fd, cmsg)}
    ELSE {"queued", "ENOBUFS"}

Sendmsg(fd, cmsg, dest) ==
  /\ Call
  /\ \E r \in SendRoute(fd, cmsg, dest) :
       sent' = [fd |-> fd, cmsg |-> cmsg, dest |-> dest, result |-> r,
                enabled |-> appTxtime[fd]]
  /\ UNCHANGED <<kOpen, kTxtime, rec, held, appTxtime, appPrio>>

(* Mutant: the record left in the list when the descriptor is closed. *)
CloseKeepsRecord(fd) ==
  /\ Call
  /\ rec' = rec
  /\ kOpen' = [kOpen EXCEPT ![fd] = FALSE]
  /\ held' = held \ {fd}
  /\ UNCHANGED <<kTxtime, appTxtime, appPrio, sent>>

(* close(fd) (lines 360-370): the record, if any, is removed and freed,  *)
(* then default_close closes the descriptor.                               *)
Close(fd) ==
  /\ Call
  /\ rec' = [rec EXCEPT ![fd] = NoRec]
  /\ kOpen' = [kOpen EXCEPT ![fd] = FALSE]
  /\ held' = held \ {fd}
  /\ UNCHANGED <<kTxtime, appTxtime, appPrio, sent>>

(* The application calls on the sockets it holds: setsockopt with a right *)
(* or a wrong optlen, sendmsg with or without SCM_TXTIME to any of the     *)
(* destinations, close.                                                     *)
Next ==
  \/ Socket
  \/ \E fd \in held, ok \in BOOLEAN :
       \/ SetTxtime(fd, ok)
       \/ \E v \in Prios : SetPrio(fd, ok, v)
  \/ \E fd \in held, cmsg \in BOOLEAN, d \in Dests : Sendmsg(fd, cmsg, d)
  \/ \E fd \in held : Close(fd)

Spec == Init /\ [][Next]_vars

------------------------------------------------------------------------------
(* What sendmsg reads from the table for a socket the application holds  *)
(* is what the application set on that socket since socket() returned it: *)
(* txtime exactly when its SO_TXTIME succeeded, prio its last SO_PRIORITY. *)
(* socket() keeps an existing record untouched (line 197), so this rests *)
(* on close removing the record before the kernel reuses the descriptor.  *)
RecordDescribesSocket ==
  \A f \in held :
    rec[f] # NoRec =>
      /\ rec[f].txtime = IF appTxtime[f] THEN 1 ELSE 0
      /\ rec[f].prio = appPrio[f]

(* A sendmsg carrying SCM_TXTIME on a socket whose SO_TXTIME setsockopt   *)
(* returned 0 is not refused with EINVAL: the shim presents SO_TXTIME as  *)
(* set, so a send it hands to the kernel must find it set there too.      *)
TxtimeSendAccepted ==
  sent # NoRec /\ sent.cmsg /\ sent.enabled => sent.result # "EINVAL"

=============================================================================
