-------------------------- MODULE MC_KtShimSockets --------------------------
(* Two descriptors, so that a closed one is handed out again by the next  *)
(* socket(); two priorities, so that a stale one is told apart.            *)
(* Addresses are 4-bit numbers and netmasks 4-bit prefixes, standing for  *)
(* a host with lo (127.0.0.1/8) and one NIC, ifindex 2, that carries      *)
(* 192.168.100.1/24 and a second address 10.0.0.1/8; getifaddrs lists     *)
(* the NIC's AF_PACKET entry too.  The destinations are one on each       *)
(* subnet and one off all of them.                                         *)
EXTENDS KtShimSockets

MC_Fds   == {3, 4}
MC_Prios == {1, 2}

MC_IfAddrs ==
  << [family |-> "inet",   ifindex |-> 1, addr |-> 1, netmask |-> 12],
     [family |-> "packet", ifindex |-> 2, addr |-> 0, netmask |-> 0],
     [family |-> "inet",   ifindex |-> 2, addr |-> 9, netmask |-> 14],
     [family |-> "inet",   ifindex |-> 2, addr |-> 5, netmask |-> 12] >>

MC_Dests == {2, 8, 6, 12}
=============================================================================
