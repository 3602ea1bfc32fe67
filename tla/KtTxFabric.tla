----------------------------- MODULE KtTxFabric -----------------------------
(***************************************************************************)
(* What the transmit fabric promises an application (spec.md 4.4, 4.5 and *)
(* the timed-send and missed-deadline scenarios of section 8): a packet   *)
(* that sendmsg accepts occupies one of the Slots pool slots until the    *)
(* sender is done with it; the sender emits it once, inside its send      *)
(* window [txtime - TxDelta, txtime], or drops it once its txtime has     *)
(* passed, and does nothing else with it.  No order between packets is   *)
(* promised here.                                                          *)
(***************************************************************************)
EXTENDS Integers, FiniteSets

CONSTANTS
  Slots,     \* the mbuf/metadata pool slots
  TxTimes,   \* the txtimes applications pass in SCM_TXTIME
  TxDelta    \* the sender's send window

VARIABLES
  pending,   \* accepted packets the sender has not emitted or dropped
  emitted,   \* frames handed to the NIC so far
  now        \* the clock

vars == <<pending, emitted, now>>

Packet == [slot : Slots, txtime : TxTimes]

InUse == {p.slot : p \in pending}

Init == pending = {} /\ emitted = 0 /\ now = 0

(* sendmsg returns the byte count: the packet takes a slot no other      *)
(* pending packet holds.                                                   *)
Accept(s, t) ==
  /\ s \notin InUse
  /\ pending' = pending \cup {[slot |-> s, txtime |-> t]}
  /\ UNCHANGED <<emitted, now>>

(* The sender emits p inside its window. *)
Emit(p) ==
  /\ p \in pending
  /\ now >= p.txtime - TxDelta /\ now <= p.txtime
  /\ pending' = pending \ {p}
  /\ emitted' = emitted + 1
  /\ UNCHANGED now

(* The sender drops p after its txtime. *)
Drop(p) ==
  /\ p \in pending
  /\ now > p.txtime
  /\ pending' = pending \ {p}
  /\ UNCHANGED <<emitted, now>>

(* The sender is done with p: emitted or dropped. *)
Retire(p) == Emit(p) \/ Drop(p)

Tick == now' = now + 1 /\ UNCHANGED <<pending, emitted>>

Next ==
  \/ \E s \in Slots, t \in TxTimes : Accept(s, t)
  \/ \E p \in Packet : Retire(p)
  \/ Tick

(* A packet that has reached its send window does not stay pending: the *)
(* sender eventually emits it, or drops it once its txtime has passed.    *)
Spec == Init /\ [][Next]_vars /\ \A p \in Packet : WF_vars(Retire(p))

=============================================================================
