------------------------------ MODULE EnaPackets ------------------------------
(***************************************************************************)
(* What a packet goes through apart from the rings: its descriptors        *)
(* (EnaDescs), the settings and counters the driver reaches with admin     *)
(* commands (EnaFeatures) and the handling of a parsed packet              *)
(* (EnaTxFrame).  EnaTxFrame reads the MTU that EnaFeatures sets; a device *)
(* reset ends the queues and with them the metadata they keep.  Every      *)
(* handler runs under the big lock, so a command never runs in the middle  *)
(* of ena_tx_xmit.                                                         *)
(***************************************************************************)
EXTENDS EnaTxFrame, EnaDescs    \* and through EnaTxFrame EnaFeatures

ASSUME PacketsAssumption ==
    /\ MaxMtu \in Nat /\ Mtus \subseteq Nat /\ KeyParts \in Nat /\ B \in Nat \ {0}
    /\ HeaderRoom \in Nat /\ MaxPkt \in Nat /\ Lens \subseteq Nat /\ Hdrs \subseteq Nat

vars == <<settings, packet, descriptor>>

Init == SettingsInit /\ XmitInit /\ DescInit

\* ena_dev_reset, which ends the queues as well.
Reset ==
    /\ pkt = <<>>
    /\ DevReset
    /\ mss' = 0
    /\ UNCHANGED <<pkt, out, descriptor>>

\* An admin command.
AdminCommand == pkt = <<>> /\ Command /\ UNCHANGED <<packet, descriptor>>

\* A frame of n bytes is counted, in either direction.
FrameCounted(n) == Count(n) /\ UNCHANGED <<packet, descriptor>>

PacketStep == XmitNext /\ UNCHANGED <<settings, descriptor>>
DescriptorStep == DescNext /\ UNCHANGED <<settings, packet>>

Next ==
    \/ AdminCommand
    \/ \E n \in 1..2 : FrameCounted(n)
    \/ PacketStep
    \/ DescriptorStep
    \/ Reset

Spec == Init /\ [][Next]_vars

-----------------------------------------------------------------------------
(* What is checked.                                                        *)

\* What the device answers is true: GET_FEATURE returns what SET_FEATURE
\* granted last and refusals change nothing; GET_STATS returns the packets and
\* bytes since the reset through its split into two words.
AnswersTrue == GrantsKept /\ StatsExact

\* ena_rss_hash covers exactly the fields granted for the class of a frame, with
\* the granted key, and the fragments of a datagram reach one queue.
HashAsGranted == HashCoversGranted /\ FragmentsTogether

\* One MTU bounds both directions, whenever it is set: ena_tx_xmit sends no
\* longer frame in one piece, and ena_rx_receive_iov takes none that its buffer
\* on the stack cannot hold.
MtuObeyed == WithinMtu /\ FrameFitsBuffer

\* The masks and accessors of ena_eth_io_defs.h put every field where the
\* structures document it, and the device reads what the driver wrote.
LayoutKept == Documented /\ DeviceDecodes
=============================================================================
