----------------------------- MODULE MCEnaPackets -----------------------------
(* MTUs on both sides of both bounds, a short key, hash inputs that are    *)
(* partial, address-only, empty or more than supported, counters of two    *)
(* bits; headers and frames on both sides of every limit; three fields of  *)
(* a descriptor in any order.                                              *)
EXTENDS EnaPackets
MCMtus == {127, 128, 9000, 9001}
MCAddrs == {0, 1}
MCGroupSets == {{"link_change", "keep_alive"}, {"warning", "link_change"}}
MCKeys == {<<"k1", "k2">>, <<"k2", "k1">>, <<"k1">>}
MCDefaultKey == <<"k1", "k2">>
Everywhere(s) == [p \in Protos |-> s]
MCSelections ==
    { Everywhere(Fields), Everywhere(L3), Everywhere({}),
      [p \in Protos |-> IF p = "UDP4" THEN {"L3_SA"} ELSE {}],
      [p \in Protos |-> IF p = "TCP6" THEN L4 ELSE Fields] }
MCTables == {<<0, 1>>, <<1, 2>>}
MCRxQueues == {0, 1}
MCHdrs == {0, 96, 97}
MCLens == {0, 13, 50, 51, 8922, 9018, 9019, 65664, 65761}

\* The settings other than the MTU, the counters, the packet with the metadata
\* of its queue, and the descriptor share no variable and no property, so their
\* steps commute: it is enough to let one of them at a time leave its start.
Away(part) ==
    CASE part = "settings" -> <<host, llq, groups, rss>> # <<NoHost, NoSlots, {}, ResetRss>>
      [] part = "counters" -> seen.pkts # 0
      [] part = "packet" -> mss # 0 \/ pkt # <<>>
      [] part = "descriptor" -> kind # "tx_desc" \/ val # <<>> \/ frame.reported
Parts == {"settings", "counters", "packet", "descriptor"}
Alone(part) == \A p \in Parts \ {part} : ~Away(p)
Quiet == status = "success" /\ answer = NoAnswer

MCNext ==
    \/ AdminCommand /\ (Away("packet")' \/ Away("descriptor")' => Quiet')
                    /\ \E part \in Parts : Alone(part)'
    \/ Alone("counters") /\ \E n \in 1..2 : FrameCounted(n)
    \/ Alone("packet") /\ Quiet /\ PacketStep
    \/ Alone("descriptor") /\ Quiet /\ DescriptorStep
    \/ Reset
MCSpec == Init /\ [][MCNext]_vars

\* Every word of a descriptor is documented bit by bit.
ASSUME LayoutAssumption == LayoutComplete
=============================================================================
