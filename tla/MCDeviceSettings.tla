-------------------------- MODULE MCDeviceSettings --------------------------
(* DeviceSettings for TLC: a switch with two ports and two VLANs.          *)
EXTENDS DeviceSettings, TLC

Tagged1 == [tag |-> {1}, untag |-> {2}]
Shared == [tag |-> {}, untag |-> {1, 2}]

(* 802.1Q VLANs next to a port-based one, a trunk, a mirror of what comes  *)
(* in on port 1.                                                           *)
Tagging == [dot1q |-> (1 :> Shared @@ 2 :> Tagged1), pvlans |-> (1 :> {1} @@ 2 :> None),
            lags |-> (1 :> {} @@ 2 :> {1, 2}),
            mirror |-> [on |-> TRUE, dest |-> 2, code |-> 1, ingress |-> {1}, egress |-> {}],
            qos |-> [code |-> 3, pri |-> (1 :> 2 @@ 2 :> 1)],
            bandwidth |-> (1 :> 0 @@ 2 :> 5), storm |-> (1 :> 5 @@ 2 :> 0),
            igmp |-> [on |-> TRUE, suppress |-> TRUE], loop |-> TRUE]

(* Only port-based VLANs.                                                  *)
PortBased == [Tagging EXCEPT !.dot1q = [v \in Vids |-> None]]

TwoDevices == {Tagging, PortBased}
SomeRows == {(1 :> "excluded" @@ 2 :> "tagged")}
SomeTrunks == {{1}}
=============================================================================
