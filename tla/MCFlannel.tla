----------------------------- MODULE MCFlannel -----------------------------
(* Small instances of Flannel.                                             *)
EXTENDS Flannel, TLC

CONSTANTS c1, a1, a2, a3

(* A container on two networks, and on a third whose configuration is      *)
(* refused.  All that containers share is subnet.env, which may change at  *)
(* any time, so that one container is enough.                              *)
MCContainerOf == (a1 :> c1) @@ (a2 :> c1) @@ (a3 :> c1)
MCNetworkOf == (a1 :> "n") @@ (a2 :> "m") @@ (a3 :> "o")
MCDelegate ==
    (a1 :> [bridge |-> "mynet0"]) @@ (a2 :> [type |-> "ipvlan", ipMasq |-> FALSE, mtu |-> 1400])
        @@ (a3 :> [type |-> NotString])

Subnet(n, ones) == [net |-> <<n, ones>>, host |-> 1]

Env(n, masq) ==
    [FLANNEL_NETWORK |-> Subnet(0, 16), FLANNEL_SUBNET |-> Subnet(n, 24),
     FLANNEL_MTU |-> 1472, FLANNEL_IPMASQ |-> masq]

(* subnet.env before and after a restart of flanneld without its own       *)
(* masquerading, one that is not complete, and one that cannot be parsed.  *)
MCEnvs ==
    {Env(17, "true"), Env(18, ""), [f \in Fields \ {"FLANNEL_MTU"} |-> Env(18, "")[f]],
     [Env(17, "true") EXCEPT !["FLANNEL_SUBNET"] = Bad]}
=============================================================================
