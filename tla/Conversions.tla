---------------------------- MODULE Conversions ----------------------------
(***************************************************************************)
(* The computations without state: addresses and ranges, the options of a  *)
(* DHCP ACK, and the parameters of a plugin.  Every initial state is an    *)
(* input of one of them, and nothing happens.                              *)
(***************************************************************************)
EXTENDS RangeCheck, DHCPOptions, Invocation

vars == <<ip, net, size, start, end, static, classless, action, rt, path, ambient>>

(* Fixed values for those that are not looked at.                          *)
NoAddress ==
    /\ ip = Padded(1, Width) /\ net = Padded(0, Width) /\ size = Modulus
    /\ start = Nil /\ end = Nil

NoOptions == static = NoOption /\ classless = NoOption

NoRuntime ==
    /\ action = <<"DEL">> /\ path = <<>> /\ ambient = <<>>
    /\ rt = [ContainerID |-> <<>>, NetNS |-> <<>>, IfName |-> <<>>, Args |-> <<>>]

Init ==
    \/ AddressInputs /\ NoOptions /\ NoRuntime
    \/ NoAddress /\ OptionInputs /\ NoRuntime
    \/ NoAddress /\ NoOptions /\ RuntimeInputs

Next == UNCHANGED vars

Spec == Init /\ [][Next]_vars
=============================================================================
