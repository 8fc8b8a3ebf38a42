--------------------------- MODULE MCConversions ---------------------------
(* Small inputs for Conversions.                                           *)
EXTENDS Conversions

(* One subnet of each class, and routers whose octets could be widths.     *)
MCSubnets == {<<10, 1, 2, 3>>, <<172, 16, 0, 0>>, <<192, 168, 1, 0>>}
MCRouters == {<<10, 0, 0, 1>>, <<0, 33, 8, 0>>}

MCWords ==
    Names \cup {"ADD", "DEL", ":", ";", "=", "HOME", "h", "d1", "d2", "other", "x", "IP", "IgnoreUnknown",
                "CommonArgs", "Foo", "10.0.0.2", "10.0.0.3", "true", "0", "a", "b"}

(* A runtime without CNI_ variables, one that has the path as cnitool has, *)
(* and one that runs in the environment of a plugin.                       *)
MCAmbients ==
    {<< <<"HOME", <<"h">> >> >>, << <<"CNI_PATH", <<"d1", ":", "d2">> >> >>,
     << <<"CNI_NETNS", <<"other">> >>, <<"CNI_ARGS", <<"Foo", "=", "0">> >> >>}

MCValues == {<<>>, <<"x">>}

(* No directory, several, and names that are empty or have a colon.        *)
MCPaths ==
    {<<>>, << <<"d1">> >>, << <<"d1">>, <<"d2">> >>, << <<>>, <<"d2">> >>, << <<"d1", ":", "d2">> >>}

MCFiles == {<< <<"d2">>, <<"host-local">> >>, << <<"d1">>, <<"bridge">> >>}

(* Keys and values that are known or not, can be parsed or not, and have   *)
(* separators or not.                                                      *)
Pairs ==
    {<<k, x>> : k \in {<<"IP">>, <<"IgnoreUnknown">>, <<"CommonArgs">>, <<"Foo">>},
                x \in {<<>>, <<"10.0.0.2">>, <<"10.0.0.3">>, <<"true">>, <<"0">>, <<"a", "=", "b">>}}

MCPairLists == {<<>>} \cup {<<p>> : p \in Pairs} \cup (Pairs \X Pairs)
=============================================================================
