------------------------------ MODULE IPBytes ------------------------------
(***************************************************************************)
(* Addresses as the code handles them, as byte slices: the increment of    *)
(* pkg/ip through big.Int, the mask arithmetic of networkRange and the     *)
(* bytewise comparison of validateRangeIP, checked against the integers    *)
(* that IPRange uses in their place.  A byte has Base values and an        *)
(* address Width bytes, instead of 256 and 4.                              *)
(***************************************************************************)
EXTENDS IPRange, Sequences

CONSTANTS Base,    \* values of a byte, a power of two
          Width,   \* bytes of an address
          Ones     \* the masks, by number of addresses they span

Byte == 0 .. Base - 1
Address == [1 .. Width -> Byte]

Power[k \in Nat] == IF k = 0 THEN 1 ELSE Base * Power[k - 1]    \* of Base
Modulus == Power[Width]

(* A mask of consecutive ones: it spans the values of some of the last     *)
(* bytes, and in the byte before them those of some of the last bits.      *)
IsMask(n) == \E k \in 0 .. Width - 1, h \in 1 .. Base : Base % h = 0 /\ n = h * Power[k]

ASSUME BytesAssumption ==
    /\ Base \in Nat /\ Base >= 2 /\ Width \in Nat \ {0}
    /\ \A n \in Ones : IsMask(n)
    /\ Nil \notin Nat \cup Address

VARIABLES ip, net, size, start, end

AddressInputs ==
    /\ ip \in Address /\ net \in Address /\ size \in Ones
    /\ start \in Address \cup {Nil} /\ end \in Address \cup {Nil}

-----------------------------------------------------------------------------
(* big.Int.SetBytes: the values of the first bytes, and of all of them.    *)
PrefixValues(b) ==
    LET val[i \in 0 .. Len(b)] == IF i = 0 THEN 0 ELSE val[i - 1] * Base + b[i] IN val

ToInt(b) == PrefixValues(b)[Len(b)]

(* A value as exactly w bytes.                                             *)
Padded(n, w) == [i \in 1 .. w |-> (n \div Power[w - i]) % Base]

(* big.Int.Bytes: big-endian without leading zeros, so that a value may    *)
(* come back with fewer bytes than it went in with, or with one more.      *)
BytesOf(n) ==
    LET Fits == {w \in 0 .. Width + 1 : n < Power[w]}
    IN  Padded(n, CHOOSE w \in Fits : \A v \in Fits : w <= v)

(* NextIP and PrevIP; big.Int.Bytes drops the sign.                        *)
NextIPBytes(b) == BytesOf(ToInt(b) + 1)
PrevIPBytes(b) == BytesOf(IF ToInt(b) = 0 THEN 1 ELSE ToInt(b) - 1)

(* net.CIDRMask: the host bits of byte i are those below HostSpan.         *)
HostSpan(i) == IF Power[Width - i] >= size THEN 1
               ELSE IF Power[Width - i + 1] <= size THEN Base
               ELSE size \div Power[Width - i]

(* networkRange: ip[i] | ^mask[i], then end[3]-- in one byte's width.      *)
NetworkEndBytes ==
    [i \in 1 .. Width |->
        LET full == net[i] - (net[i] % HostSpan(i)) + HostSpan(i) - 1
        IN  IF i = Width THEN (full + Base - 1) % Base ELSE full]

(* ip.Network and IPNet.Contains: mask off the host portion, byte by byte. *)
Masked(b) == [i \in 1 .. Width |-> b[i] - (b[i] % HostSpan(i))]
ContainsBytes(b) == Masked(b) = Masked(net)

(* Mutant: every byte is compared, without the break.                      *)
NotBeforeEachByte(b, s) == \A i \in 1 .. Width : b[i] >= s[i]

(* The loops of validateRangeIP: the first byte that differs decides.      *)
NotBefore(b, s) ==
    \A i \in 1 .. Width : b[i] < s[i] => \E j \in 1 .. i - 1 : b[j] > s[j]

ValidateRangeIP ==
    /\ ContainsBytes(ip)
    /\ start # Nil => NotBefore(ip, start)
    /\ end # Nil => NotBefore(end, ip)

-----------------------------------------------------------------------------
Value(b) == IF b = Nil THEN Nil ELSE ToInt(b)
Conf == [ip |-> ToInt(net), size |-> size]

(* The bytewise validateRangeIP accepts the addresses between the bounds.  *)
ValidateAgrees == ValidateRangeIP <=> InBounds(Conf, ToInt(ip), Value(start), Value(end))

(* The decrement never borrows for a mask that NewIPAllocator accepts.     *)
NetworkEndAgrees == size >= 4 => ToInt(NetworkEndBytes) = NetworkEnd(Conf)

(* The length of an address is kept, and PrevIP undoes NextIP, as long as  *)
(* neither the address nor the result has a zero first byte or overflows.  *)
NextIPAgrees ==
    ip[1] # 0 /\ ToInt(ip) + 1 < Modulus =>
        /\ NextIPBytes(ip) \in Address
        /\ ToInt(NextIPBytes(ip)) = NextIP(ToInt(ip))
        /\ PrevIPBytes(NextIPBytes(ip)) = ip

(* The code's byte slices compute what IPRange computes with integers:     *)
(* the bytewise comparison of validateRangeIP accepts the addresses        *)
(* between the bounds, networkRange finds the last address but one of the  *)
(* subnet, and NextIP and PrevIP are the successor and the predecessor.    *)
BytesAgree == ValidateAgrees /\ NetworkEndAgrees /\ NextIPAgrees
============================================================================
