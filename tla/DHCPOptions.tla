---------------------------- MODULE DHCPOptions ----------------------------
(***************************************************************************)
(* How a DHCP lease reads the routes of an ACK: the static route option,   *)
(* pairs of a classful subnet and a router, and the classless route option *)
(* of RFC 3442, where a route takes a width, as many octets of the         *)
(* destination as the width needs, and a router.  Options are byte         *)
(* sequences as the server has built them, cut at any length.              *)
(***************************************************************************)
EXTENDS Concatenation

CONSTANTS NoOption,   \* the option is not in the ACK
          Widths,     \* widths that are tried, some of them too large
          Subnets,    \* destinations
          Routers,    \* routers
          MaxRoutes   \* the routes of an option

Octet == 0 .. 255
RouteRecord == [dst : [1 .. 4 -> Octet], width : Octet, gw : [1 .. 4 -> Octet]]

ASSUME OptionsAssumption ==
    /\ Widths \subseteq Octet /\ MaxRoutes \in Nat
    /\ Subnets \subseteq [1 .. 4 -> Octet] /\ Routers \subseteq [1 .. 4 -> Octet]
    /\ NoOption \notin Seq(Nat) \cup [routes : Seq(RouteRecord), cut : Nat]

VARIABLES static,      \* the static route option: the routes and where it is cut
          classless    \* the classless route option

-----------------------------------------------------------------------------
(* DefaultMask of package net, by the leading bits of the address.         *)
DefaultMask(sn) == IF sn[1] < 128 THEN 8 ELSE IF sn[1] < 192 THEN 16 ELSE 24

Route(sn, width, gw) == [dst |-> sn, width |-> width, gw |-> gw]

(* The loop of parseRoutes, as long as there are eight bytes: the bytes    *)
(* that it has read, and the routes.                                       *)
NextRoute(opt, s) ==
    IF Len(opt) - s.at < 8 THEN s
    ELSE LET sn == SubSeq(opt, s.at + 1, s.at + 4)
         IN  [at |-> s.at + 8,
              routes |-> Append(s.routes, Route(sn, DefaultMask(sn), SubSeq(opt, s.at + 5, s.at + 8)))]

ParseRoutes(opt) ==
    LET loop[n \in 0 .. Len(opt)] ==
            IF n = 0 THEN [at |-> 0, routes |-> <<>>] ELSE NextRoute(opt, loop[n - 1])
    IN  loop[Len(opt)].routes

(* Mutant: a width of whole octets takes one octet more.                   *)
SignificantTooMany(width) == IF width = 0 THEN 0 ELSE width \div 8 + 1

(* The octets of the destination that are present.                         *)
Significant(width) == IF width = 0 THEN 0 ELSE (width - 1) \div 8 + 1

(* The loop of parseCIDRRoutes, up to an error.                            *)
NextCIDRRoute(opt, s) ==
    LET width == opt[s.at + 1]
        n == Significant(width)
    IN  IF ~ s.ok \/ Len(opt) - s.at < 5 THEN s
        ELSE IF width > 32 \/ Len(opt) - s.at < 1 + n + 4 THEN [s EXCEPT !.ok = FALSE]
        ELSE [ok |-> TRUE, at |-> s.at + n + 5,
              routes |-> Append(s.routes,
                             Route([k \in 1 .. 4 |-> IF k <= n THEN opt[s.at + 1 + k] ELSE 0], width,
                                   SubSeq(opt, s.at + n + 2, s.at + n + 5)))]

(* One error anywhere discards the routes that come before it as well.     *)
ParseCIDRRoutes(opt) ==
    LET loop[n \in 0 .. Len(opt)] ==
            IF n = 0 THEN [ok |-> TRUE, at |-> 0, routes |-> <<>>] ELSE NextCIDRRoute(opt, loop[n - 1])
    IN  IF loop[Len(opt)].ok THEN loop[Len(opt)].routes ELSE <<>>

(* Routes of a lease: those of both options.                               *)
Routes(opts) ==
    (IF opts.static = NoOption THEN <<>> ELSE ParseRoutes(opts.static)) \o
    (IF opts.classless = NoOption THEN <<>> ELSE ParseCIDRRoutes(opts.classless))

-----------------------------------------------------------------------------
(* The server's side (RFC 2132 and RFC 3442).                              *)

(* The least number of octets that hold so many bits, of the four.         *)
Holding(width) == CHOOSE n \in 0 .. 4 : (8 * n >= width \/ n = 4) /\ (8 * (n - 1) < width)

(* The routes as they are encoded.                                         *)
StaticParts(rs) == [i \in 1 .. Len(rs) |-> rs[i].dst \o rs[i].gw]
ClasslessParts(rs) ==
    [i \in 1 .. Len(rs) |-> <<rs[i].width>> \o SubSeq(rs[i].dst, 1, Holding(rs[i].width)) \o rs[i].gw]

StaticRoute == {Route(sn, DefaultMask(sn), gw) : sn \in Subnets, gw \in Routers}

(* With zeros where the option has no octets.                              *)
ClasslessRoute ==
    {Route([k \in 1 .. 4 |-> IF k <= Holding(w) THEN sn[k] ELSE 0], w, gw) :
        w \in Widths, sn \in Subnets, gw \in Routers}

Lists(S) == UNION {[1 .. n -> S] : n \in 0 .. MaxRoutes}

(* An option is built by a server from routes, and cut bytes of it are     *)
(* left.                                                                   *)
Cuts(rs, parts) == {[routes |-> rs, cut |-> c] : c \in 0 .. Len(Flat(parts))}
Bytes(o, parts) == IF o = NoOption THEN NoOption ELSE SubSeq(Flat(parts), 1, o.cut)

(* Any option alone, or any classless one with a static route, whole or    *)
(* cut.                                                                    *)
OptionInputs ==
    \/ /\ static = NoOption \/ \E rs \in Lists(StaticRoute) : static \in Cuts(rs, StaticParts(rs))
       /\ classless = NoOption
    \/ /\ \E r \in StaticRoute, c \in {7, 8} :
            r.dst[1] >= 192 /\ r.gw[1] # 0 /\ static = [routes |-> <<r>>, cut |-> c]
       /\ \/ classless = NoOption
          \/ \E rs \in Lists(ClasslessRoute) : classless \in Cuts(rs, ClasslessParts(rs))

-----------------------------------------------------------------------------
(* The routes that are there in full, and the bytes behind them.           *)
Whole(o, parts) ==
    LET length(n) == Len(Built(parts)[n])
        n == CHOOSE n \in 0 .. Len(parts) :
                length(n) <= o.cut /\ (n < Len(parts) => length(n + 1) > o.cut)
    IN  [routes |-> SubSeq(o.routes, 1, n), rest |-> o.cut - length(n)]

(* A lease has the routes that the server has put into the ACK, in their   *)
(* order and with their destinations, widths and routers, whatever their   *)
(* widths: all of an option that is complete, all whole ones of a static   *)
(* option that is cut; and, of a classless one, all whole ones if what     *)
(* follows them is too short for any route, and otherwise, or if a width   *)
(* is too large, none.                                                     *)
RoutesAreOffered ==
    LET expected(o, w, ok) == IF o = NoOption \/ ~ ok THEN <<>> ELSE w.routes
        sparts == StaticParts(static.routes)
        cparts == ClasslessParts(classless.routes)
        c == Whole(classless, cparts)
        legal == \A i \in 1 .. Len(c.routes) : c.routes[i].width <= 32
    IN  Routes([static |-> Bytes(static, sparts), classless |-> Bytes(classless, cparts)])
          = expected(static, Whole(static, sparts), TRUE) \o expected(classless, c, c.rest < 5 /\ legal)
=============================================================================
