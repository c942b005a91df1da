---------------------------- MODULE Destination ----------------------------
(***************************************************************************)
(* Which destinations service q lets a client name                         *)
(* (q/src/security/ssrf.rs): the static checks of a URL, and the addresses *)
(* its host may resolve to.                                                *)
(*                                                                         *)
(* A URL is the record of the facts the checks read.  An address is        *)
(* [family |-> 4, parts |-> four octets] or                                *)
(* [family |-> 6, parts |-> eight 16-bit segments].                        *)
(***************************************************************************)
EXTENDS Integers, Sequences

\* Every URL a client may write: a scheme of the web or another, with or
\* without userinfo, with no explicit port, an allowed one (80, 443) or
\* another.  A parsed http(s) URL has a host: MissingHost cannot happen.
Urls == [web : BOOLEAN, userinfo : BOOLEAN, port : {"none", "allowed", "other"}]

\* The status code by which the static checks refuse a URL, in their order.
validate_url(url) ==
    CASE ~url.web -> "400"
      [] url.web /\ (url.userinfo \/ url.port = "other") -> "403"
      [] OTHER -> "ok"

is_blocked_v4(o) ==
    \/ o[1] \in {0, 10, 127, 255}
    \/ o[1] = 100 /\ o[2] \in 64..127
    \/ o[1] = 169 /\ o[2] = 254
    \/ o[1] = 172 /\ o[2] \in 16..31
    \/ o[1] = 192 /\ o[2] = 168

\* ::ffff:a.b.c.d
Mapped(s) == s[6] = 65535 /\ \A i \in 1..5 : s[i] = 0
to_ipv4_mapped(s) == <<s[7] \div 256, s[7] % 256, s[8] \div 256, s[8] % 256>>

\* x & mask for a mask of leading ones that leaves `low` bits out.
Masked(x, low) == x - (x % 2^low)

is_blocked_v6(s) ==
    \/ \A i \in 1..7 : s[i] = 0 /\ s[8] \in {0, 1}       \* :: and ::1
    \/ Masked(s[1], 9) = 64512                           \* & 0xfe00 == 0xfc00
    \/ Masked(s[1], 6) = 65152                           \* & 0xffc0 == 0xfe80

is_blocked_ip(ip) ==
    CASE ip.family = 4 -> is_blocked_v4(ip.parts)
      [] ip.family = 6 /\ Mapped(ip.parts) -> is_blocked_v4(to_ipv4_mapped(ip.parts))
      [] OTHER -> is_blocked_v6(ip.parts)

\* The whole check, given what the resolver answers; {} is a failure to
\* resolve.  All of the addresses must be fit, not just one of them.
validate(url, ips, allow_private) ==
    CASE validate_url(url) # "ok" -> validate_url(url)
      [] validate_url(url) = "ok" /\ \/ ips = {}
                                     \/ ~allow_private /\ \E ip \in ips : is_blocked_ip(ip)
            -> "403"
      [] OTHER -> "ok"

-----------------------------------------------------------------------------
(***************************************************************************)
(* The list of the doc comment of is_blocked_ip, as prefixes in CIDR form. *)
(***************************************************************************)
DocumentedBlocks ==
    {<<4, <<0>>, 8>>, <<4, <<10>>, 8>>, <<4, <<100, 64>>, 10>>, <<4, <<127>>, 8>>,
     <<4, <<169, 254>>, 16>>, <<4, <<172, 16>>, 12>>, <<4, <<192, 168>>, 16>>,
     <<4, <<255>>, 8>>,
     <<6, <<0, 0, 0, 0, 0, 0, 0, 0>>, 128>>, <<6, <<0, 0, 0, 0, 0, 0, 0, 1>>, 128>>,
     <<6, <<64512>>, 7>>, <<6, <<65152>>, 10>>}

\* The first `bits` bits of the address are those of the prefix.
InBlock(ip, block) ==
    LET width == IF ip.family = 4 THEN 8 ELSE 16
    IN  /\ ip.family = block[1]
        /\ \A i \in 1..Len(block[2]) :
              LET n == block[3] - width * (i - 1)      \* bits left for this part
                  low == IF n >= width THEN 0 ELSE width - n
              IN  ip.parts[i] \div 2^low = block[2][i] \div 2^low

\* The address it stands for, an IPv4-mapped one being the embedded one.
Unmapped(ip) ==
    IF ip.family = 6 /\ Mapped(ip.parts)
    THEN [family |-> 4, parts |-> to_ipv4_mapped(ip.parts)]
    ELSE ip

Documented(ip) == \E block \in DocumentedBlocks : InBlock(Unmapped(ip), block)
=============================================================================
