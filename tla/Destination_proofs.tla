------------------------- MODULE Destination_proofs -------------------------
(***************************************************************************)
(* Proofs about the destination checks of service q: is_blocked_ip blocks  *)
(* exactly the blocks its documentation lists, for every address.          *)
(***************************************************************************)
EXTENDS Destination, TLAPS

Octet == {x \in Nat : x < 256}
Segment == {x \in Nat : x < 65536}
Octets4 == [1..4 -> Octet]
Segments8 == [1..8 -> Segment]

\* std::net::IpAddr.
Addresses == [family : {4}, parts : Octets4] \union [family : {6}, parts : Segments8]

(***************************************************************************)
(* What it is to be in a block, by the number of bits of the prefix in its *)
(* last part                                                               *)
(***************************************************************************)

\* A whole first octet.
LEMMA InBlock8 ==
    ASSUME NEW o \in Octets4, NEW a \in Octet
    PROVE  InBlock([family |-> 4, parts |-> o], <<4, <<a>>, 8>>) <=> o[1] = a
<1>1. 2^0 = 1 /\ o[1] \in Nat /\ a \in Nat
  BY DEF Octets4, Octet
<1> QED
  BY <1>1 DEF InBlock

\* A whole first octet and the leading bits of the second, `low` left out.
LEMMA TwoOctets ==
    ASSUME NEW ip, NEW block, NEW low \in 0..7,
           ip.family = 4, block[1] = 4, Len(block[2]) = 2, block[3] = 16 - low,
           ip.parts[1] \in Nat, block[2][1] \in Nat
    PROVE  InBlock(ip, block) <=> /\ ip.parts[1] = block[2][1]
                                  /\ ip.parts[2] \div 2^low = block[2][2] \div 2^low
<1> DEFINE rest(i) == LET n == block[3] - 8 * (i - 1)
                      IN  IF n >= 8 THEN 0 ELSE 8 - n
           Agree(i) == ip.parts[i] \div 2^rest(i) = block[2][i] \div 2^rest(i)
<1>1. InBlock(ip, block) <=> \A i \in 1..2 : Agree(i)
  BY DEF InBlock
<1>2. rest(1) = 0 /\ rest(2) = low
  OBVIOUS
<1>3. \A x \in Nat : x \div 2^0 = x
  <2>1. 2^0 = 1
    OBVIOUS
  <2>2. \A x \in Nat : x \div 1 = x
    OBVIOUS
  <2> QED
    BY <2>1, <2>2, Zenon
<1> HIDE DEF rest
<1>4. Agree(1) <=> ip.parts[1] = block[2][1]
  <2>1. ip.parts[1] \div 2^0 = ip.parts[1] /\ block[2][1] \div 2^0 = block[2][1]
    BY <1>3, Zenon
  <2> QED
    BY <1>2, <2>1, Zenon
<1>5. Agree(2) <=> ip.parts[2] \div 2^low = block[2][2] \div 2^low
  BY <1>2
<1> HIDE DEF Agree
<1>6. (\A i \in 1..2 : Agree(i)) <=> Agree(1) /\ Agree(2)
  OBVIOUS
<1> QED
  BY <1>1, <1>4, <1>5, <1>6

\* The leading bits of the first segment, `low` left out.
LEMMA OneSegment ==
    ASSUME NEW ip, NEW block, NEW low \in 1..15,
           ip.family = 6, block[1] = 6, Len(block[2]) = 1, block[3] = 16 - low
    PROVE  InBlock(ip, block) <=> ip.parts[1] \div 2^low = block[2][1] \div 2^low
BY DEF InBlock

\* A whole address.
LEMMA EightSegments ==
    ASSUME NEW ip, NEW block,
           ip.family = 6, block[1] = 6, Len(block[2]) = 8, block[3] = 128,
           \A i \in 1..8 : ip.parts[i] \in Nat /\ block[2][i] \in Nat
    PROVE  InBlock(ip, block) <=> \A i \in 1..8 : ip.parts[i] = block[2][i]
<1> DEFINE rest(i) == LET n == block[3] - 16 * (i - 1)
                      IN  IF n >= 16 THEN 0 ELSE 16 - n
           Agree(i) == ip.parts[i] \div 2^rest(i) = block[2][i] \div 2^rest(i)
<1>1. InBlock(ip, block) <=> \A i \in 1..8 : Agree(i)
  BY DEF InBlock
<1>2. \A i \in 1..8 : rest(i) = 0
  OBVIOUS
<1>3. \A x \in Nat : x \div 2^0 = x
  <2>1. 2^0 = 1
    OBVIOUS
  <2>2. \A x \in Nat : x \div 1 = x
    OBVIOUS
  <2> QED
    BY <2>1, <2>2, Zenon
<1> HIDE DEF rest
<1>4. ASSUME NEW i \in 1..8
      PROVE  Agree(i) <=> ip.parts[i] = block[2][i]
  <2>1. ip.parts[i] \div 2^0 = ip.parts[i] /\ block[2][i] \div 2^0 = block[2][i]
    BY <1>3, Zenon
  <2>2. rest(i) = 0
    BY <1>2
  <2>3. Agree(i) <=> ip.parts[i] \div 2^0 = block[2][i] \div 2^0
    BY <2>2
  <2> QED
    BY <2>1, <2>3
<1> HIDE DEF Agree
<1> QED
  BY <1>1, <1>4

\* An address is in no block of the other family.
LEMMA OtherFamily ==
    ASSUME NEW ip, NEW block, ip.family # block[1]
    PROVE  ~InBlock(ip, block)
BY DEF InBlock

(***************************************************************************)
(* The two families                                                        *)
(***************************************************************************)

LEMMA BlockedV4 ==
    ASSUME NEW o \in Octets4
    PROVE  is_blocked_v4(o) <=>
              \E block \in DocumentedBlocks : InBlock([family |-> 4, parts |-> o], block)
<1> DEFINE ip == [family |-> 4, parts |-> o]
           In(block) == InBlock(ip, block)
<1>1. ip.family = 4 /\ ip.parts = o /\ o[1] \in Nat /\ o[2] \in Nat
  BY DEF Octets4, Octet
<1>a. {0, 10, 127, 255} \subseteq Octet
  BY DEF Octet
<1>2. \A a \in Octet : In(<<4, <<a>>, 8>>) <=> o[1] = a
  BY InBlock8
<1> HIDE DEF ip
<1>3. In(<<4, <<100, 64>>, 10>>) <=> o[1] = 100 /\ o[2] \in 64..127
  <2> DEFINE block == <<4, <<100, 64>>, 10>>
  <2>1. /\ block[1] = 4 /\ Len(block[2]) = 2 /\ block[3] = 10
        /\ block[2][1] = 100 /\ block[2][2] = 64
    OBVIOUS
  <2> HIDE DEF block
  <2>2. 10 = 16 - 6 /\ 6 \in 0..7
    OBVIOUS
  <2>3. In(block) <=> o[1] = 100 /\ o[2] \div 2^6 = 64 \div 2^6
    <3>1. In(block) <=> /\ ip.parts[1] = block[2][1]
                        /\ ip.parts[2] \div 2^6 = block[2][2] \div 2^6
      BY <1>1, <2>1, <2>2, TwoOctets DEF In
    <3> QED
      BY <1>1, <2>1, <3>1
  <2>4. 2^6 = 64
    OBVIOUS
  <2>5. o[2] \div 64 = 64 \div 64 <=> o[2] \in 64..127
    BY <1>1
  <2> QED
    BY <2>3, <2>4, <2>5 DEF block
<1>4. In(<<4, <<169, 254>>, 16>>) <=> o[1] = 169 /\ o[2] = 254
  <2> DEFINE block == <<4, <<169, 254>>, 16>>
  <2>1. /\ block[1] = 4 /\ Len(block[2]) = 2 /\ block[3] = 16
        /\ block[2][1] = 169 /\ block[2][2] = 254
    OBVIOUS
  <2> HIDE DEF block
  <2>2. 16 = 16 - 0 /\ 0 \in 0..7
    OBVIOUS
  <2>3. In(block) <=> o[1] = 169 /\ o[2] \div 2^0 = 254 \div 2^0
    <3>1. In(block) <=> /\ ip.parts[1] = block[2][1]
                        /\ ip.parts[2] \div 2^0 = block[2][2] \div 2^0
      BY <1>1, <2>1, <2>2, TwoOctets DEF In
    <3> QED
      BY <1>1, <2>1, <3>1
  <2>4. 2^0 = 1
    OBVIOUS
  <2>5. o[2] \div 1 = 254 \div 1 <=> o[2] = 254
    BY <1>1
  <2> QED
    BY <2>3, <2>4, <2>5 DEF block
<1>5. In(<<4, <<172, 16>>, 12>>) <=> o[1] = 172 /\ o[2] \in 16..31
  <2> DEFINE block == <<4, <<172, 16>>, 12>>
  <2>1. /\ block[1] = 4 /\ Len(block[2]) = 2 /\ block[3] = 12
        /\ block[2][1] = 172 /\ block[2][2] = 16
    OBVIOUS
  <2> HIDE DEF block
  <2>2. 12 = 16 - 4 /\ 4 \in 0..7
    OBVIOUS
  <2>3. In(block) <=> o[1] = 172 /\ o[2] \div 2^4 = 16 \div 2^4
    <3>1. In(block) <=> /\ ip.parts[1] = block[2][1]
                        /\ ip.parts[2] \div 2^4 = block[2][2] \div 2^4
      BY <1>1, <2>1, <2>2, TwoOctets DEF In
    <3> QED
      BY <1>1, <2>1, <3>1
  <2>4. 2^4 = 16
    OBVIOUS
  <2>5. o[2] \div 16 = 16 \div 16 <=> o[2] \in 16..31
    BY <1>1
  <2> QED
    BY <2>3, <2>4, <2>5 DEF block
<1>6. In(<<4, <<192, 168>>, 16>>) <=> o[1] = 192 /\ o[2] = 168
  <2> DEFINE block == <<4, <<192, 168>>, 16>>
  <2>1. /\ block[1] = 4 /\ Len(block[2]) = 2 /\ block[3] = 16
        /\ block[2][1] = 192 /\ block[2][2] = 168
    OBVIOUS
  <2> HIDE DEF block
  <2>2. 16 = 16 - 0 /\ 0 \in 0..7
    OBVIOUS
  <2>3. In(block) <=> o[1] = 192 /\ o[2] \div 2^0 = 168 \div 2^0
    <3>1. In(block) <=> /\ ip.parts[1] = block[2][1]
                        /\ ip.parts[2] \div 2^0 = block[2][2] \div 2^0
      BY <1>1, <2>1, <2>2, TwoOctets DEF In
    <3> QED
      BY <1>1, <2>1, <3>1
  <2>4. 2^0 = 1
    OBVIOUS
  <2>5. o[2] \div 1 = 168 \div 1 <=> o[2] = 168
    BY <1>1
  <2> QED
    BY <2>3, <2>4, <2>5 DEF block
<1>7. \A prefix, n : ~In(<<6, prefix, n>>)
  BY <1>1, OtherFamily
<1> HIDE DEF In
<1>8. (\E block \in DocumentedBlocks : In(block)) <=>
         \/ \E a \in {0, 10, 127, 255} : In(<<4, <<a>>, 8>>)
         \/ In(<<4, <<100, 64>>, 10>>) \/ In(<<4, <<169, 254>>, 16>>)
         \/ In(<<4, <<172, 16>>, 12>>) \/ In(<<4, <<192, 168>>, 16>>)
  BY <1>7 DEF DocumentedBlocks
<1>9. (\E a \in {0, 10, 127, 255} : In(<<4, <<a>>, 8>>)) <=> o[1] \in {0, 10, 127, 255}
  BY <1>2, <1>a
<1>10. is_blocked_v4(o) <=> \E block \in DocumentedBlocks : In(block)
  <2> DEFINE shared == o[2] \in 64..127
             private == o[2] \in 16..31
  <2>1. /\ is_blocked_v4(o) <=> \/ o[1] \in {0, 10, 127, 255}
                                \/ o[1] = 100 /\ shared
                                \/ o[1] = 169 /\ o[2] = 254
                                \/ o[1] = 172 /\ private
                                \/ o[1] = 192 /\ o[2] = 168
        /\ In(<<4, <<100, 64>>, 10>>) <=> o[1] = 100 /\ shared
        /\ In(<<4, <<172, 16>>, 12>>) <=> o[1] = 172 /\ private
    BY <1>3, <1>5, Zenon DEF is_blocked_v4
  <2> HIDE DEF shared, private
  <2> QED
    BY <1>4, <1>6, <1>8, <1>9, <2>1
<1> QED
  BY <1>10 DEF In, ip

LEMMA BlockedV6 ==
    ASSUME NEW s \in Segments8
    PROVE  is_blocked_v6(s) <=>
              \E block \in DocumentedBlocks : InBlock([family |-> 6, parts |-> s], block)
<1> DEFINE ip == [family |-> 6, parts |-> s]
           In(block) == InBlock(ip, block)
<1>1. ip.family = 6 /\ ip.parts = s /\ \A i \in 1..8 : s[i] \in Nat
  BY DEF Segments8, Segment
<1> HIDE DEF ip
<1>2. ASSUME NEW z \in Nat
      PROVE  In(<<6, <<0, 0, 0, 0, 0, 0, 0, z>>, 128>>) <=>
                (\A i \in 1..7 : s[i] = 0) /\ s[8] = z
  <2> DEFINE block == <<6, <<0, 0, 0, 0, 0, 0, 0, z>>, 128>>
  <2>1. /\ block[1] = 6 /\ Len(block[2]) = 8 /\ block[3] = 128
        /\ \A i \in 1..7 : block[2][i] = 0
        /\ block[2][8] = z
    OBVIOUS
  <2> HIDE DEF block
  <2>2. \A i \in 1..8 : block[2][i] \in Nat
    BY <2>1
  <2>3. In(block) <=> \A i \in 1..8 : s[i] = block[2][i]
    BY <1>1, <2>1, <2>2, EightSegments DEF In
  <2> QED
    BY <2>1, <2>3 DEF block
<1>3. In(<<6, <<64512>>, 7>>) <=> Masked(s[1], 9) = 64512
  <2> DEFINE block == <<6, <<64512>>, 7>>
  <2>1. block[1] = 6 /\ Len(block[2]) = 1 /\ block[3] = 7 /\ block[2][1] = 64512
    OBVIOUS
  <2> HIDE DEF block
  <2>2. 7 = 16 - 9 /\ 9 \in 1..15
    OBVIOUS
  <2>3. In(block) <=> s[1] \div 2^9 = 64512 \div 2^9
    <3>1. In(block) <=> ip.parts[1] \div 2^9 = block[2][1] \div 2^9
      BY <1>1, <2>1, <2>2, OneSegment DEF In
    <3> QED
      BY <1>1, <2>1, <3>1
  <2>4. 2^9 = 512
    OBVIOUS
  <2>5. s[1] - (s[1] % 512) = 64512 <=> s[1] \div 512 = 126
    BY <1>1
  <2>6. 64512 \div 512 = 126
    OBVIOUS
  <2> QED
    BY <2>3, <2>4, <2>5, <2>6 DEF Masked, block
<1>4. In(<<6, <<65152>>, 10>>) <=> Masked(s[1], 6) = 65152
  <2> DEFINE block == <<6, <<65152>>, 10>>
  <2>1. block[1] = 6 /\ Len(block[2]) = 1 /\ block[3] = 10 /\ block[2][1] = 65152
    OBVIOUS
  <2> HIDE DEF block
  <2>2. 10 = 16 - 6 /\ 6 \in 1..15
    OBVIOUS
  <2>3. In(block) <=> s[1] \div 2^6 = 65152 \div 2^6
    <3>1. In(block) <=> ip.parts[1] \div 2^6 = block[2][1] \div 2^6
      BY <1>1, <2>1, <2>2, OneSegment DEF In
    <3> QED
      BY <1>1, <2>1, <3>1
  <2>4. 2^6 = 64
    OBVIOUS
  <2>5. s[1] - (s[1] % 64) = 65152 <=> s[1] \div 64 = 1018
    BY <1>1
  <2>6. 65152 \div 64 = 1018
    OBVIOUS
  <2> QED
    BY <2>3, <2>4, <2>5, <2>6 DEF Masked, block
<1>5. \A prefix, n : ~In(<<4, prefix, n>>)
  BY <1>1, OtherFamily
<1> HIDE DEF In
<1>6. (\E block \in DocumentedBlocks : In(block)) <=>
         \/ \E z \in {0, 1} : In(<<6, <<0, 0, 0, 0, 0, 0, 0, z>>, 128>>)
         \/ In(<<6, <<64512>>, 7>>) \/ In(<<6, <<65152>>, 10>>)
  BY <1>5 DEF DocumentedBlocks
<1>7. is_blocked_v6(s) <=> \E block \in DocumentedBlocks : In(block)
  BY <1>2, <1>3, <1>4, <1>6 DEF is_blocked_v6
<1> QED
  BY <1>7 DEF In, ip

LEMMA MappedOctets ==
    ASSUME NEW s \in Segments8
    PROVE  to_ipv4_mapped(s) \in Octets4
<1>1. s[7] \in Segment /\ s[8] \in Segment
  BY DEF Segments8, Segment
<1>2. \A x \in Segment : x \div 256 \in Octet /\ x % 256 \in Octet
  BY DEF Octet, Segment
<1> QED
  BY <1>1, <1>2 DEF to_ipv4_mapped, Octets4

(***************************************************************************)
(* The check as a whole                                                    *)
(***************************************************************************)

\* The doc comment of is_blocked_ip says which addresses it blocks: those, all
\* of them, IPv4-mapped ones by the address they embed, and no others.
THEOREM BlockedIsDocumented ==
    \A ip \in Addresses : is_blocked_ip(ip) <=> Documented(ip)
<1> SUFFICES ASSUME NEW ip \in Addresses
             PROVE  is_blocked_ip(ip) <=> Documented(ip)
  OBVIOUS
<1>1. CASE ip.family = 4
  <2>1. ip.parts \in Octets4 /\ ip = [family |-> 4, parts |-> ip.parts]
    BY <1>1 DEF Addresses
  <2> QED
    BY <1>1, <2>1, BlockedV4 DEF is_blocked_ip, Documented, Unmapped
<1>2. CASE ip.family = 6 /\ Mapped(ip.parts)
  <2>1. ip.parts \in Segments8
    BY <1>2 DEF Addresses
  <2> QED
    BY <1>2, <2>1, MappedOctets, BlockedV4 DEF is_blocked_ip, Documented, Unmapped
<1>3. CASE ip.family = 6 /\ ~Mapped(ip.parts)
  <2>1. ip.parts \in Segments8 /\ ip = [family |-> 6, parts |-> ip.parts]
    BY <1>3 DEF Addresses
  <2> QED
    BY <1>3, <2>1, BlockedV6 DEF is_blocked_ip, Documented, Unmapped
<1> QED
  BY <1>1, <1>2, <1>3 DEF Addresses

\* A destination is let through only if its host resolved and none of the
\* addresses it resolved to is a documented one, unless private ones are
\* allowed.
THEOREM ValidatedIsPublic ==
    ASSUME NEW url \in Urls, NEW ips \in SUBSET Addresses,
           validate(url, ips, FALSE) = "ok"
    PROVE  /\ url.web /\ ~url.userinfo /\ url.port # "other"
           /\ ips # {}
           /\ \A ip \in ips : ~Documented(ip)
<1>1. validate_url(url) = "ok" /\ ips # {} /\ \A ip \in ips : ~is_blocked_ip(ip)
  BY DEF validate
<1>2. url.web /\ ~url.userinfo /\ url.port # "other"
  BY <1>1 DEF validate_url, Urls
<1> QED
  BY <1>1, <1>2, BlockedIsDocumented
=============================================================================
