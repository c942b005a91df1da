----------------------------- MODULE MCQIngest -----------------------------
(***************************************************************************)
(* Model values for TLC: four clients that share one token and so one      *)
(* bucket.  The first two race for one key, the second authorized by its   *)
(* signature alone; what the third sends does not parse; the signature of  *)
(* the fourth is wrong although its token is good, so that the limiter     *)
(* never hears of it.  The bucket "anonymous" stays empty.                 *)
(***************************************************************************)
EXTENDS QIngest, TLC

CONSTANTS c1, c2, c3, c4, k1, t1

Url(web, userinfo, port) == [web |-> web, userinfo |-> userinfo, port |-> port]
Plain == Url(TRUE, FALSE, "none")

Requests ==
    c1 :> [signature |-> "absent", token |-> t1, json |-> TRUE, key |-> k1, url |-> Plain]
 @@ c2 :> [signature |-> "valid", token |-> t1, json |-> TRUE, key |-> k1, url |-> Plain]
 @@ c3 :> [signature |-> "valid", token |-> t1, json |-> FALSE, key |-> NoKey, url |-> Plain]
 @@ c4 :> [signature |-> "wrong", token |-> t1, json |-> TRUE, key |-> k1, url |-> Plain]

TwoBuckets == {t1, "anonymous"}
ThreeIds == 1..3

v4(a, b) == [family |-> 4, parts |-> <<a, b, 0, 1>>]
v6(first, last2) == [family |-> 6, parts |-> <<first, 0, 0, 0, 0, 0, last2, 1>>]
mapped(a, b) == [family |-> 6, parts |-> <<0, 0, 0, 0, 0, 65535, 256 * a + b, 1>>]

\* A public host, one that also resolves to a private address, a failure.
ThreeAnswers == {{v4(8, 8)}, {v4(8, 8), mapped(10, 0)}, {}}

\* is_blocked_ip agrees with its documentation at every boundary of a block.
Octets == {0, 1, 9, 10, 11, 15, 16, 31, 32, 63, 64, 99, 100, 101, 126, 127, 128, 168,
           169, 170, 171, 172, 173, 191, 192, 193, 253, 254, 255}
Segments == {0, 1, 64511, 64512, 65023, 65024, 65151, 65152, 65215, 65216, 65535}

ASSUME BlockedAsDocumented ==
    \A ip \in {v4(a, b) : a, b \in Octets} \union {mapped(a, b) : a, b \in Octets}
                 \union {v6(s, t) : s, t \in Segments} :
        is_blocked_ip(ip) <=> Documented(ip)
=============================================================================
