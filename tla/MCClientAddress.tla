---------------------------- MODULE MCClientAddress ----------------------------
(* An instance of ClientAddress for TLC: a name that may be p1 or nobody, another one, *)
(* and l1 configured as an address. *)
EXTENDS ClientAddress, TLC
CONSTANTS n1, n2, p1, l1, c, d

Plain(a) == <<a, "plain">>
MCLiterals == {Plain(l1)}
MCNames == <<n1, n2>>
MCAnswers == {{}, {Plain(p1)}}
MCHops == {Plain(p1), Plain(l1), Plain(c)}
MCWays ==
    {<<x>> : x \in MCHops} \cup (MCHops \X MCHops) \cup ({Plain(c)} \X MCHops \X MCHops)
MCRoutes == MCWays \cup {[w EXCEPT ![Len(w)] = <<@[1], "mapped">>] : w \in MCWays}
MCClaims == {Junk, Plain(d)}
=============================================================================
