----------------------------- MODULE MCClients -----------------------------
(* The names "ab.c", "d.c" and "e.c": an alias with two addresses, an        *)
(* address, and none at all.                                               *)
EXTENDS Clients

ab_c == <<97, 98, 46, 99>>
d_c == <<100, 46, 99>>
e_c == <<101, 46, 99>>

Domains == <<ab_c, d_c, e_c>>

Address(n) == [type |-> 1, ip |-> <<10, 0, 5, n>>]
Alias(l) == [type |-> 5, label |-> <<l>>]

Records ==
    [n \in {ab_c, d_c, e_c} |->
        CASE n = ab_c -> <<Alias(120), Alias(121), Address(1), Address(2)>>
          [] n = d_c -> <<Address(3)>>
          [] OTHER -> <<>>]
=============================================================================
