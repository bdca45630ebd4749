------------------------- MODULE MCFrpServerWebhook -------------------------
(***************************************************************************)
(* Model checking of FrpServerWebhook: every specification that differs    *)
(* from a good one in at most two fields, so that every rule is met, alone *)
(* and together with every other.                                          *)
(***************************************************************************)
EXTENDS FrpServerWebhook

Good ==
  [method |-> "token", scopes |-> "valid", token |-> "given", addr |-> "given",
   port |-> 7000, ips |-> "valid", interval |-> 30, timeout |-> 90,
   secret |-> "nil", protocol |-> "tcp", quic |-> "nil", proxy |-> ""]

Values ==
  [method |-> {"", "oidc", "other"}, scopes |-> {"invalid"}, token |-> {""},
   addr |-> {""}, port |-> {-1, 0, 1, 65535, 65536}, ips |-> {"invalid"},
   interval |-> {-1, 0, 120}, timeout |-> {-1, 0, 10, 30},
   secret |-> {"empty", "half", "full"}, protocol |-> {"", "quic", "other"},
   quic |-> {"zero", "set"}, proxy |-> {"usable", "unusable"}]

Change(s) ==
  UNION {{[s EXCEPT ![f] = v] : v \in Values[f]} : f \in DOMAIN Values}

SomeSpecs == {Good} \union Change(Good) \union UNION {Change(s) : s \in Change(Good)}
=============================================================================
