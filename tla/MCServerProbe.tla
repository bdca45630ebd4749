---------------------------- MODULE MCServerProbe ----------------------------
(* Small sets for ServerProbe.                                             *)
EXTENDS ServerProbe

Plain == [tls |-> FALSE, mux |-> FALSE, ws |-> FALSE, oidc |-> FALSE, proxy |-> FALSE]

(* A complete secret, and one in which the key is missing.                 *)
SomeSecrets == {[has |-> Kinds, version |-> 1], [has |-> {"cert"}, version |-> 2]}

(* With and without TLS and a session: between them they have the four    *)
(* waits without a limit.                                                  *)
SomeSpecs == {[Plain EXCEPT !.tls = TRUE, !.proxy = TRUE],
              [Plain EXCEPT !.mux = TRUE, !.ws = TRUE, !.oidc = TRUE]}
=============================================================================
