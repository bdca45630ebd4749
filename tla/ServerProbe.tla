----------------------------- MODULE ServerProbe -----------------------------
(***************************************************************************)
(* ValidateFrpServerConfig of pkg/utils/frpclient/validate.go: a login to  *)
(* the frp server that an FrpServer object describes, to find out whether  *)
(* it would work.  The admission webhook runs it in one goroutine per      *)
(* request and the reconciler in its worker, all at the same time and with *)
(* one directory for temporary files.  The frp client library and the frp  *)
(* server are external.                                                    *)
(***************************************************************************)
EXTENDS Naturals, Sequences, FiniteSets

CONSTANTS
    Callers,    \* goroutines in ValidateFrpServerConfig
    Specs,      \* the configurations they are called with
    Secrets,    \* what the TLS secret holds, over time
    Names,      \* names in the directory for temporary files
    NoName      \* the field of the client configuration is empty

Kinds == {"cert", "key", "ca"}
Links == {"session", "conn"}

ASSUME ProbeAssumption ==
    /\ Specs \subseteq [tls : BOOLEAN, mux : BOOLEAN, ws : BOOLEAN, oidc : BOOLEAN,
                       proxy : BOOLEAN]
    /\ Specs # {} /\ Secrets # {}
    /\ \A s \in Secrets : s.has \subseteq Kinds
    /\ NoName \notin Names /\ Names \intersect (Links \cup {"connector"}) = {}

VARIABLES
    pc,         \* the call each caller makes next
    spec,       \* the FrpServer it was called with
    got,        \* the secret it has read
    config,     \* file names in its client configuration
    defers,     \* its deferred calls, the next to run first
    open,       \* its open connections
    answer,     \* what the frp server has said to its login
    nil,        \* its last call returned no error
    files,      \* the directory for temporary files
    left,       \* names in it that processes before this one have left
    secret,     \* the TLS secret
    silent      \* peers accept connections and say nothing

vars == <<pc, spec, got, config, defers, open, answer, nil, files, left, secret, silent>>
world == <<files, left, secret, silent>>

NoSpec == CHOOSE s \in Specs : TRUE
NoSecret == CHOOSE s \in Secrets : TRUE
NoFiles == [k \in Kinds |-> NoName]

Set(f, c, v) == [f EXCEPT ![c] = v]
Goto(c, l) == pc' = Set(pc, c, l)
Defer(c, d) == defers' = Set(defers, c, <<d>> \o defers[c])

(* return err                                                              *)
Fail(c) == Goto(c, "unwind") /\ nil' = Set(nil, c, FALSE)

-----------------------------------------------------------------------------
(* The client configuration is built from the object.                      *)
Start(c) ==
    /\ pc[c] = "idle"
    /\ \E s \in Specs :
          spec' = Set(spec, c, s) /\ Goto(c, IF s.tls THEN "secret" ELSE "config")
    /\ nil' = Set(nil, c, FALSE)
    /\ UNCHANGED <<got, config, defers, open, answer, world>>

(* Mutant: the error of the Get is dropped, the secret stays empty.        *)
GetSecretUnchecked(c) ==
    /\ pc[c] = "secret"
    /\ \/ got' = Set(got, c, secret)
       \/ got' = Set(got, c, [has |-> {}, version |-> 0])
    /\ Goto(c, "cert")
    /\ UNCHANGED <<spec, config, defers, open, answer, nil, world>>

GetSecret(c) ==
    /\ pc[c] = "secret"
    /\ \/ got' = Set(got, c, secret) /\ Goto(c, "cert") /\ UNCHANGED nil
       \/ Fail(c) /\ UNCHANGED got
    /\ UNCHANGED <<spec, config, defers, open, answer, world>>

(* os.CreateTemp opens a file that does not exist.                         *)
FreeName(n) == files[n] = {} /\ n \notin left

(* What the call puts into a file.                                         *)
File(c, k) == {[by |-> c, kind |-> k, data |-> got[c]]}

AfterFile(c, k) ==
    CASE k = "cert" -> "key"
      [] k = "key" -> IF "ca" \in got[c].has THEN "ca" ELSE "config"
      [] k = "ca" -> "config"

(* Mutant: the file is removed only by a call that has written it.         *)
WriteFileDeferLate(c, k) ==
    /\ pc[c] = k
    /\ \/ Fail(c) /\ UNCHANGED <<config, defers, files>>
       \/ \E n \in Names :
             /\ FreeName(n)
             /\ files' = Set(files, n, File(c, k))
             /\ \/ /\ k \in got[c].has
                   /\ Defer(c, n)
                   /\ config' = Set(config, c, Set(config[c], k, n))
                   /\ Goto(c, AfterFile(c, k)) /\ UNCHANGED nil
                \/ Fail(c) /\ UNCHANGED <<config, defers>>
    /\ UNCHANGED <<spec, got, open, answer, left, secret, silent>>

(* Mutant: the secret is fetched again for every file.                     *)
WriteFileRefetch(c, k) ==
    /\ pc[c] = k
    /\ got' = Set(got, c, secret)
    /\ \/ Fail(c) /\ UNCHANGED <<config, defers, files>>
       \/ \E n \in Names :
             /\ FreeName(n)
             /\ files' = Set(files, n, {[by |-> c, kind |-> k, data |-> secret]})
             /\ Defer(c, n)
             /\ \/ /\ k \in secret.has
                   /\ config' = Set(config, c, Set(config[c], k, n))
                   /\ Goto(c, AfterFile(c, k)) /\ UNCHANGED nil
                \/ Fail(c) /\ UNCHANGED config
    /\ UNCHANGED <<spec, open, answer, left, secret, silent>>

(* A temporary file, its removal deferred, filled from the secret.         *)
WriteFile(c, k) ==
    /\ pc[c] = k
    /\ \/ Fail(c) /\ UNCHANGED <<config, defers, files>>
       \/ \E n \in Names :
             /\ FreeName(n)
             /\ files' = Set(files, n, File(c, k))
             /\ Defer(c, n)
             /\ \/ /\ k \in got[c].has
                   /\ config' = Set(config, c, Set(config[c], k, n))
                   /\ Goto(c, AfterFile(c, k)) /\ UNCHANGED nil
                \/ Fail(c) /\ UNCHANGED config
    /\ UNCHANGED <<spec, got, open, answer, left, secret, silent>>

(* Complete, ValidateClientCommonConfig and NewConnector.                  *)
Configure(c) ==
    /\ pc[c] = "config"
    /\ \/ Defer(c, "connector") /\ Goto(c, "open") /\ UNCHANGED nil
       \/ Fail(c) /\ UNCHANGED defers
    /\ UNCHANGED <<spec, got, config, open, answer, world>>

(* The connector reads the files again when it dials.                      *)
Readable(c) == \A k \in Kinds : config[c][k] # NoName => files[config[c][k]] # {}

(* The hooks that run on a dialled connection wait for the peer: the       *)
(* request to a proxy (of proxyURL, or of http_proxy where that is empty)  *)
(* to connect to the server, and the websocket handshake.                  *)
Shakes(s) == s.proxy \/ s.ws

(* A dial ends with dialServerTimeout, its hooks have no time limit.       *)
Dial(c, ok) == ~(Shakes(spec[c]) /\ silent) /\ (ok => Readable(c))

(* With multiplexing the session is set up, without it nothing happens.    *)
Open(c) ==
    /\ pc[c] = "open"
    /\ \E ok \in BOOLEAN :
          /\ IF spec[c].mux THEN Dial(c, ok) ELSE ok
          /\ IF ok THEN Goto(c, "connect") /\ UNCHANGED nil ELSE Fail(c)
          /\ open' = IF ok /\ spec[c].mux THEN Set(open, c, {"session"}) ELSE open
    /\ UNCHANGED <<spec, got, config, defers, answer, world>>

(* A stream of the session, or a connection of its own.                    *)
Connect(c) ==
    /\ pc[c] = "connect"
    /\ \/ /\ spec[c].mux \/ Dial(c, TRUE)
          /\ open' = Set(open, c, open[c] \cup {"conn"})
          /\ Defer(c, "conn") /\ Goto(c, "login") /\ UNCHANGED nil
       \/ /\ spec[c].mux \/ Dial(c, FALSE)
          /\ Fail(c) /\ UNCHANGED <<open, defers>>
    /\ UNCHANGED <<spec, got, config, answer, world>>

(* Hostname, SetLogin and WriteMsg.  The token request of OIDC and the TLS *)
(* handshake of the first write have no time limit; a session has one.     *)
Login(c) ==
    /\ pc[c] = "login"
    /\ ~(silent /\ (spec[c].oidc \/ (spec[c].tls /\ ~spec[c].mux)))
    /\ \/ Goto(c, "read") /\ UNCHANGED nil
       \/ Fail(c)
    /\ UNCHANGED <<spec, got, config, defers, open, answer, world>>

(* The frp server answers the login.                                       *)
Answer(c) ==
    /\ pc[c] = "read" /\ answer[c] = "none" /\ ~silent
    /\ \E a \in {"welcome", "error"} : answer' = Set(answer, c, a)
    /\ UNCHANGED <<pc, spec, got, config, defers, open, nil, world>>

(* Mutant: no read deadline.                                               *)
ReadForever(c) ==
    /\ pc[c] = "read" /\ answer[c] # "none"
    /\ nil' = Set(nil, c, answer[c] = "welcome") /\ Goto(c, "unwind")
    /\ UNCHANGED <<spec, got, config, defers, open, answer, world>>

(* ReadMsgInto: the response, or an error by the deadline at the latest.   *)
Read(c) ==
    /\ pc[c] = "read"
    /\ \/ answer[c] = "welcome" /\ nil' = Set(nil, c, TRUE) /\ Goto(c, "unwind")
       \/ Fail(c)
    /\ UNCHANGED <<spec, got, config, defers, open, answer, world>>

(* The deferred calls, last first: close the connection, close the         *)
(* connector and with it the session, remove the files.                    *)
Unwind(c) ==
    /\ pc[c] = "unwind" /\ defers[c] # <<>>
    /\ defers' = Set(defers, c, Tail(defers[c]))
    /\ LET d == Head(defers[c])
       IN  /\ open' = Set(open, c, open[c] \ (IF d = "connector" THEN {"session"} ELSE {d}))
           /\ files' = IF d \in Names THEN Set(files, d, {}) ELSE files
           /\ left' = left \ {d}
    /\ UNCHANGED <<pc, spec, got, config, answer, nil, secret, silent>>

(* The local variables go out of scope.                                    *)
Return(c) ==
    /\ pc[c] = "unwind" /\ defers[c] = <<>>
    /\ Goto(c, "idle")
    /\ spec' = Set(spec, c, NoSpec) /\ got' = Set(got, c, NoSecret)
    /\ config' = Set(config, c, NoFiles) /\ answer' = Set(answer, c, "none")
    /\ UNCHANGED <<defers, open, nil, world>>

Step(c) ==
    \/ GetSecret(c) \/ (\E k \in Kinds : WriteFile(c, k)) \/ Configure(c)
    \/ Open(c) \/ Connect(c) \/ Login(c) \/ Read(c) \/ Unwind(c) \/ Return(c)

(* The secret is rotated, the peers stop and start answering.              *)
Environment ==
    /\ \/ secret' \in Secrets /\ UNCHANGED silent
       \/ silent' = ~silent /\ UNCHANGED secret
    /\ UNCHANGED <<pc, spec, got, config, defers, open, answer, nil, files, left>>

-----------------------------------------------------------------------------
Init ==
    /\ pc = [c \in Callers |-> "idle"]
    /\ spec = [c \in Callers |-> NoSpec] /\ got = [c \in Callers |-> NoSecret]
    /\ config = [c \in Callers |-> NoFiles]
    /\ defers = [c \in Callers |-> <<>>] /\ open = [c \in Callers |-> {}]
    /\ answer = [c \in Callers |-> "none"] /\ nil = [c \in Callers |-> FALSE]
    /\ files = [n \in Names |-> {}] /\ left = {}
    /\ secret = NoSecret /\ silent = FALSE

(* The process dies and the next one starts in the same directory.  Its    *)
(* connections close, but no deferred call runs: the files stay, and       *)
(* nobody knows of them.                                                   *)
Crash ==
    /\ pc' = [c \in Callers |-> "idle"]
    /\ spec' = [c \in Callers |-> NoSpec] /\ got' = [c \in Callers |-> NoSecret]
    /\ config' = [c \in Callers |-> NoFiles]
    /\ defers' = [c \in Callers |-> <<>>] /\ open' = [c \in Callers |-> {}]
    /\ answer' = [c \in Callers |-> "none"] /\ nil' = [c \in Callers |-> FALSE]
    /\ files' = [n \in Names |-> {}] /\ left' = left \cup {n \in Names : files[n] # {}}
    /\ UNCHANGED <<secret, silent>>

Next == (\E c \in Callers : Start(c) \/ Step(c) \/ Answer(c)) \/ Environment \/ Crash

Spec == Init /\ [][Next]_vars

(* Goroutines are scheduled, time limits pass, and who can go on time and  *)
(* again goes on; but nobody has to answer.                                *)
FairSpec == Spec /\ \A c \in Callers : SF_vars(Step(c))

-----------------------------------------------------------------------------
(* Properties.                                                             *)

(* Every variable has its type.                                            *)
TypeOK ==
    /\ pc \in [Callers -> Kinds \cup {"idle", "secret", "config", "open", "connect",
                                      "login", "read", "unwind"}]
    /\ spec \in [Callers -> Specs] /\ got \in [Callers -> Secrets]
    /\ config \in [Callers -> [Kinds -> Names \cup {NoName}]]
    /\ defers \in [Callers -> Seq(Names \cup {"connector", "conn"})]
    /\ open \in [Callers -> SUBSET Links]
    /\ answer \in [Callers -> {"none", "welcome", "error"}] /\ nil \in [Callers -> BOOLEAN]
    /\ files \in [Names -> SUBSET [by : Callers, kind : Kinds, data : Secrets]]
    /\ left \subseteq Names
    /\ secret \in Secrets /\ silent \in BOOLEAN

(* When the connector dials, each file its configuration names exists and  *)
(* holds what this call has read from the secret: no other call, returning *)
(* or failing meanwhile, has removed or replaced it, and certificate and   *)
(* key are of one version of the secret (validate.go:96-158, 177-186).     *)
FilesInPlace ==
    \A c \in Callers : pc[c] \in {"open", "connect"} /\ spec[c].tls =>
        \A k \in {"cert", "key"} \cup (got[c].has \intersect {"ca"}) :
            config[c][k] # NoName /\ files[config[c][k]] = File(c, k)

(* Whatever a call holds: its files and its open connections.              *)
Held(c) == open[c] \cup {n \in Names : \E f \in files[n] : f.by = c}

(* ValidateFrpServerConfig keeps the contract of module ProbeContract: nil *)
(* only after the server let this call in, files removed and connections   *)
(* closed on each of its eighteen ways out, and nothing left behind but by *)
(* a process that dies, whose files no later call touches                  *)
(* (validate.go:96-228).                                                   *)
Contract == INSTANCE ProbeContract WITH
    Resources <- Names \cup Links, Durable <- Names, litter <- left,
    call <- [c \in Callers |-> IF pc[c] = "idle" THEN "none"
                               ELSE IF answer[c] = "welcome" THEN "admitted" ELSE "busy"],
    held <- [c \in Callers |-> Held(c)],
    nil <- [c \in Callers |-> pc[c] = "idle" /\ nil[c]]

ImplementsContract == Contract!Spec

(* The waits without a limit of their own: the request to the proxy, the   *)
(* websocket handshake, the token request of OIDC and the TLS handshake of *)
(* a plain connection.                                                     *)
Hangs(c) ==
    /\ silent
    /\ \/ Shakes(spec[c]) /\ pc[c] = (IF spec[c].mux THEN "open" ELSE "connect")
       \/ pc[c] = "login" /\ (spec[c].oidc \/ (spec[c].tls /\ ~spec[c].mux))

(* Every call returns, also from servers that say nothing, unless it waits *)
(* in one of those four places for a peer that never speaks again; no     *)
(* other call is held up by one that does (validate.go:177-221).           *)
Returns == \A c \in Callers : pc[c] # "idle" ~> (pc[c] = "idle" \/ []Hangs(c))

=============================================================================
