-------------------------- MODULE FrpServerWebhook --------------------------
(***************************************************************************)
(* Admission of FrpServer objects: FrpServerValidator in                   *)
(* pkg/controller/frpserver_validator.go.  A create or update request      *)
(* passes three steps that a deletion may come between: the mutating       *)
(* webhook (Default), the validating webhook (ValidateCreate or            *)
(* ValidateUpdate, which end in a probe of the server), and the API        *)
(* server's write.                                                         *)
(*                                                                         *)
(* A specification keeps the fields the rules look at.  A text that is     *)
(* only compared with "" is "" or "given", a list whose elements must all  *)
(* be known is "valid" or "invalid", and "other" is any method or protocol *)
(* the API does not name.  A secret reference is "nil", "empty" (no name   *)
(* in no namespace), "half" (one of the two) or "full"; the QUIC options   *)
(* are "nil" (no block), "zero" (a block with fields left out) or "set". A *)
(* proxy's URL is "", "usable", or "unusable": it does not parse, or has a *)
(* scheme that the frp client does not know.                               *)
(***************************************************************************)
EXTENDS Integers

CONSTANTS
  Specs,      \* the specifications users submit
  None        \* no specification

AuthMethods == {"token", "oidc"}

TransportProtocols == {"tcp", "kcp", "quic", "websocket", "wss"}

Texts == {"", "given"}

Lists == {"valid", "invalid"}

Proxies == {"", "usable", "unusable"}

SpecType ==
  [method : AuthMethods \union {"", "other"}, scopes : Lists,
   token : Texts, addr : Texts, port : Int, ips : Lists,
   interval : Int, timeout : Int, secret : {"nil", "empty", "half", "full"},
   protocol : TransportProtocols \union {"", "other"},
   quic : {"nil", "zero", "set"}, proxy : Proxies]

ASSUME SpecAssumption == Specs \subseteq SpecType /\ None \notin SpecType

VARIABLES
  stored,     \* the specification of the object in the API server, or None
  op,         \* "create" or "update": what the request in flight asks for
  obj,        \* its specification, or None when there is no request
  step,       \* "idle", "mutate", "validate", "write", or "panic"
  env         \* http_proxy in the environment of the process

vars == <<stored, op, obj, step, env>>

-----------------------------------------------------------------------------
(***************************************************************************)
(* Defaults                                                                *)
(***************************************************************************)

DefaultPort == 7000

EmptyOr(value, zero, fallback) == IF value = zero THEN fallback ELSE value

\* Default dereferences the QUIC block of every specification whose protocol
\* is quic, given or not.
DefaultPanics(s) == s.protocol = "quic" /\ s.quic = "nil"

\* Mutant: the method has no default.
DefaultNoMethod(s) ==
  [s EXCEPT !.port = EmptyOr(@, 0, DefaultPort),
            !.protocol = EmptyOr(@, "", "tcp"),
            !.interval = EmptyOr(@, 0, 30),
            !.timeout = EmptyOr(@, 0, 90),
            !.quic = IF s.protocol = "quic" THEN "set" ELSE @]

\* Mutant: the port has no default.
DefaultNoPort(s) ==
  [s EXCEPT !.method = EmptyOr(@, "", "token"),
            !.protocol = EmptyOr(@, "", "tcp"),
            !.interval = EmptyOr(@, 0, 30),
            !.timeout = EmptyOr(@, 0, 90),
            !.quic = IF s.protocol = "quic" THEN "set" ELSE @]

\* Mutant: the heartbeat timeout has no default.
DefaultNoTimeout(s) ==
  [s EXCEPT !.method = EmptyOr(@, "", "token"),
            !.port = EmptyOr(@, 0, DefaultPort),
            !.protocol = EmptyOr(@, "", "tcp"),
            !.interval = EmptyOr(@, 0, 30),
            !.quic = IF s.protocol = "quic" THEN "set" ELSE @]

\* The fields no rule looks at have defaults too; they are left out.
Default(s) ==
  [method |-> EmptyOr(s.method, "", "token"),
   scopes |-> s.scopes,
   token |-> s.token,
   addr |-> s.addr,
   port |-> EmptyOr(s.port, 0, DefaultPort),
   ips |-> s.ips,
   interval |-> EmptyOr(s.interval, 0, 30),
   timeout |-> EmptyOr(s.timeout, 0, 90),
   secret |-> s.secret,
   protocol |-> EmptyOr(s.protocol, "", "tcp"),
   quic |-> IF s.protocol = "quic" THEN "set" ELSE s.quic,
   proxy |-> s.proxy]

\* The defaults the frp client library gives its own configuration, in a
\* process whose http_proxy is e.  Its QUIC defaults are of no effect under
\* another protocol and left out there.
Complete(s, e) ==
  [method |-> EmptyOr(s.method, "", "token"),
   scopes |-> s.scopes,
   token |-> s.token,
   addr |-> "given",
   port |-> EmptyOr(s.port, 0, DefaultPort),
   ips |-> s.ips,
   interval |-> EmptyOr(s.interval, 0, 30),
   timeout |-> EmptyOr(s.timeout, 0, 90),
   secret |-> s.secret,
   protocol |-> EmptyOr(s.protocol, "", "tcp"),
   quic |-> IF s.protocol = "quic" THEN "set" ELSE s.quic,
   proxy |-> EmptyOr(s.proxy, "", e)]

-----------------------------------------------------------------------------
(***************************************************************************)
(* Rules                                                                   *)
(***************************************************************************)

ValidatePort(port) == 0 <= port /\ port <= 65535

HeartbeatRule(s) ==
  s.timeout > 0 /\ s.interval > 0 => s.timeout >= s.interval

\* The protocol is looked at only where there is a secret reference.
SecretRule(s) ==
  s.secret # "nil" => s.secret # "half" /\ s.protocol \in TransportProtocols

CommonRules(s) ==
  /\ s.method \in AuthMethods
  /\ s.scopes = "valid"
  /\ s.method = "token" => s.token # ""
  /\ s.addr # ""
  /\ s.ips = "valid"
  /\ HeartbeatRule(s)
  /\ SecretRule(s)

CreateRules(s) == CommonRules(s) /\ ValidatePort(s.port)

UpdateRules(s) == CommonRules(s) /\ s.port > 0

\* Mutant: the client library takes any protocol.
ClientConfigNoProtocol(c) ==
  c.method \in AuthMethods /\ c.scopes = "valid" /\ HeartbeatRule(c)

\* What the frp client library asks of a completed configuration.
ClientConfigValid(c) ==
  /\ c.method \in AuthMethods
  /\ c.scopes = "valid"
  /\ HeartbeatRule(c)
  /\ c.protocol \in TransportProtocols

\* A port a server can answer at.
ValidPort(port) == 0 < port /\ port <= 65535

\* The connector can use the proxy; for quic it does not look at it.
ProxyWorks(c) == c.protocol = "quic" \/ c.proxy # "unusable"

\* ValidateFrpServerConfig may succeed: its secret can exist, the client
\* accepts the completed configuration, the dialler its proxy, and a server
\* can answer at the port.  Whether it does succeed is up to the server and
\* the network.
MaySucceed(s) ==
  /\ s.secret # "empty"
  /\ ClientConfigValid(Complete(s, env))
  /\ ProxyWorks(Complete(s, env))
  /\ ValidPort(Complete(s, env).port)

-----------------------------------------------------------------------------
Init ==
  /\ stored = None /\ op = "create" /\ obj = None /\ step = "idle"
  /\ env \in Proxies

\* The request ends without a write: refused, failed, or overtaken.
Drop == step' = "idle" /\ obj' = None /\ UNCHANGED <<stored, op, env>>

Submit(o, s) ==
  /\ step = "idle"
  /\ (o = "update") = (stored # None)
  /\ op' = o /\ obj' = s /\ step' = "mutate"
  /\ UNCHANGED <<stored, env>>

\* The mutating webhook.
Mutate ==
  /\ step = "mutate"
  /\ IF DefaultPanics(obj)
       THEN step' = "panic" /\ UNCHANGED obj
       ELSE step' = "validate" /\ obj' = Default(obj)
  /\ UNCHANGED <<stored, op, env>>

\* The HTTP server ends the connection of a handler that panicked; the failure
\* policy "fail" then refuses the request.
Recover == step = "panic" /\ Drop

ValidateCreate ==
  /\ step = "validate" /\ op = "create"
  /\ \/ Drop
     \/ CreateRules(obj) /\ MaySucceed(obj)
        /\ step' = "write" /\ UNCHANGED <<stored, op, obj, env>>

ValidateUpdate ==
  /\ step = "validate" /\ op = "update"
  /\ \/ Drop
     \/ UpdateRules(obj) /\ MaySucceed(obj)
        /\ step' = "write" /\ UNCHANGED <<stored, op, obj, env>>

\* The API server's write of an admitted request; an update whose object was
\* deleted meanwhile fails.
Write ==
  /\ step = "write"
  /\ IF op = "update" /\ stored = None
       THEN Drop
       ELSE stored' = obj /\ step' = "idle" /\ obj' = None /\ UNCHANGED <<op, env>>

\* A deletion passes ValidateDelete, which has no rule, at any moment.
ValidateDelete ==
  stored # None /\ stored' = None /\ UNCHANGED <<op, obj, step, env>>

\* The manager is started anew, in another environment perhaps.  A request in
\* one of its webhooks fails; one between two of its steps goes on.
Restart ==
  /\ env' \in Proxies
  /\ \/ UNCHANGED <<obj, step>>
     \/ step # "write" /\ step' = "idle" /\ obj' = None
  /\ UNCHANGED <<stored, op>>

Next ==
  \/ \E o \in {"create", "update"}, s \in Specs : Submit(o, s)
  \/ Mutate \/ Recover \/ ValidateCreate \/ ValidateUpdate
  \/ Write \/ ValidateDelete \/ Restart

Spec == Init /\ [][Next]_vars

-----------------------------------------------------------------------------
(***************************************************************************)
(* Properties                                                              *)
(***************************************************************************)

\* Types.  Past the mutating webhook a request has a method and a protocol.
TypeOK ==
  /\ stored \in SpecType \union {None}
  /\ op \in {"create", "update"} /\ env \in Proxies
  /\ step \in {"idle", "mutate", "validate", "write", "panic"}
  /\ step = "idle" => obj = None
  /\ step # "idle" => obj \in SpecType
  /\ step \in {"validate", "write"} =>
       obj.method # "" /\ obj.protocol # ""

\* A stored object can be written back unchanged (a label, an annotation or a
\* finalizer is edited that way): the defaults leave it alone without a
\* panic, and ValidateUpdate has no rule against it, although its rule on
\* ports differs from ValidateCreate's.
StoredIsUpdatable ==
  stored # None =>
    /\ ~DefaultPanics(stored)
    /\ Default(stored) = stored
    /\ UpdateRules(stored)

\* A stored object is one an frp client can use, whichever of the two
\* validators admitted it: a real port, a supported protocol with or without
\* TLS, a whole secret reference, a proxy the connector can use, and all the
\* rules of ValidateCreate.  No single layer checks all of this.
StoredIsSound ==
  stored # None =>
    /\ CreateRules(stored)
    /\ ValidPort(stored.port)
    /\ stored.protocol \in TransportProtocols
    /\ stored.secret \in {"nil", "full"}
    /\ ProxyWorks(stored)

\* What a stored object says is what every later client connects with, but
\* for one field: whatever the environment, the frp client's own defaults
\* change nothing in it but an empty proxy, which becomes the http_proxy of
\* the process ("By default, this value is read from the http_proxy
\* environment variable", pkg/api/v1beta1/frpserver_types.go:133).  An object
\* that names its proxy was probed as it is stored; one that does not may
\* have been probed through a proxy it does not mention.
StoredIsProbed ==
  stored # None =>
    \A e \in Proxies :
      Complete(stored, e) = [stored EXCEPT !.proxy = EmptyOr(stored.proxy, "", e)]

\* A specification that breaks no rule does not make the mutating webhook
\* panic: "quic" is a valid protocol, and no field of the API requires its
\* options to be given (pkg/api/v1beta1/frpserver_types.go).
NoPanic == step = "panic" => ~CreateRules(obj)
=============================================================================
