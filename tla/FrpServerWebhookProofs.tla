----------------------- MODULE FrpServerWebhookProofs -----------------------
(***************************************************************************)
(* What admission establishes, for every set of specifications users may   *)
(* submit.  The invariant follows a request through its steps: after the   *)
(* mutating webhook it is Settled, after a validating webhook it is also   *)
(* Admitted, and every stored object is both.                              *)
(***************************************************************************)
EXTENDS FrpServerWebhook, TLAPS

\* The fields that have a default are filled.
Settled(s) ==
  /\ s \in SpecType
  /\ s.method # "" /\ s.protocol # ""
  /\ s.port # 0 /\ s.interval # 0 /\ s.timeout # 0
  /\ s.protocol = "quic" => s.quic = "set"

\* Both validators' rules hold, and so does what a probe that succeeded has
\* shown, whatever the environment it ran in.
Admitted(s) ==
  /\ CreateRules(s) /\ ValidPort(s.port) /\ s.protocol \in TransportProtocols
  /\ s.secret # "empty" /\ ProxyWorks(s)

IInv ==
  /\ TypeOK
  /\ step \in {"validate", "write"} => Settled(obj)
  /\ step = "write" => Admitted(obj)
  /\ stored # None => Settled(stored) /\ Admitted(stored)

\* The defaults of a settled specification's fields are the fields.
LEMMA Given ==
  ASSUME NEW s, Settled(s)
  PROVE  /\ EmptyOr(s.method, "", "token") = s.method
         /\ EmptyOr(s.protocol, "", "tcp") = s.protocol
         /\ EmptyOr(s.port, 0, DefaultPort) = s.port
         /\ EmptyOr(s.interval, 0, 30) = s.interval
         /\ EmptyOr(s.timeout, 0, 90) = s.timeout
<1>1. EmptyOr(s.method, "", "token") = s.method
  BY DEF EmptyOr, Settled
<1>2. EmptyOr(s.protocol, "", "tcp") = s.protocol
  BY DEF EmptyOr, Settled
<1>3. EmptyOr(s.port, 0, DefaultPort) = s.port
  BY DEF EmptyOr, Settled
<1>4. EmptyOr(s.interval, 0, 30) = s.interval
  BY DEF EmptyOr, Settled
<1>5. EmptyOr(s.timeout, 0, 90) = s.timeout
  BY DEF EmptyOr, Settled
<1> QED BY <1>1, <1>2, <1>3, <1>4, <1>5

\* Default fills every field that has a default, when it does not panic.
LEMMA DefaultSettles ==
  ASSUME NEW s \in SpecType, ~DefaultPanics(s)
  PROVE  Settled(Default(s))
<1>1. /\ EmptyOr(s.method, "", "token") \in (AuthMethods \union {"other"})
      /\ EmptyOr(s.protocol, "", "tcp") \in (TransportProtocols \union {"other"})
  BY DEF EmptyOr, SpecType, AuthMethods, TransportProtocols
<1>2. /\ EmptyOr(s.port, 0, DefaultPort) \in Int \ {0}
      /\ EmptyOr(s.interval, 0, 30) \in Int \ {0}
      /\ EmptyOr(s.timeout, 0, 90) \in Int \ {0}
  <2>1. s.port \in Int /\ s.interval \in Int /\ s.timeout \in Int
    BY DEF SpecType
  <2>2. DefaultPort \in Int \ {0}
    BY DEF DefaultPort
  <2> QED BY <2>1, <2>2 DEF EmptyOr
<1>3. s.quic \in {"nil", "zero", "set"} /\ s.secret \in {"nil", "empty", "half", "full"}
  BY DEF SpecType
<1>4. s.scopes \in Lists /\ s.token \in Texts /\ s.addr \in Texts /\ s.ips \in Lists
      /\ s.proxy \in Proxies
  BY DEF SpecType
<1>5. Default(s) \in SpecType
  <2> DEFINE m == EmptyOr(s.method, "", "token")
             p == EmptyOr(s.protocol, "", "tcp")
             q == IF s.protocol = "quic" THEN "set" ELSE s.quic
             port == EmptyOr(s.port, 0, DefaultPort)
             i == EmptyOr(s.interval, 0, 30)
             t == EmptyOr(s.timeout, 0, 90)
             sc == s.scopes
             tk == s.token
             ad == s.addr
             ip == s.ips
             se == s.secret
             px == s.proxy
  <2>1. q \in {"nil", "zero", "set"}
    BY <1>3
  <2>2. m \in AuthMethods \union {"", "other"} /\ p \in TransportProtocols \union {"", "other"}
    BY <1>1
  <2>3. port \in Int /\ i \in Int /\ t \in Int
    BY <1>2
  <2>4. se \in {"nil", "empty", "half", "full"}
    BY <1>3
  <2>5. sc \in Lists /\ tk \in Texts /\ ad \in Texts /\ ip \in Lists
        /\ px \in Proxies
    BY <1>4
  <2>6. Default(s) = [method |-> m, scopes |-> sc, token |-> tk, addr |-> ad, port |-> port,
                      ips |-> ip, interval |-> i, timeout |-> t, secret |-> se,
                      protocol |-> p, quic |-> q, proxy |-> px]
    BY DEF Default
  <2> HIDE DEF m, p, q, port, i, t, sc, tk, ad, ip, se, px
  <2>7. [method |-> m, scopes |-> sc, token |-> tk, addr |-> ad, port |-> port,
       ips |-> ip, interval |-> i, timeout |-> t, secret |-> se,
       protocol |-> p, quic |-> q, proxy |-> px] \in SpecType
    BY <2>1, <2>2, <2>3, <2>4, <2>5 DEF SpecType
  <2> QED
    BY <2>6, <2>7
<1>6. Default(s).method # "" /\ Default(s).protocol # ""
  BY <1>1 DEF Default, AuthMethods, TransportProtocols
<1>7. Default(s).port # 0 /\ Default(s).interval # 0 /\ Default(s).timeout # 0
  BY <1>2 DEF Default
<1>8. Default(s).protocol = "quic" => Default(s).quic = "set"
  BY DEF Default, EmptyOr
<1> QED BY <1>5, <1>6, <1>7, <1>8 DEF Settled

\* Default leaves a settled specification alone, without a panic.
LEMMA DefaultFixpoint ==
  ASSUME NEW s, Settled(s)
  PROVE  ~DefaultPanics(s) /\ Default(s) = s
<1>1. ~DefaultPanics(s)
  BY DEF Settled, DefaultPanics
<1>2. Default(s) =
        [method |-> s.method, scopes |-> s.scopes, token |-> s.token,
         addr |-> s.addr, port |-> s.port, ips |-> s.ips,
         interval |-> s.interval, timeout |-> s.timeout, secret |-> s.secret,
         protocol |-> s.protocol, quic |-> s.quic, proxy |-> s.proxy]
  BY Given DEF Settled, Default
<1>3. Default(s) = s
  BY <1>2 DEF Settled, SpecType
<1> QED BY <1>1, <1>3

\* Past Default the two validators ask for the same: where a port is not 0,
\* what the probe adds makes up for the bound ValidateUpdate leaves out.
LEMMA SameRules ==
  ASSUME NEW s, Settled(s), MaySucceed(s), CreateRules(s) \/ UpdateRules(s)
  PROVE  Admitted(s)
<1>1. s.port \in Int
  BY DEF Settled, SpecType
<1>2. /\ Complete(s, env).port = s.port /\ Complete(s, env).protocol = s.protocol
      /\ Complete(s, env).proxy = EmptyOr(s.proxy, "", env)
  BY Given DEF Settled, Complete
<1>3. ValidPort(s.port)
  BY <1>2 DEF MaySucceed
<1>4. s.protocol \in TransportProtocols
  BY <1>2 DEF MaySucceed, ClientConfigValid
<1>5. ProxyWorks(s)
  <2>1. CASE s.proxy = ""
    BY <2>1 DEF ProxyWorks
  <2>2. CASE s.proxy # ""
    <3>1. EmptyOr(s.proxy, "", env) = s.proxy
      BY <2>2 DEF EmptyOr
    <3> QED BY <1>2, <3>1 DEF MaySucceed, ProxyWorks
  <2> QED BY <2>1, <2>2
<1> QED
  BY <1>1, <1>3, <1>4, <1>5 DEF CreateRules, UpdateRules, ValidatePort, ValidPort, Admitted,
       MaySucceed

\* The frp client's defaults leave a settled specification with an address
\* alone, but for an empty proxy.
LEMMA CompleteFixpoint ==
  ASSUME NEW s, Settled(s), s.addr # "", NEW e
  PROVE  Complete(s, e) = [s EXCEPT !.proxy = EmptyOr(s.proxy, "", e)]
<1> DEFINE p == EmptyOr(s.proxy, "", e)
<1>1. s.addr = "given"
  BY DEF Settled, SpecType, Texts
<1>2. Complete(s, e) =
        [method |-> s.method, scopes |-> s.scopes, token |-> s.token,
         addr |-> s.addr, port |-> s.port, ips |-> s.ips,
         interval |-> s.interval, timeout |-> s.timeout, secret |-> s.secret,
         protocol |-> s.protocol, quic |-> s.quic, proxy |-> p]
  BY <1>1, Given DEF Settled, Complete
<1> HIDE DEF p
<1>3. [s EXCEPT !.proxy = p] =
        [method |-> s.method, scopes |-> s.scopes, token |-> s.token,
         addr |-> s.addr, port |-> s.port, ips |-> s.ips,
         interval |-> s.interval, timeout |-> s.timeout, secret |-> s.secret,
         protocol |-> s.protocol, quic |-> s.quic, proxy |-> p]
  <2> DEFINE m == s.method
             sc == s.scopes
             tk == s.token
             ad == s.addr
             po == s.port
             ip == s.ips
             i == s.interval
             t == s.timeout
             se == s.secret
             pr == s.protocol
             q == s.quic
             r(x) == [method |-> m, scopes |-> sc, token |-> tk, addr |-> ad, port |-> po,
                      ips |-> ip, interval |-> i, timeout |-> t, secret |-> se,
                      protocol |-> pr, quic |-> q, proxy |-> x]
  <2>1. s = r(s.proxy)
    BY DEF Settled, SpecType
  <2> HIDE DEF m, sc, tk, ad, po, ip, i, t, se, pr, q
  <2>2. [s EXCEPT !.proxy = p] = r(p)
    <3>1. ASSUME NEW x, NEW y PROVE [r(x) EXCEPT !.proxy = y] = r(y)
      BY ONLY SMT
    <3> HIDE DEF r
    <3> QED BY <2>1, <3>1
  <2> QED BY <2>2 DEF m, sc, tk, ad, po, ip, i, t, se, pr, q
<1> QED BY <1>2, <1>3 DEF p

\* The invariant holds at the start and every step keeps it.
THEOREM Invariance == Spec => []IInv
<1>1. Init => IInv
  BY SpecAssumption DEF Init, IInv, TypeOK
<1>2. IInv /\ [Next]_vars => IInv'
  <2> SUFFICES ASSUME IInv, [Next]_vars PROVE IInv'
    OBVIOUS
  <2> USE SpecAssumption
  <2>0. ASSUME Drop PROVE IInv'
    BY <2>0 DEF Drop, IInv, TypeOK
  <2>1. ASSUME NEW o \in {"create", "update"}, NEW s \in Specs, Submit(o, s)
        PROVE  IInv'
    BY <2>1 DEF Submit, IInv, TypeOK
  <2>2. CASE Mutate
    <3>1. CASE DefaultPanics(obj)
      BY <2>2, <3>1 DEF Mutate, IInv, TypeOK
    <3>2. CASE ~DefaultPanics(obj)
      <4>1. obj \in SpecType /\ step' = "validate" /\ obj' = Default(obj)
            /\ UNCHANGED <<stored, op, env>>
        BY <2>2, <3>2 DEF Mutate, IInv, TypeOK
      <4>2. Settled(obj')
        BY <4>1, <3>2, DefaultSettles
      <4> QED BY <4>1, <4>2 DEF IInv, TypeOK, Settled
    <3> QED BY <3>1, <3>2
  <2>3. CASE Recover
    BY <2>3, <2>0 DEF Recover
  <2>4. CASE ValidateCreate
    <3>1. CASE CreateRules(obj) /\ MaySucceed(obj)
               /\ step' = "write" /\ UNCHANGED <<stored, op, obj, env>>
      <4>1. Settled(obj)
        BY <2>4 DEF ValidateCreate, IInv
      <4>2. Admitted(obj)
        BY <3>1, <4>1, SameRules
      <4> QED BY <2>4, <3>1, <4>1, <4>2 DEF IInv, TypeOK, ValidateCreate
    <3> QED BY <2>4, <2>0, <3>1 DEF ValidateCreate
  <2>5. CASE ValidateUpdate
    <3>1. CASE UpdateRules(obj) /\ MaySucceed(obj)
               /\ step' = "write" /\ UNCHANGED <<stored, op, obj, env>>
      <4>1. Settled(obj)
        BY <2>5 DEF ValidateUpdate, IInv
      <4>2. Admitted(obj)
        BY <3>1, <4>1, SameRules
      <4> QED BY <2>5, <3>1, <4>1, <4>2 DEF IInv, TypeOK, ValidateUpdate
    <3> QED BY <2>5, <2>0, <3>1 DEF ValidateUpdate
  <2>6. CASE Write
    <3>1. CASE op = "update" /\ stored = None
      BY <2>6, <3>1, <2>0 DEF Write
    <3>2. CASE ~(op = "update" /\ stored = None)
      BY <2>6, <3>2 DEF Write, IInv, TypeOK
    <3> QED BY <3>1, <3>2
  <2>7. CASE ValidateDelete
    BY <2>7 DEF ValidateDelete, IInv, TypeOK
  <2>8. CASE Restart
    BY <2>8 DEF Restart, IInv, TypeOK
  <2>9. CASE UNCHANGED vars
    BY <2>9 DEF vars, IInv, TypeOK
  <2> QED
    BY <2>1, <2>2, <2>3, <2>4, <2>5, <2>6, <2>7, <2>8, <2>9 DEF Next
<1> QED BY <1>1, <1>2, PTL DEF Spec

\* Type correctness.
THEOREM TypeCorrect == Spec => []TypeOK
<1>1. IInv => TypeOK
  BY DEF IInv
<1> QED BY <1>1, Invariance, PTL

\* Every stored object can be written back unchanged: it is a fixpoint of
\* Default, which does not panic on it, and meets the rules of ValidateUpdate.
THEOREM Updatable == Spec => []StoredIsUpdatable
<1>1. IInv => StoredIsUpdatable
  BY DefaultFixpoint DEF IInv, StoredIsUpdatable, Admitted, CreateRules, UpdateRules, ValidPort
<1> QED BY <1>1, Invariance, PTL

\* Every stored object is usable by an frp client, whichever validator
\* admitted it.
THEOREM Sound == Spec => []StoredIsSound
<1>1. ASSUME NEW s, Settled(s), Admitted(s)
      PROVE  s.secret \in {"nil", "full"}
  BY <1>1 DEF Settled, SpecType, Admitted, CreateRules, CommonRules, SecretRule
<1>2. IInv => StoredIsSound
  BY <1>1 DEF IInv, StoredIsSound, Admitted
<1> QED BY <1>2, Invariance, PTL

\* The configuration a client connects with is the stored one, but for an
\* empty proxy, which comes from the environment of its process.
THEOREM Probed == Spec => []StoredIsProbed
<1>1. IInv => StoredIsProbed
  <2> SUFFICES ASSUME IInv, stored # None, NEW e \in Proxies
               PROVE  Complete(stored, e)
                        = [stored EXCEPT !.proxy = EmptyOr(stored.proxy, "", e)]
    BY DEF StoredIsProbed
  <2>1. Settled(stored) /\ stored.addr # ""
    BY DEF IInv, Admitted, CreateRules, CommonRules
  <2> QED BY <2>1, CompleteFixpoint
<1> QED BY <1>1, Invariance, PTL
=============================================================================
