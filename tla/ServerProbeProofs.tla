-------------------------- MODULE ServerProbeProofs --------------------------
(***************************************************************************)
(* Proofs about ServerProbe, for any number of concurrent calls, names,    *)
(* configurations and versions of the secret: each call finds its own      *)
(* files when it dials, and the calls keep the contract of ProbeContract,  *)
(* over any number of crashes.                                             *)
(***************************************************************************)
EXTENDS ServerProbe, TLAPS

Stack == Seq(Names \cup {"connector", "conn"})
Labels == Kinds \cup {"idle", "secret", "config", "open", "connect", "login", "read", "unwind"}
FileSet == [by : Callers, kind : Kinds, data : Secrets]

(* A deferred removal is of a file of this call, and one removal of each.  *)
Owned(c) ==
    /\ \A i \in 1..Len(defers[c]) : defers[c][i] \in Names =>
          files[defers[c][i]] # {} /\ \A f \in files[defers[c][i]] : f.by = c
    /\ \A i, j \in 1..Len(defers[c]) : i # j /\ defers[c][i] \in Names =>
          defers[c][i] # defers[c][j]

(* What the call holds has its deferred release.                           *)
Covered(c) ==
    /\ \A n \in Names : \A f \in files[n] :
          f.by = c => \E i \in 1..Len(defers[c]) : defers[c][i] = n
    /\ "session" \in open[c] => \E i \in 1..Len(defers[c]) : defers[c][i] = "connector"
    /\ "conn" \in open[c] => \E i \in 1..Len(defers[c]) : defers[c][i] = "conn"

(* Until the deferred calls run, the files in the configuration are there. *)
Named(c) ==
    /\ pc[c] \in {"idle", "secret"} => config[c] = NoFiles
    /\ pc[c] # "unwind" =>
          \A k \in Kinds : config[c][k] # NoName => files[config[c][k]] = File(c, k)

(* How far the call has come.                                              *)
Progress(c) ==
    /\ pc[c] \in {"key", "ca", "config", "open", "connect"} /\ spec[c].tls =>
          config[c]["cert"] # NoName
    /\ pc[c] \in {"ca", "config", "open", "connect"} /\ spec[c].tls =>
          config[c]["key"] # NoName
    /\ pc[c] \in {"config", "open", "connect"} /\ spec[c].tls /\ "ca" \in got[c].has =>
          config[c]["ca"] # NoName
    /\ pc[c] = "open" => \E i \in 1..Len(defers[c]) : defers[c][i] = "connector"
    /\ pc[c] = "idle" => defers[c] = <<>>
    /\ answer[c] # "none" => pc[c] \in {"read", "unwind"}
    /\ nil[c] /\ pc[c] # "idle" => answer[c] = "welcome" /\ pc[c] = "unwind"

CInv(c) == Owned(c) /\ Covered(c) /\ Named(c) /\ Progress(c)

(* What dead processes have left is nobody's.                              *)
Abandoned == \A n \in left : files[n] = {}

IInv == TypeOK /\ Abandoned /\ \A c \in Callers : CInv(c)

(* What a step of c may do to the directory: nothing, add a file under a   *)
(* free name, or remove a file of its own.                                 *)
FilesStep(c) ==
    \/ files' = files
    \/ \E n \in Names, g \in FileSet :
          FreeName(n) /\ g.by = c /\ files' = [files EXCEPT ![n] = {g}]
    \/ \E n \in Names :
          (\A f \in files[n] : f.by = c) /\ files' = [files EXCEPT ![n] = {}]

(* A step of c leaves the state of every other call alone.                 *)
Apart(c) ==
    \A d \in Callers \ {c} :
        /\ pc'[d] = pc[d] /\ spec'[d] = spec[d] /\ got'[d] = got[d] /\ config'[d] = config[d]
        /\ defers'[d] = defers[d] /\ open'[d] = open[d] /\ answer'[d] = answer[d]
        /\ nil'[d] = nil[d]

-----------------------------------------------------------------------------
(* The stack of deferred calls after a defer statement.                    *)
LEMMA Push ==
    ASSUME NEW S, NEW s \in Seq(S), NEW e \in S
    PROVE  /\ <<e>> \o s \in Seq(S) /\ Len(<<e>> \o s) = Len(s) + 1
           /\ (<<e>> \o s)[1] = e
           /\ \A i \in 1..Len(s) : (<<e>> \o s)[i + 1] = s[i]
           /\ \A j \in 1..(Len(s) + 1) : j # 1 => j - 1 \in 1..Len(s) /\ (<<e>> \o s)[j] = s[j - 1]
<1>1. Len(s) \in Nat /\ <<e>> \in Seq(S) /\ Len(<<e>>) = 1
  OBVIOUS
<1>2. <<e>> \o s \in Seq(S) /\ Len(<<e>> \o s) = Len(s) + 1
  BY <1>1
<1>3. (<<e>> \o s)[1] = e
  BY <1>1
<1>4. \A j \in 1..(Len(s) + 1) : j # 1 => j - 1 \in 1..Len(s) /\ (<<e>> \o s)[j] = s[j - 1]
  BY <1>1
<1>5. \A i \in 1..Len(s) : (<<e>> \o s)[i + 1] = s[i]
  BY <1>1
<1> QED
  BY <1>2, <1>3, <1>4, <1>5

(* The same of the deferred calls.                                         *)
LEMMA PushDefer ==
    ASSUME NEW s \in Stack, NEW d \in Names \cup {"connector", "conn"}
    PROVE  /\ <<d>> \o s \in Stack /\ Len(<<d>> \o s) = Len(s) + 1 /\ (<<d>> \o s)[1] = d
           /\ \A i \in 1..Len(s) : (<<d>> \o s)[i + 1] = s[i]
           /\ \A j \in 1..(Len(s) + 1) : j # 1 => j - 1 \in 1..Len(s) /\ (<<d>> \o s)[j] = s[j - 1]
<1> DEFINE T == Names \cup {"connector", "conn"}
<1>1. s \in Seq(T) /\ d \in T /\ Stack = Seq(T)
  BY Zenon DEF Stack
<1> HIDE DEF T
<1> QED
  BY <1>1, Push

(* The stack after its first deferred call has run.                        *)
LEMMA Pop ==
    ASSUME NEW S, NEW s \in Seq(S), s # <<>>
    PROVE  /\ Tail(s) \in Seq(S) /\ Len(Tail(s)) = Len(s) - 1 /\ Len(s) \in Nat /\ Len(s) >= 1
           /\ Head(s) = s[1] /\ s[1] \in S
           /\ \A i \in 1..(Len(s) - 1) : Tail(s)[i] = s[i + 1]
  OBVIOUS

(* What the assumption on the constants says of specifications.            *)
LEMMA Defaults ==
    /\ NoSpec \in Specs /\ NoSecret \in Secrets
    /\ NoFiles \in [Kinds -> Names \cup {NoName}] /\ \A k \in Kinds : NoFiles[k] = NoName
<1>1. NoSpec \in Specs
  BY ProbeAssumption DEF NoSpec
<1>2. NoSecret \in Secrets
  BY ProbeAssumption DEF NoSecret
<1> QED
  BY <1>1, <1>2 DEF NoFiles

(* The invariant of a call survives the steps of the others.               *)
LEMMA OthersKeep ==
    ASSUME TypeOK, NEW c \in Callers, NEW d \in Callers \ {c}, CInv(d), Apart(c), FilesStep(c)
    PROVE  CInv(d)'
<1>1. /\ pc'[d] = pc[d] /\ spec'[d] = spec[d] /\ got'[d] = got[d] /\ config'[d] = config[d]
      /\ defers'[d] = defers[d] /\ open'[d] = open[d] /\ answer'[d] = answer[d]
      /\ nil'[d] = nil[d]
  BY DEF Apart
<1>2. files \in [Names -> SUBSET FileSet]
  BY DEF TypeOK, FileSet
<1>3. \A n \in Names : \A f : f.by = d => (f \in files'[n] <=> f \in files[n])
  BY <1>2 DEF FilesStep, FreeName
<1>4. ASSUME NEW n \in Names, NEW f \in files[n], f.by = d
      PROVE  files'[n] = files[n]
  BY <1>2, <1>4 DEF FilesStep, FreeName
<1>5. Owned(d)'
  <2>1. ASSUME NEW i \in 1..Len(defers[d]), defers[d][i] \in Names
        PROVE  files'[defers[d][i]] = files[defers[d][i]] /\ files[defers[d][i]] # {}
               /\ \A f \in files[defers[d][i]] : f.by = d
    BY <1>4, <2>1 DEF CInv, Owned
  <2> QED
    BY <1>1, <2>1 DEF CInv, Owned
<1>6. Covered(d)'
  BY <1>1, <1>3 DEF CInv, Covered
<1>7. Named(d)'
  <2>1. ASSUME pc[d] # "unwind", NEW k \in Kinds, config[d][k] # NoName
        PROVE  files'[config[d][k]] = files[config[d][k]]
    <3>1. config[d][k] \in Names
      BY <2>1 DEF TypeOK
    <3>2. files[config[d][k]] = {[by |-> d, kind |-> k, data |-> got[d]]}
      BY <2>1 DEF CInv, Named, File
    <3>3. [by |-> d, kind |-> k, data |-> got[d]].by = d
      OBVIOUS
    <3> QED
      BY Zenon, <1>4, <3>1, <3>2, <3>3
  <2> QED
    BY <1>1, <2>1 DEF CInv, Named, File
<1>8. Progress(d)'
  BY <1>1 DEF CInv, Progress
<1> QED
  BY <1>5, <1>6, <1>7, <1>8 DEF CInv

-----------------------------------------------------------------------------
(* What every step of c must show.                                         *)
Good(c) == TypeOK' /\ Apart(c) /\ FilesStep(c) /\ left' = left /\ CInv(c)'

(* Steps that only move the program counter, the answer and the result.    *)
LEMMA QuietStep ==
    ASSUME IInv, NEW c \in Callers, GetSecret(c) \/ Login(c) \/ Answer(c) \/ Read(c)
    PROVE  Good(c)
<1> USE DEF Set, Goto, Fail
<1>1. CInv(c) /\ TypeOK /\ UNCHANGED <<spec, config, defers, open, files, left>>
  BY DEF IInv, GetSecret, Login, Answer, Read, world
<1>2. TypeOK'
  <2>1. CASE GetSecret(c)
    <3>1. pc' \in [Callers -> Labels]
      BY Zenon, <1>1, <2>1 DEF TypeOK, GetSecret, Labels, Kinds
    <3>2. got' \in [Callers -> Secrets]
      BY <1>1, <2>1 DEF TypeOK, GetSecret
    <3>3. nil' \in [Callers -> BOOLEAN]
      BY Zenon, <1>1, <2>1 DEF TypeOK, GetSecret
    <3>4. UNCHANGED <<answer, secret, silent>>
      BY <2>1 DEF GetSecret, world
    <3> QED
      BY <1>1, <3>1, <3>2, <3>3, <3>4 DEF TypeOK, Labels
  <2>2. CASE Login(c)
    BY Zenon, <1>1, <2>2 DEF TypeOK, Login, world
  <2>3. CASE Answer(c)
    BY <1>1, <2>3 DEF TypeOK, Answer, world
  <2>4. CASE Read(c)
    BY Zenon, <1>1, <2>4 DEF TypeOK, Read, world
  <2> QED
    BY <2>1, <2>2, <2>3, <2>4
<1>3. Apart(c)
  <2>1. /\ \A d \in Callers \ {c} : pc'[d] = pc[d]
        /\ \A d \in Callers \ {c} : nil'[d] = nil[d]
    BY <1>1 DEF TypeOK, GetSecret, Login, Answer, Read
  <2>2. \A d \in Callers \ {c} : got'[d] = got[d]
    BY <1>1 DEF TypeOK, GetSecret, Login, Answer, Read
  <2>3. \A d \in Callers \ {c} : answer'[d] = answer[d]
    BY <1>1 DEF TypeOK, GetSecret, Login, Answer, Read
  <2> QED
    BY <1>1, <2>1, <2>2, <2>3 DEF Apart
<1>4. FilesStep(c) /\ Owned(c)' /\ Covered(c)'
  BY <1>1 DEF FilesStep, CInv, Owned, Covered
<1>5. Named(c)' /\ Progress(c)'
  <2>1. CASE GetSecret(c)
    <3>1. pc[c] = "secret" /\ config[c] = NoFiles /\ pc'[c] \in {"cert", "unwind"} /\ answer' = answer
          /\ nil'[c] = FALSE
      BY <1>1, <2>1 DEF GetSecret, CInv, Named, Progress, TypeOK
    <3> QED
      BY <1>1, <3>1, Defaults DEF CInv, Named, Progress
  <2>2. CASE Login(c)
    <3>1. pc[c] = "login" /\ pc'[c] \in {"read", "unwind"} /\ answer' = answer /\ got' = got
      BY <1>1, <2>2 DEF Login, TypeOK
    <3>2. nil'[c] = FALSE
      BY <1>1, <2>2 DEF Login, CInv, Progress, TypeOK
    <3>3. Named(c)'
      BY <1>1, <3>1 DEF CInv, Named, File
    <3>4. Progress(c)'
      BY <1>1, <3>1, <3>2 DEF CInv, Progress
    <3> QED
      BY <3>3, <3>4
  <2>3. CASE Answer(c)
    <3>1. pc[c] = "read" /\ pc' = pc /\ got' = got /\ nil' = nil
      BY <1>1, <2>3 DEF Answer
    <3> QED
      BY <1>1, <3>1 DEF CInv, Named, Progress, File
  <2>4. CASE Read(c)
    <3>1. pc[c] = "read" /\ pc'[c] = "unwind" /\ answer' = answer /\ got' = got
          /\ (nil'[c] => answer[c] = "welcome")
      BY <1>1, <2>4 DEF Read, TypeOK
    <3> QED
      BY <1>1, <3>1 DEF CInv, Named, Progress, File
  <2> QED
    BY <2>1, <2>2, <2>3, <2>4
<1> QED
  BY <1>1, <1>2, <1>3, <1>4, <1>5 DEF Good, CInv

(* The start of a call, and its return.                                    *)
LEMMA EdgeStep ==
    ASSUME IInv, NEW c \in Callers, Start(c) \/ Return(c)
    PROVE  Good(c)
<1> USE DEF Set, Goto
<1>1. CInv(c) /\ TypeOK /\ UNCHANGED <<defers, open, files, left, secret, silent>>
  BY DEF IInv, Start, Return, world
<1>2. TypeOK'
  <2>1. CASE Start(c)
    BY <1>1, <2>1 DEF TypeOK, Start
  <2>2. CASE Return(c)
    BY <1>1, <2>2, Defaults DEF TypeOK, Return
  <2> QED
    BY <2>1, <2>2
<1>3. Apart(c)
  BY <1>1 DEF TypeOK, Apart, Start, Return
<1>4. FilesStep(c) /\ Owned(c)' /\ Covered(c)'
  BY <1>1 DEF FilesStep, CInv, Owned, Covered
<1>5. Named(c)' /\ Progress(c)'
  <2>1. CASE Start(c)
    <3>1. /\ pc[c] = "idle" /\ config' = config /\ config[c] = NoFiles /\ answer' = answer
          /\ nil'[c] = FALSE
      BY <1>1, <2>1 DEF Start, TypeOK, CInv, Named
    <3>2. pc'[c] = "secret" \/ (pc'[c] = "config" /\ ~spec'[c].tls)
      BY <1>1, <2>1 DEF Start, TypeOK
    <3>3. \A k \in Kinds : config'[c][k] = NoName
      BY <3>1, Defaults
    <3> QED
      BY <1>1, <3>1, <3>2, <3>3 DEF CInv, Named, Progress
  <2>2. CASE Return(c)
    <3>1. /\ pc'[c] = "idle" /\ config'[c] = NoFiles /\ answer'[c] = "none" /\ defers[c] = <<>>
      BY <1>1, <2>2 DEF Return, TypeOK
    <3> QED
      BY <1>1, <3>1, Defaults DEF Named, Progress
  <2> QED
    BY <2>1, <2>2
<1> QED
  BY <1>1, <1>2, <1>3, <1>4, <1>5 DEF Good, CInv

(* A defer of something that is not a file.                                *)
LEMMA DeferLink ==
    ASSUME IInv, NEW c \in Callers, NEW d \in {"connector", "conn"}, Defer(c, d), files' = files,
           open'[c] \subseteq open[c] \cup (IF d = "conn" THEN {"conn"} ELSE {})
    PROVE  /\ defers' \in [Callers -> Stack] /\ Owned(c)' /\ Covered(c)'
           /\ \A e \in Callers \ {c} : defers'[e] = defers[e]
           /\ \E i \in 1..Len(defers'[c]) : defers'[c][i] = d
<1> DEFINE s == defers[c]
<1>0. d \in Names \cup {"connector", "conn"} /\ d \notin Names
  BY ProbeAssumption DEF Links
<1>1. s \in Stack /\ CInv(c) /\ defers \in [Callers -> Stack] /\ Len(s) \in Nat
  BY DEF IInv, TypeOK, Stack
<1>2. /\ <<d>> \o s \in Stack /\ Len(<<d>> \o s) = Len(s) + 1 /\ (<<d>> \o s)[1] = d
      /\ \A i \in 1..Len(s) : (<<d>> \o s)[i + 1] = s[i]
      /\ \A j \in 1..(Len(s) + 1) : j # 1 => j - 1 \in 1..Len(s) /\ (<<d>> \o s)[j] = s[j - 1]
  BY Zenon, <1>0, <1>1, PushDefer
<1>3. defers' \in [Callers -> Stack] /\ defers'[c] = <<d>> \o s /\ \A e \in Callers \ {c} : defers'[e] = defers[e]
  BY <1>1, <1>2 DEF Defer, Set
<1>4. ASSUME NEW x, \E i \in 1..Len(s) : s[i] = x
      PROVE  \E i \in 1..Len(defers'[c]) : defers'[c][i] = x
  <2>1. PICK i \in 1..Len(s) : s[i] = x
    BY <1>4
  <2>2. (<<d>> \o s)[i + 1] = x
    BY <1>2, <2>1
  <2>3. i + 1 \in 1..(Len(s) + 1)
    BY <1>1
  <2> QED
    BY <1>2, <1>3, <2>2, <2>3
<1>5. \E i \in 1..Len(defers'[c]) : defers'[c][i] = d
  <2>1. 1 \in 1..(Len(s) + 1)
    BY <1>1
  <2> QED
    BY <1>2, <1>3, <2>1
<1>6. Owned(c)'
  <2>1. ASSUME NEW i \in 1..Len(defers'[c]), defers'[c][i] \in Names
        PROVE  i - 1 \in 1..Len(s) /\ defers'[c][i] = s[i - 1]
    <3>1. i \in 1..(Len(s) + 1) /\ i # 1
      BY <1>0, <1>2, <1>3, <2>1
    <3> QED
      BY <1>2, <1>3, <3>1
  <2>2. ASSUME NEW i \in 1..Len(defers'[c]), NEW j \in 1..Len(defers'[c]),
               i # j, defers'[c][i] \in Names
        PROVE  defers'[c][i] # defers'[c][j]
    <3>1. CASE defers'[c][j] \in Names
      <4>1. i - 1 \in 1..Len(s) /\ j - 1 \in 1..Len(s)
            /\ defers'[c][i] = s[i - 1] /\ defers'[c][j] = s[j - 1]
        BY <2>1, <2>2, <3>1
      <4>2. i - 1 # j - 1
        BY <1>1, <1>2, <1>3, <2>2
      <4>3. s[i - 1] # s[j - 1]
        BY <1>1, <2>2, <4>1, <4>2 DEF CInv, Owned
      <4> QED
        BY <4>1, <4>3
    <3> QED
      BY <2>2, <3>1
  <2>3. ASSUME NEW i \in 1..Len(defers'[c]), defers'[c][i] \in Names
        PROVE  files'[defers'[c][i]] # {} /\ \A f \in files'[defers'[c][i]] : f.by = c
    <3>1. i - 1 \in 1..Len(s) /\ defers'[c][i] = s[i - 1] /\ s[i - 1] \in Names
      BY <2>1, <2>3
    <3>2. files[s[i - 1]] # {} /\ \A f \in files[s[i - 1]] : f.by = c
      BY <1>1, <3>1 DEF CInv, Owned
    <3> QED
      BY <1>1, <3>1, <3>2
  <2> QED
    BY <2>2, <2>3 DEF Owned
<1>7. Covered(c)'
  <2>1. \A n \in Names : \A f \in files'[n] : f.by = c => \E i \in 1..Len(defers'[c]) : defers'[c][i] = n
    BY Zenon, <1>1, <1>4 DEF CInv, Covered
  <2>2. "session" \in open'[c] => \E i \in 1..Len(defers'[c]) : defers'[c][i] = "connector"
    BY Zenon, <1>1, <1>4 DEF CInv, Covered
  <2>3. "conn" \in open'[c] => \E i \in 1..Len(defers'[c]) : defers'[c][i] = "conn"
    BY Zenon, <1>1, <1>4, <1>5 DEF CInv, Covered
  <2> QED
    BY <2>1, <2>2, <2>3 DEF Covered
<1> QED
  BY <1>3, <1>5, <1>6, <1>7

(* The connector: made, opened, connected.                                 *)
LEMMA ConnectorStep ==
    ASSUME IInv, NEW c \in Callers, Configure(c) \/ Open(c) \/ Connect(c)
    PROVE  Good(c)
<1> USE DEF Set, Goto, Fail
<1>1. CInv(c) /\ TypeOK /\ UNCHANGED <<spec, got, config, answer, files, left, secret, silent>>
  BY Zenon DEF IInv, Configure, Open, Connect, world
<1>2. /\ pc[c] \in {"config", "open", "connect"}
      /\ pc'[c] \in {"open", "connect", "login", "unwind"} /\ nil'[c] = FALSE
      /\ pc' \in [Callers -> Labels] /\ nil' \in [Callers -> BOOLEAN]
      /\ open' \in [Callers -> SUBSET Links]
      /\ \A d \in Callers \ {c} : pc'[d] = pc[d] /\ nil'[d] = nil[d] /\ open'[d] = open[d]
  <2>1. pc[c] \in {"config", "open", "connect"}
    BY Zenon DEF Configure, Open, Connect
  <2>2. nil[c] = FALSE
    BY <1>1, <2>1 DEF TypeOK, CInv, Progress
  <2>3. PICK l \in {"open", "connect", "login", "unwind"} : pc' = [pc EXCEPT ![c] = l]
    BY Zenon DEF Configure, Open, Connect
  <2>4. nil' = nil \/ nil' = [nil EXCEPT ![c] = FALSE]
    BY Zenon DEF Configure, Open, Connect
  <2>5. open' = open \/ \E o \in SUBSET Links : open' = [open EXCEPT ![c] = o]
    <3>1. CASE Configure(c)
      BY <3>1 DEF Configure
    <3>2. CASE Open(c)
      BY Zenon, <3>2 DEF Open, Links
    <3>3. CASE Connect(c)
      <4>1. open[c] \cup {"conn"} \in SUBSET Links
        BY <1>1 DEF TypeOK, Links
      <4> QED
        BY Zenon, <3>3, <4>1 DEF Connect
    <3> QED
      BY <3>1, <3>2, <3>3
  <2>6. pc' \in [Callers -> Labels] /\ pc'[c] = l /\ \A d \in Callers \ {c} : pc'[d] = pc[d]
    BY <1>1, <2>3 DEF TypeOK, Labels
  <2>7. nil' \in [Callers -> BOOLEAN] /\ nil'[c] = FALSE /\ \A d \in Callers \ {c} : nil'[d] = nil[d]
    BY Zenon, <1>1, <2>2, <2>4 DEF TypeOK
  <2>8. open' \in [Callers -> SUBSET Links] /\ \A d \in Callers \ {c} : open'[d] = open[d]
    <3>1. open \in [Callers -> SUBSET Links]
      BY <1>1 DEF TypeOK
    <3>2. CASE open' = open
      BY <3>1, <3>2
    <3>3. ASSUME NEW o \in SUBSET Links, open' = [open EXCEPT ![c] = o]
          PROVE  <2>8
      BY <3>1, <3>3
    <3> QED
      BY <2>5, <3>2, <3>3
  <2> QED
    BY <2>1, <2>6, <2>7, <2>8
<1>3. /\ defers' \in [Callers -> Stack] /\ Owned(c)' /\ Covered(c)'
      /\ \A e \in Callers \ {c} : defers'[e] = defers[e]
  <2>1. ASSUME defers' = defers, open'[c] = open[c]
        PROVE  <1>3
    <3>1. Owned(c)'
      BY <1>1, <2>1 DEF CInv, Owned
    <3>2. Covered(c)'
      BY <1>1, <2>1 DEF CInv, Covered
    <3> QED
      BY <1>1, <2>1, <3>1, <3>2 DEF TypeOK, Stack
  <2>2. CASE Configure(c)
    BY <1>1, <2>1, <2>2, DeferLink DEF Configure
  <2>3. CASE Open(c)
    <3>1. CASE ~spec[c].mux \/ open' = open
      BY <1>1, <2>1, <2>3, <3>1 DEF Open
    <3>2. CASE spec[c].mux /\ open' = [open EXCEPT ![c] = {"session"}]
      <4>1. \E i \in 1..Len(defers[c]) : defers[c][i] = "connector"
        BY <1>1, <2>3 DEF Open, CInv, Progress
      <4>2. defers' = defers /\ open'[c] = {"session"}
        BY <1>1, <2>3, <3>2 DEF Open, TypeOK
      <4>3. Owned(c)'
        BY <1>1, <4>2 DEF CInv, Owned
      <4>4. Covered(c)'
        BY <1>1, <4>1, <4>2 DEF CInv, Covered
      <4> QED
        BY <1>1, <4>2, <4>3, <4>4 DEF TypeOK, Stack
    <3> QED
      BY <2>3, <3>1, <3>2 DEF Open
  <2>4. CASE Connect(c)
    <3>1. CASE Defer(c, "conn")
      <4>1. open'[c] \subseteq open[c] \cup {"conn"}
        BY Zenon, <1>1, <2>4 DEF Connect, TypeOK
      <4> HIDE DEF Set, Goto, Fail
      <4> QED
        BY <1>1, <3>1, <4>1, DeferLink
    <3>2. CASE defers' = defers /\ open' = open
      BY <2>1, <3>2
    <3> QED
      BY Zenon, <2>4, <3>1, <3>2 DEF Connect
  <2> QED
    BY <2>2, <2>3, <2>4
<1>4. TypeOK'
  BY <1>1, <1>2, <1>3 DEF TypeOK, Labels, Stack
<1>5. Apart(c)
  BY <1>1, <1>2, <1>3 DEF Apart
<1>6. Named(c)'
  BY <1>1, <1>2 DEF CInv, Named, File
<1>7. Progress(c)'
  <2>1. pc'[c] = "open" => \E i \in 1..Len(defers'[c]) : defers'[c][i] = "connector"
    <3>1. CASE Defer(c, "connector") /\ Configure(c)
      BY <1>1, <3>1, DeferLink DEF Configure
    <3>2. CASE ~Defer(c, "connector") \/ ~Configure(c)
      BY <1>1, <1>2, <3>2 DEF Configure, Open, Connect, TypeOK
    <3> QED
      BY <3>1, <3>2
  <2>2. answer'[c] = "none"
    BY <1>1, <1>2 DEF CInv, Progress
  <2> QED
    BY Zenon, <1>1, <1>2, <2>1, <2>2 DEF CInv, Progress
<1> QED
  BY <1>1, <1>3, <1>4, <1>5, <1>6, <1>7 DEF Good, CInv, FilesStep

(* A temporary file.                                                       *)
LEMMA FileStep ==
    ASSUME IInv, NEW c \in Callers, NEW k \in Kinds, WriteFile(c, k)
    PROVE  Good(c)
<1>1. /\ CInv(c) /\ TypeOK /\ UNCHANGED <<spec, got, open, answer, left, secret, silent>>
      /\ pc[c] = k /\ got[c] \in Secrets
  BY DEF IInv, WriteFile, TypeOK
<1>2. answer[c] = "none" /\ nil[c] = FALSE
  BY <1>1 DEF CInv, Progress, TypeOK, Kinds
<1>3. CASE Fail(c) /\ UNCHANGED <<config, defers, files>>
  <2>1. /\ pc'[c] = "unwind" /\ nil'[c] = FALSE /\ pc' \in [Callers -> Labels]
        /\ nil' \in [Callers -> BOOLEAN]
        /\ \A d \in Callers \ {c} : pc'[d] = pc[d] /\ nil'[d] = nil[d]
    BY <1>1, <1>3 DEF Fail, Goto, Set, TypeOK, Labels
  <2>2. TypeOK' /\ Apart(c) /\ FilesStep(c)
    BY <1>1, <1>3, <2>1 DEF TypeOK, Labels, Apart, FilesStep
  <2>3. Owned(c)'
    BY <1>1, <1>3 DEF CInv, Owned
  <2>4. Covered(c)'
    BY <1>1, <1>3 DEF CInv, Covered
  <2>5. Named(c)' /\ Progress(c)'
    BY <1>1, <1>2, <2>1 DEF Named, Progress
  <2> QED
    BY <1>1, <2>2, <2>3, <2>4, <2>5 DEF Good, CInv
<1>4. ASSUME NEW n \in Names, FreeName(n), files' = Set(files, n, File(c, k)), Defer(c, n),
             \/ /\ k \in got[c].has
                /\ config' = Set(config, c, Set(config[c], k, n))
                /\ Goto(c, AfterFile(c, k)) /\ UNCHANGED nil
             \/ Fail(c) /\ UNCHANGED config
      PROVE  Good(c)
  <2> DEFINE s == defers[c]
             g == [by |-> c, kind |-> k, data |-> got[c]]
  <2>1. /\ s \in Stack /\ n \in Names \cup {"connector", "conn"} /\ Len(s) \in Nat
        /\ defers \in [Callers -> Stack] /\ files \in [Names -> SUBSET FileSet]
        /\ files[n] = {} /\ g \in FileSet /\ g.by = c
    BY <1>1, <1>4 DEF TypeOK, Stack, FileSet, FreeName
  <2>2. /\ <<n>> \o s \in Stack /\ Len(<<n>> \o s) = Len(s) + 1 /\ (<<n>> \o s)[1] = n
        /\ \A i \in 1..Len(s) : (<<n>> \o s)[i + 1] = s[i]
        /\ \A j \in 1..(Len(s) + 1) : j # 1 => j - 1 \in 1..Len(s) /\ (<<n>> \o s)[j] = s[j - 1]
    <3>1. s \in Stack /\ n \in Names \cup {"connector", "conn"}
      BY Zenon, <2>1
    <3> HIDE DEF s
    <3> QED
      BY Zenon, <3>1, PushDefer
  <2>3. /\ defers' \in [Callers -> Stack] /\ defers'[c] = <<n>> \o s
        /\ \A d \in Callers \ {c} : defers'[d] = defers[d]
    BY <1>4, <2>1, <2>2 DEF Defer, Set
  <2>4. /\ files' = [files EXCEPT ![n] = {g}] /\ files' \in [Names -> SUBSET FileSet]
        /\ files'[n] = {g} /\ \A m \in Names \ {n} : files'[m] = files[m]
    BY <1>4, <2>1 DEF Set, File
  <2>5. AfterFile(c, k) \in {"key", "ca", "config"}
    BY DEF AfterFile, Kinds
  <2>6. /\ pc' \in [Callers -> Labels] /\ nil' \in [Callers -> BOOLEAN] /\ nil'[c] = FALSE
        /\ pc'[c] \in {AfterFile(c, k), "unwind"}
        /\ \A d \in Callers \ {c} : pc'[d] = pc[d] /\ nil'[d] = nil[d]
    <3>1. /\ pc \in [Callers -> Labels] /\ nil \in [Callers -> BOOLEAN]
          /\ AfterFile(c, k) \in Labels /\ "unwind" \in Labels
      <4>1. pc \in [Callers -> Labels] /\ nil \in [Callers -> BOOLEAN]
        BY Zenon, <1>1 DEF TypeOK, Labels
      <4>2. {"key", "ca", "config", "unwind"} \subseteq Labels
        BY DEF Labels, Kinds
      <4> QED
        BY Zenon, <2>5, <4>1, <4>2
    <3>2. ASSUME NEW l \in {AfterFile(c, k), "unwind"}, Goto(c, l)
          PROVE  /\ pc' \in [Callers -> Labels] /\ pc'[c] = l
                 /\ \A d \in Callers \ {c} : pc'[d] = pc[d]
      BY <3>1, <3>2 DEF Goto, Set
    <3>3. CASE Goto(c, AfterFile(c, k)) /\ UNCHANGED nil
      BY <1>2, <3>1, <3>2, <3>3
    <3>4. CASE Fail(c)
      <4>1. Goto(c, "unwind") /\ nil' = [nil EXCEPT ![c] = FALSE]
        BY <3>4 DEF Fail, Set
      <4>2. /\ nil' \in [Callers -> BOOLEAN] /\ nil'[c] = FALSE
            /\ \A d \in Callers \ {c} : nil'[d] = nil[d]
        BY <3>1, <4>1
      <4> QED
        BY <3>2, <4>1, <4>2
    <3> QED
      BY <1>4, <3>3, <3>4
  <2>7. /\ config' \in [Callers -> [Kinds -> Names \cup {NoName}]]
        /\ \A d \in Callers \ {c} : config'[d] = config[d]
        /\ pc'[c] = "unwind" \/ config'[c] = [config[c] EXCEPT ![k] = n]
    <3>1. config[c] \in [Kinds -> Names \cup {NoName}] /\ [config[c] EXCEPT ![k] = n] \in [Kinds -> Names \cup {NoName}]
      BY <1>1 DEF TypeOK
    <3>2. CASE config' = [config EXCEPT ![c] = [config[c] EXCEPT ![k] = n]]
      BY <1>1, <3>1, <3>2 DEF TypeOK
    <3>3. CASE pc'[c] = "unwind" /\ config' = config
      BY <1>1, <3>3 DEF TypeOK
    <3>4. Fail(c) => pc'[c] = "unwind"
      BY <1>1 DEF Fail, Goto, Set, TypeOK
    <3> QED
      BY <1>4, <3>2, <3>3, <3>4 DEF Set
  <2>8. TypeOK'
    BY <1>1, <2>3, <2>4, <2>6, <2>7 DEF TypeOK, Labels, Stack, FileSet
  <2>9. Apart(c)
    BY <1>1, <2>3, <2>6, <2>7 DEF Apart
  <2>10. FilesStep(c)
    BY Zenon, <1>4, <2>1, <2>4 DEF FilesStep
  <2>11. Owned(c)'
    <3>1. ASSUME NEW i \in 1..Len(s), s[i] \in Names
          PROVE  s[i] # n
      BY <1>1, <2>1, <3>1 DEF CInv, Owned
    <3>2. ASSUME NEW j \in 1..(Len(s) + 1), (<<n>> \o s)[j] \in Names
          PROVE  /\ files'[(<<n>> \o s)[j]] # {}
                 /\ \A f \in files'[(<<n>> \o s)[j]] : f.by = c
      <4>1. CASE j = 1
        BY <2>1, <2>2, <2>4, <4>1
      <4>2. CASE j # 1
        <5>1. j - 1 \in 1..Len(s) /\ (<<n>> \o s)[j] = s[j - 1]
          BY <2>2, <4>2
        <5>2. s[j - 1] # n /\ s[j - 1] \in Names
          BY <3>1, <3>2, <5>1
        <5>3. files[s[j - 1]] # {} /\ \A f \in files[s[j - 1]] : f.by = c
          BY <1>1, <5>1, <5>2 DEF CInv, Owned
        <5>4. files'[s[j - 1]] = files[s[j - 1]]
          BY <2>4, <5>2
        <5> QED
          BY <5>1, <5>3, <5>4
      <4> QED
        BY <4>1, <4>2
    <3>3. ASSUME NEW i \in 1..(Len(s) + 1), NEW j \in 1..(Len(s) + 1), i # j,
                 (<<n>> \o s)[i] \in Names
          PROVE  (<<n>> \o s)[i] # (<<n>> \o s)[j]
      <4>1. CASE i = 1
        BY <2>2, <3>1, <3>3, <4>1
      <4>2. CASE j = 1
        BY <2>2, <3>1, <3>3, <4>2
      <4>3. CASE i # 1 /\ j # 1
        <5>1. /\ i - 1 \in 1..Len(s) /\ (<<n>> \o s)[i] = s[i - 1]
              /\ j - 1 \in 1..Len(s) /\ (<<n>> \o s)[j] = s[j - 1]
          BY <2>2, <4>3
        <5>2. i - 1 # j - 1
          BY <2>1, <3>3
        <5> QED
          BY <1>1, <3>3, <5>1, <5>2 DEF CInv, Owned
      <4> QED
        BY <4>1, <4>2, <4>3
    <3>4. Len(defers'[c]) = Len(s) + 1
      BY <2>2, <2>3
    <3>5. \A i \in 1..Len(defers'[c]) : defers'[c][i] \in Names =>
             files'[defers'[c][i]] # {} /\ \A f \in files'[defers'[c][i]] : f.by = c
      BY Zenon, <2>3, <3>2, <3>4
    <3>6. \A i, j \in 1..Len(defers'[c]) : i # j /\ defers'[c][i] \in Names =>
             defers'[c][i] # defers'[c][j]
      BY <2>3, <3>3, <3>4
    <3> QED
      BY <3>5, <3>6 DEF Owned
  <2>12. Covered(c)'
    <3>1. ASSUME NEW x, \E i \in 1..Len(s) : s[i] = x
          PROVE  \E i \in 1..Len(defers'[c]) : defers'[c][i] = x
      <4>1. PICK i \in 1..Len(s) : s[i] = x
        BY <3>1
      <4>2. i + 1 \in 1..(Len(s) + 1) /\ (<<n>> \o s)[i + 1] = x
        <5>1. \A m \in Nat : \A h \in 1..m : h + 1 \in 1..(m + 1)
          OBVIOUS
        <5> HIDE DEF s
        <5> QED
          BY Zenon, <2>1, <2>2, <4>1, <5>1
      <4> QED
        BY <2>2, <2>3, <4>2
    <3>2. \E i \in 1..Len(defers'[c]) : defers'[c][i] = n
      <4>1. 1 \in 1..(Len(s) + 1)
        BY <2>1
      <4> QED
        BY <2>2, <2>3, <4>1
    <3>3. ASSUME NEW m \in Names, NEW f \in files'[m], f.by = c
          PROVE  \E i \in 1..Len(defers'[c]) : defers'[c][i] = m
      <4>1. CASE m = n
        BY <3>2, <4>1
      <4>2. CASE m # n
        BY <1>1, <2>4, <3>1, <3>3, <4>2 DEF CInv, Covered
      <4> QED
        BY <4>1, <4>2
    <3> QED
      BY Zenon, <1>1, <3>1, <3>3 DEF CInv, Covered
  <2>13. Named(c)'
    <3>1. CASE pc'[c] = "unwind"
      BY <3>1 DEF Named
    <3>2. CASE pc'[c] # "unwind"
      <4>1. config[c] \in [Kinds -> Names \cup {NoName}] /\ config'[c] = [config[c] EXCEPT ![k] = n]
        BY <1>1, <2>7, <3>2 DEF TypeOK
      <4>2. pc'[c] \notin {"idle", "secret"}
        BY <2>5, <2>6
      <4>3. ASSUME NEW l \in Kinds, config'[c][l] # NoName
            PROVE  files'[config'[c][l]] = {[by |-> c, kind |-> l, data |-> got[c]]}
        <5>1. CASE l = k
          BY <2>4, <4>1, <5>1
        <5>2. CASE l # k
          <6>1. config'[c][l] = config[c][l] /\ config[c][l] \in Names
            BY <4>1, <4>3, <5>2
          <6>2. files[config[c][l]] = {[by |-> c, kind |-> l, data |-> got[c]]}
            BY <1>1, <4>3, <6>1 DEF CInv, Named, File, Kinds
          <6> QED
            BY Zenon, <2>1, <2>4, <6>1, <6>2
        <5> QED
          BY <5>1, <5>2
      <4> QED
        BY <1>1, <4>2, <4>3 DEF Named, File
    <3> QED
      BY <3>1, <3>2
  <2>14. Progress(c)'
    <3>1. CASE pc'[c] = "unwind"
      BY <1>1, <1>2, <2>6, <3>1 DEF Progress
    <3>2. CASE pc'[c] # "unwind"
      <4>1. /\ config[c] \in [Kinds -> Names \cup {NoName}]
            /\ config'[c] = [config[c] EXCEPT ![k] = n] /\ n # NoName
            /\ pc'[c] = AfterFile(c, k)
        BY <1>1, <2>6, <2>7, <3>2, ProbeAssumption DEF TypeOK
      <4>2. CASE k = "cert"
        BY <1>1, <1>2, <2>6, <4>1, <4>2 DEF CInv, Progress, AfterFile, Kinds
      <4>3. CASE k = "key"
        BY <1>1, <1>2, <2>6, <4>1, <4>3 DEF CInv, Progress, AfterFile, Kinds
      <4>4. CASE k = "ca"
        BY <1>1, <1>2, <2>6, <4>1, <4>4 DEF CInv, Progress, AfterFile, Kinds
      <4> QED
        BY <4>2, <4>3, <4>4 DEF Kinds
    <3> QED
      BY <3>1, <3>2
  <2> QED
    BY <1>1, <2>8, <2>9, <2>10, <2>11, <2>12, <2>13, <2>14 DEF Good, CInv
<1> QED
  BY <1>3, <1>4 DEF WriteFile

(* A deferred call.                                                        *)
LEMMA UnwindStep ==
    ASSUME IInv, NEW c \in Callers, Unwind(c)
    PROVE  Good(c)
<1> DEFINE s == defers[c]
           e == s[1]
<1>1. /\ CInv(c) /\ TypeOK /\ UNCHANGED <<pc, spec, got, config, answer, nil, secret, silent>>
      /\ pc[c] = "unwind" /\ s # <<>>
  BY Zenon DEF IInv, Unwind
<1>2. /\ s \in Stack /\ defers \in [Callers -> Stack] /\ files \in [Names -> SUBSET FileSet]
      /\ open \in [Callers -> SUBSET Links]
  BY <1>1 DEF TypeOK, Stack, FileSet
<1>3. /\ Tail(s) \in Stack /\ Len(Tail(s)) = Len(s) - 1 /\ Len(s) \in Nat /\ Len(s) >= 1
      /\ Head(s) = e /\ e \in Names \cup {"connector", "conn"}
      /\ \A i \in 1..(Len(s) - 1) : Tail(s)[i] = s[i + 1]
  BY <1>1, <1>2, Pop DEF Stack
<1>4. /\ defers' \in [Callers -> Stack] /\ defers'[c] = Tail(s)
      /\ \A d \in Callers \ {c} : defers'[d] = defers[d]
  BY <1>2, <1>3 DEF Unwind, Set
<1>5. /\ open' \in [Callers -> SUBSET Links]
      /\ open'[c] = open[c] \ (IF e = "connector" THEN {"session"} ELSE {e})
      /\ \A d \in Callers \ {c} : open'[d] = open[d]
  BY <1>2, <1>3 DEF Unwind, Set
<1>6. files' = IF e \in Names THEN [files EXCEPT ![e] = {}] ELSE files
  BY <1>3 DEF Unwind, Set
<1>7. files' \in [Names -> SUBSET FileSet] /\ \A n \in Names : n # e => files'[n] = files[n]
  BY <1>2, <1>6
<1>8. FilesStep(c) /\ left' = left
  <2>0. left' = left \ {e} /\ left \subseteq Names
    BY <1>1, <1>3 DEF Unwind, TypeOK
  <2>1. CASE e \in Names
    <3>1. 1 \in 1..Len(s)
      BY <1>3
    <3>2. files[e] # {} /\ \A f \in files[e] : f.by = c
      BY <1>1, <2>1, <3>1 DEF CInv, Owned
    <3>3. e \notin left
      BY <3>2 DEF IInv, Abandoned
    <3>4. FilesStep(c)
      BY Zenon, <1>6, <2>1, <3>2 DEF FilesStep
    <3> QED
      BY <2>0, <3>3, <3>4
  <2>2. CASE e \notin Names
    BY <1>6, <2>0, <2>2 DEF FilesStep
  <2> QED
    BY <2>1, <2>2
<1>9. TypeOK'
  BY <1>1, <1>4, <1>5, <1>7, <1>8 DEF TypeOK, Stack, FileSet
<1>10. Apart(c)
  BY Zenon, <1>1, <1>4, <1>5 DEF Apart
<1>11. Owned(c)'
  <2>1. ASSUME NEW i \in 1..(Len(s) - 1)
        PROVE  Tail(s)[i] = s[i + 1] /\ i + 1 \in 1..Len(s) /\ i + 1 # 1
    BY <1>3
  <2>2. 1 \in 1..Len(s)
    BY <1>3
  <2>3. ASSUME NEW i \in 1..(Len(s) - 1), Tail(s)[i] \in Names
        PROVE  files'[Tail(s)[i]] # {} /\ \A f \in files'[Tail(s)[i]] : f.by = c
    <3>1. Tail(s)[i] = s[i + 1] /\ i + 1 \in 1..Len(s) /\ s[i + 1] # s[1]
      BY <1>1, <2>1, <2>2, <2>3 DEF CInv, Owned
    <3>2. files[s[i + 1]] # {} /\ \A f \in files[s[i + 1]] : f.by = c
      BY Zenon, <1>1, <2>3, <3>1 DEF CInv, Owned
    <3> QED
      BY <1>7, <2>3, <3>1, <3>2
  <2>4. ASSUME NEW i \in 1..(Len(s) - 1), NEW j \in 1..(Len(s) - 1), i # j, Tail(s)[i] \in Names
        PROVE  Tail(s)[i] # Tail(s)[j]
    <3>1. /\ Tail(s)[i] = s[i + 1] /\ i + 1 \in 1..Len(s)
          /\ Tail(s)[j] = s[j + 1] /\ j + 1 \in 1..Len(s)
      BY <2>1
    <3>2. i + 1 # j + 1
      BY <1>3, <2>4
    <3> QED
      BY <1>1, <2>4, <3>1, <3>2 DEF CInv, Owned
  <2>5. defers'[c] = Tail(s) /\ Len(Tail(s)) = Len(s) - 1
    BY <1>3, <1>4
  <2>6. \A i \in 1..Len(defers'[c]) : defers'[c][i] \in Names =>
           files'[defers'[c][i]] # {} /\ \A f \in files'[defers'[c][i]] : f.by = c
    BY <2>3, <2>5
  <2>7. \A i, j \in 1..Len(defers'[c]) : i # j /\ defers'[c][i] \in Names =>
           defers'[c][i] # defers'[c][j]
    BY <2>4, <2>5
  <2> QED
    BY <2>6, <2>7 DEF Owned
<1>12. Covered(c)'
  <2>1. ASSUME NEW x, x # e, \E i \in 1..Len(s) : s[i] = x
        PROVE  \E i \in 1..Len(defers'[c]) : defers'[c][i] = x
    <3>1. PICK i \in 1..Len(s) : s[i] = x
      BY <2>1
    <3>2. i - 1 \in 1..(Len(s) - 1) /\ (i - 1) + 1 = i
      BY <1>3, <2>1, <3>1
    <3>3. Tail(s)[i - 1] = x
      BY <1>3, <3>1, <3>2
    <3> QED
      BY <1>3, <1>4, <3>2, <3>3
  <2>2. ASSUME NEW n \in Names, NEW f \in files'[n], f.by = c
        PROVE  \E i \in 1..Len(defers'[c]) : defers'[c][i] = n
    <3>1. n # e /\ f \in files[n]
      BY <1>2, <1>6, <1>7, <2>2
    <3> QED
      BY Zenon, <1>1, <2>1, <2>2, <3>1 DEF CInv, Covered
  <2>3. "session" \in open'[c] => \E i \in 1..Len(defers'[c]) : defers'[c][i] = "connector"
    BY <1>1, <1>5, <2>1 DEF CInv, Covered
  <2>4. "conn" \in open'[c] => \E i \in 1..Len(defers'[c]) : defers'[c][i] = "conn"
    BY <1>1, <1>5, <2>1 DEF CInv, Covered
  <2> QED
    BY <2>2, <2>3, <2>4 DEF Covered
<1>13. Named(c)' /\ Progress(c)'
  BY Zenon, <1>1 DEF CInv, Named, Progress
<1> QED
  BY <1>8, <1>9, <1>10, <1>11, <1>12, <1>13 DEF Good, CInv

(* A step that touches neither a call nor the files keeps its invariant.   *)
LEMMA Untouched ==
    ASSUME NEW c \in Callers, CInv(c),
           UNCHANGED <<pc, spec, got, config, defers, open, answer, nil, files>>
    PROVE  CInv(c)'
<1>1. Owned(c)'
  BY DEF CInv, Owned
<1>2. Covered(c)'
  BY DEF CInv, Covered
<1>3. Named(c)'
  BY DEF CInv, Named, File
<1>4. Progress(c)'
  BY DEF CInv, Progress
<1> QED
  BY <1>1, <1>2, <1>3, <1>4 DEF CInv

(* Before its first statement, in the first process or in a later one, a   *)
(* call has nothing.                                                       *)
LEMMA NoCalls ==
    ASSUME NEW c \in Callers, pc[c] = "idle", config[c] = NoFiles, defers[c] = <<>>,
           open[c] = {}, answer[c] = "none", \A n \in Names : files[n] = {}
    PROVE  CInv(c)
<1>1. Owned(c)
  BY DEF Owned
<1>2. Covered(c)
  BY DEF Covered
<1>3. Named(c)
  BY Defaults DEF Named
<1>4. Progress(c)
  BY Zenon DEF Progress
<1> QED
  BY <1>1, <1>2, <1>3, <1>4 DEF CInv

(* The same in the next state.                                             *)
LEMMA NoCallsPrime ==
    ASSUME NEW c \in Callers, pc'[c] = "idle", config'[c] = NoFiles, defers'[c] = <<>>,
           open'[c] = {}, answer'[c] = "none", \A n \in Names : files'[n] = {}
    PROVE  CInv(c)'
<1>1. Owned(c)'
  BY DEF Owned
<1>2. Covered(c)'
  BY DEF Covered
<1>3. Named(c)'
  BY Defaults DEF Named
<1>4. Progress(c)'
  BY Zenon DEF Progress
<1> QED
  BY <1>1, <1>2, <1>3, <1>4 DEF CInv

(* A crash.                                                                *)
LEMMA CrashStep ==
    ASSUME IInv, Crash
    PROVE  IInv'
<1>1. defers' \in [Callers -> Seq(Names \cup {"connector", "conn"})]
  BY DEF Crash
<1>2. pc' \in [Callers -> Labels]
  BY DEF Crash, Labels
<1>3. left' \subseteq Names
  BY DEF IInv, TypeOK, Crash
<1>4. TypeOK'
  BY Zenon, <1>1, <1>2, <1>3, Defaults DEF IInv, Crash, TypeOK, Labels
<1>5. ASSUME NEW c \in Callers
      PROVE  CInv(c)'
  BY Zenon, NoCallsPrime DEF Crash
<1>6. Abandoned'
  BY <1>3 DEF Crash, Abandoned
<1> QED
  BY <1>4, <1>5, <1>6 DEF IInv

-----------------------------------------------------------------------------
(* The invariant, in every reachable state.                                *)
THEOREM Invariance == Spec => []IInv
<1>1. Init => IInv
  <2> SUFFICES ASSUME Init
               PROVE  IInv
    OBVIOUS
  <2>1. defers \in [Callers -> Seq(Names \cup {"connector", "conn"})]
    BY DEF Init
  <2>2. pc \in [Callers -> Labels]
    BY DEF Init, Labels
  <2>3. TypeOK
    BY Zenon, <2>1, <2>2, Defaults DEF Init, TypeOK, Labels
  <2>4. ASSUME NEW c \in Callers
        PROVE  CInv(c)
    BY Zenon, NoCalls DEF Init
  <2>5. Abandoned
    BY DEF Init, Abandoned
  <2> QED
    BY <2>3, <2>4, <2>5 DEF IInv
<1>2. IInv /\ [Next]_vars => IInv'
  <2> SUFFICES ASSUME IInv, [Next]_vars
               PROVE  IInv'
    OBVIOUS
  <2>1. ASSUME NEW c \in Callers, Good(c)
        PROVE  IInv'
    <3>1. Abandoned'
      BY <2>1 DEF Good, IInv, Abandoned, FilesStep, FreeName, TypeOK
    <3> QED
      BY <2>1, <3>1, OthersKeep DEF Good, IInv
  <2>2. ASSUME NEW c \in Callers, Start(c) \/ Step(c) \/ Answer(c)
        PROVE  Good(c)
    BY <2>2, QuietStep, EdgeStep, ConnectorStep, FileStep, UnwindStep DEF Step
  <2>3. CASE Environment
    <3>1. TypeOK'
      BY Zenon, <2>3 DEF Environment, IInv, TypeOK
    <3>2. ASSUME NEW c \in Callers
          PROVE  CInv(c)'
      BY <2>3, Untouched DEF Environment, IInv
    <3>3. Abandoned'
      BY <2>3 DEF Environment, IInv, Abandoned
    <3> QED
      BY <3>1, <3>2, <3>3 DEF IInv
  <2>4. CASE UNCHANGED vars
    <3>1. TypeOK'
      BY <2>4 DEF vars, IInv, TypeOK
    <3>2. ASSUME NEW c \in Callers
          PROVE  CInv(c)'
      BY <2>4, Untouched DEF vars, world, IInv
    <3>3. Abandoned'
      BY <2>4 DEF vars, IInv, Abandoned
    <3> QED
      BY <3>1, <3>2, <3>3 DEF IInv
  <2> QED
    BY <2>1, <2>2, <2>3, <2>4, CrashStep DEF Next
<1> QED
  BY <1>1, <1>2, PTL DEF Spec

(* Every variable keeps its type.                                          *)
THEOREM TypeCorrect == Spec => []TypeOK
<1>1. IInv => TypeOK
  BY DEF IInv
<1> QED
  BY <1>1, Invariance, PTL

(* No call loses a temporary file to another before it has dialled, and    *)
(* certificate, key and authority are of one version of the secret         *)
(* (validate.go:96-158, 177-186).                                          *)
THEOREM OwnFiles == Spec => []FilesInPlace
<1>1. IInv => FilesInPlace
  <2> SUFFICES ASSUME IInv, NEW c \in Callers, pc[c] \in {"open", "connect"}, spec[c].tls,
                      NEW k \in {"cert", "key"} \cup (got[c].has \intersect {"ca"})
               PROVE  config[c][k] # NoName /\ files[config[c][k]] = File(c, k)
    BY DEF FilesInPlace
  <2>1. k \in Kinds /\ CInv(c)
    BY DEF Kinds, IInv
  <2>2. config[c][k] # NoName
    BY <2>1 DEF CInv, Progress
  <2> QED
    BY <2>1, <2>2 DEF CInv, Named
<1> QED
  BY <1>1, Invariance, PTL

-----------------------------------------------------------------------------
(* The refinement mapping.                                                 *)
call == [c \in Callers |-> IF pc[c] = "idle" THEN "none"
                           ELSE IF answer[c] = "welcome" THEN "admitted" ELSE "busy"]
held == [c \in Callers |-> Held(c)]
result == [c \in Callers |-> pc[c] = "idle" /\ nil[c]]

(* Nobody else's step changes what a call holds.                           *)
LEMMA HeldApart ==
    ASSUME TypeOK, NEW c \in Callers, NEW d \in Callers \ {c}, Apart(c), FilesStep(c)
    PROVE  Held(d)' = Held(d)
<1>1. files \in [Names -> SUBSET FileSet] /\ open'[d] = open[d]
  BY Zenon DEF TypeOK, FileSet, Apart
<1>2. ASSUME NEW n \in Names
      PROVE  (\E f \in files'[n] : f.by = d) <=> (\E f \in files[n] : f.by = d)
  <2>1. CASE files' = files
    BY <2>1
  <2>2. ASSUME NEW m \in Names, NEW g \in FileSet,
               FreeName(m), g.by = c, files' = [files EXCEPT ![m] = {g}]
        PROVE  (\E f \in files'[n] : f.by = d) <=> (\E f \in files[n] : f.by = d)
    <3>1. CASE n = m
      BY <1>1, <2>2, <3>1 DEF FreeName
    <3>2. CASE n # m
      BY <1>1, <2>2, <3>2
    <3> QED
      BY <3>1, <3>2
  <2>3. ASSUME NEW m \in Names, \A f \in files[m] : f.by = c, files' = [files EXCEPT ![m] = {}]
        PROVE  (\E f \in files'[n] : f.by = d) <=> (\E f \in files[n] : f.by = d)
    <3>1. CASE n = m
      BY <1>1, <2>3, <3>1
    <3>2. CASE n # m
      BY <1>1, <2>3, <3>2
    <3> QED
      BY <3>1, <3>2
  <2> QED
    BY <2>1, <2>2, <2>3 DEF FilesStep
<1> QED
  BY <1>1, <1>2 DEF Held

(* The empty sequence has no element.                                      *)
LEMMA NoElement == ASSUME NEW s, s = <<>> PROVE \A i \in 1..Len(s) : FALSE
  OBVIOUS

(* A call that has run its deferred calls holds nothing.                   *)
LEMMA NothingLeft ==
    ASSUME TypeOK, NEW c \in Callers, CInv(c), defers[c] = <<>>
    PROVE  Held(c) = {}
<1>1. \A i \in 1..Len(defers[c]) : FALSE
  BY Zenon, NoElement
<1>2. \A n \in Names : ~\E f \in files[n] : f.by = c
  BY <1>1 DEF CInv, Covered
<1>3. "session" \notin open[c] /\ "conn" \notin open[c] /\ open[c] \subseteq Links
  BY <1>1 DEF CInv, Covered, TypeOK
<1> QED
  BY <1>2, <1>3 DEF Held, Links

(* Whatever a call holds is a file name or a connection.                   *)
LEMMA HeldType ==
    ASSUME TypeOK, NEW c \in Callers
    PROVE  Held(c) \subseteq Names \cup Links
  BY DEF TypeOK, Held

(* A function that differs from another for one argument only.             *)
LEMMA OneChange ==
    ASSUME NEW S, NEW f \in [Callers -> S], NEW g \in [Callers -> S], NEW c \in Callers,
           \A d \in Callers \ {c} : g[d] = f[d]
    PROVE  g = [f EXCEPT ![c] = g[c]] /\ (g[c] = f[c] => g = f)
  OBVIOUS

(* The mapped variables have the contract's types.                         *)
LEMMA MappedType ==
    ASSUME TypeOK
    PROVE  /\ call \in [Callers -> {"none", "busy", "admitted"}]
           /\ held \in [Callers -> SUBSET (Names \cup Links)]
           /\ result \in [Callers -> BOOLEAN]
           /\ \A c \in Callers :
                 /\ call[c] = IF pc[c] = "idle" THEN "none"
                              ELSE IF answer[c] = "welcome" THEN "admitted" ELSE "busy"
                 /\ held[c] = Held(c) /\ result[c] = (pc[c] = "idle" /\ nil[c])
<1>1. call \in [Callers -> {"none", "busy", "admitted"}]
  BY DEF call
<1>2. held \in [Callers -> SUBSET (Names \cup Links)]
  BY HeldType DEF held
<1>3. result \in [Callers -> BOOLEAN]
  BY DEF result
<1> QED
  BY <1>1, <1>2, <1>3 DEF call, held, result

(* The same in the next state.                                             *)
LEMMA MappedTypePrime ==
    ASSUME TypeOK'
    PROVE  /\ call' \in [Callers -> {"none", "busy", "admitted"}]
           /\ held' \in [Callers -> SUBSET (Names \cup Links)]
           /\ result' \in [Callers -> BOOLEAN]
           /\ \A c \in Callers :
                 /\ call'[c] = IF pc'[c] = "idle" THEN "none"
                               ELSE IF answer'[c] = "welcome" THEN "admitted" ELSE "busy"
                 /\ held'[c] = Held(c)' /\ result'[c] = (pc'[c] = "idle" /\ nil'[c])
<1>1. call' \in [Callers -> {"none", "busy", "admitted"}]
  BY DEF call
<1>2. \A c \in Callers : Held(c)' \subseteq Names \cup Links
  BY DEF TypeOK, Held
<1>3. held' \in [Callers -> SUBSET (Names \cup Links)]
  BY <1>2 DEF held
<1>4. result' \in [Callers -> BOOLEAN]
  BY DEF result
<1> QED
  BY <1>1, <1>3, <1>4 DEF call, held, result

(* The concurrent calls keep the contract: nil only after the frp server   *)
(* let this very call in, no return with a file or a connection left       *)
(* behind.  Files stay only where a process has died, and no later call    *)
(* takes or removes those (validate.go:96-228).                            *)
THEOREM Refinement == Spec => ImplementsContract
<1>1. Init => Contract!Init
  <2> SUFFICES ASSUME Init
               PROVE  Contract!Init
    OBVIOUS
  <2>1. ASSUME NEW c \in Callers
        PROVE  Held(c) = {} /\ pc[c] = "idle" /\ nil[c] = FALSE
    BY DEF Init, Held
  <2>2. left = {}
    BY DEF Init
  <2> QED
    BY Zenon, <2>1, <2>2 DEF Contract!Init
<1>2. IInv /\ IInv' /\ [Next]_vars => [Contract!Next]_(Contract!vars)
  <2> SUFFICES ASSUME IInv, IInv', [Next]_vars
               PROVE  \/ Contract!Next
                      \/ call' = call /\ held' = held /\ result' = result /\ left' = left
    BY DEF Contract!vars, call, held, result
  <2>1. ASSUME NEW c \in Callers, Start(c) \/ Step(c) \/ Answer(c)
        PROVE  /\ Good(c) /\ TypeOK /\ TypeOK' /\ CInv(c) /\ CInv(c)' /\ left' = left
               /\ \A d \in Callers \ {c} :
                     call'[d] = call[d] /\ held'[d] = held[d] /\ result'[d] = result[d]
    <3>0. Good(c)
      BY <2>1, QuietStep, EdgeStep, ConnectorStep, FileStep, UnwindStep DEF Step
    <3>1. Good(c) /\ TypeOK /\ TypeOK' /\ CInv(c) /\ CInv(c)' /\ left' = left
      BY <3>0 DEF Good, IInv
    <3>2. \A d \in Callers \ {c} : Held(d)' = Held(d)
      BY <3>1, HeldApart DEF Good
    <3> QED
      BY Zenon, <3>1, <3>2 DEF Good, Apart, call, held, result
  <2>2. ASSUME NEW c \in Callers, Start(c) \/ Step(c) \/ Answer(c)
        PROVE  /\ call' = [call EXCEPT ![c] = call'[c]] /\ (call'[c] = call[c] => call' = call)
               /\ held' = [held EXCEPT ![c] = held'[c]] /\ (held'[c] = held[c] => held' = held)
               /\ result' = [result EXCEPT ![c] = result'[c]]
               /\ (result'[c] = result[c] => result' = result)
               /\ held[c] = Held(c) /\ held'[c] \subseteq Names \cup Links
    <3>0. \A d \in Callers \ {c} :
             call'[d] = call[d] /\ held'[d] = held[d] /\ result'[d] = result[d]
      BY Zenon, <2>1, <2>2
    <3>1. /\ call' = [call EXCEPT ![c] = call'[c]] /\ (call'[c] = call[c] => call' = call)
      <4>1. /\ call \in [Callers -> {"none", "busy", "admitted"}]
            /\ call' \in [Callers -> {"none", "busy", "admitted"}]
        BY MappedType, MappedTypePrime DEF IInv
      <4> QED
        BY <3>0, <4>1, OneChange
    <3>2. /\ held' = [held EXCEPT ![c] = held'[c]] /\ (held'[c] = held[c] => held' = held)
      <4>1. /\ held \in [Callers -> SUBSET (Names \cup Links)]
            /\ held' \in [Callers -> SUBSET (Names \cup Links)]
        BY MappedType, MappedTypePrime DEF IInv
      <4> DEFINE f == held
                 g == held'
      <4>2. PICK S : f \in [Callers -> S] /\ g \in [Callers -> S]
        BY Zenon, <4>1
      <4>3. \A d \in Callers \ {c} : g[d] = f[d]
        BY Zenon, <3>0
      <4> HIDE DEF f, g
      <4>4. g = [f EXCEPT ![c] = g[c]] /\ (g[c] = f[c] => g = f)
        BY <4>2, <4>3, OneChange
      <4> QED
        BY Zenon, <4>4 DEF f, g
    <3>3. /\ result' = [result EXCEPT ![c] = result'[c]]
          /\ (result'[c] = result[c] => result' = result)
      <4>1. result \in [Callers -> BOOLEAN] /\ result' \in [Callers -> BOOLEAN]
        BY MappedType, MappedTypePrime DEF IInv
      <4> DEFINE f == result
                 g == result'
      <4>2. PICK S : f \in [Callers -> S] /\ g \in [Callers -> S]
        BY Zenon, <4>1
      <4>3. \A d \in Callers \ {c} : g[d] = f[d]
        BY Zenon, <3>0
      <4> HIDE DEF f, g
      <4>4. g = [f EXCEPT ![c] = g[c]] /\ (g[c] = f[c] => g = f)
        BY <4>2, <4>3, OneChange
      <4> QED
        BY Zenon, <4>4 DEF f, g
    <3>4. held[c] = Held(c) /\ held'[c] \subseteq Names \cup Links
      BY <2>1, <2>2, MappedType, MappedTypePrime
    <3> QED
      BY <3>1, <3>2, <3>3, <3>4
  <2>3. ASSUME NEW c \in Callers, Start(c)
        PROVE  Contract!Start(c)
    <3>1. pc[c] = "idle" /\ pc'[c] # "idle" /\ answer'[c] # "welcome"
      <4>1. TypeOK /\ CInv(c) /\ pc[c] = "idle" /\ answer' = answer
        BY Zenon, <2>1, <2>3 DEF Start
      <4>2. pc'[c] \in {"secret", "config"}
        BY <2>3, <4>1 DEF Start, Goto, Set, TypeOK
      <4>3. answer[c] = "none"
        BY <4>1 DEF CInv, Progress
      <4> QED
        BY <4>1, <4>2, <4>3
    <3>2. call[c] = "none" /\ call'[c] = "busy"
      BY Zenon, <2>1, <2>3, <3>1, MappedType, MappedTypePrime
    <3>3. result'[c] = FALSE
      BY <2>1, <2>3, <3>1, MappedTypePrime
    <3>4. held' = held
      BY <2>3 DEF Start, world, held, Held
    <3>5. call' = [call EXCEPT ![c] = "busy"] /\ result' = [result EXCEPT ![c] = FALSE]
      BY <2>2, <2>3, <3>2, <3>3
    <3> QED
      BY Zenon, <2>1, <2>3, <3>2, <3>4, <3>5 DEF Contract!Start, call, held, result
  <2>4. ASSUME NEW c \in Callers, Answer(c)
        PROVE  \/ Contract!Admit(c)
               \/ call' = call /\ held' = held /\ result' = result /\ left' = left
    <3>1. held' = held /\ result' = result
      BY <2>4 DEF Answer, world, held, Held, result
    <3>2. pc'[c] = "read" /\ pc[c] = "read" /\ answer[c] = "none"
      BY <2>4 DEF Answer
    <3>3. call[c] = "busy" /\ call'[c] \in {"admitted", "busy"}
      BY <2>1, <2>4, <3>2, MappedType, MappedTypePrime
    <3>4. CASE call'[c] = "busy"
      BY Zenon, <2>1, <2>2, <2>4, <3>1, <3>3, <3>4
    <3>5. CASE call'[c] = "admitted"
      <4>1. call' = [call EXCEPT ![c] = "admitted"]
        BY Zenon, <2>2, <2>4, <3>5
      <4> QED
        BY Zenon, <2>1, <2>4, <3>1, <3>3, <4>1 DEF Contract!Admit, call, held, result
    <3> QED
      BY <3>3, <3>4, <3>5
  <2>5. ASSUME NEW c \in Callers, Step(c), ~Return(c)
        PROVE  Contract!Work(c)
    <3>1. pc[c] # "idle" /\ pc'[c] # "idle" /\ answer' = answer
      <4>1. pc'[c] # "idle"
        <5>1. ASSUME NEW l, l # "idle", pc' = [pc EXCEPT ![c] = l]
              PROVE  pc'[c] # "idle"
          <6>1. c \in DOMAIN pc
            BY Zenon, <2>1, <2>5 DEF TypeOK
          <6> QED
            BY <5>1, <6>1
        <5>2. CASE GetSecret(c) \/ Login(c) \/ Read(c)
          BY Zenon, <5>1, <5>2 DEF GetSecret, Login, Read, Goto, Fail, Set
        <5>3. CASE Unwind(c)
          BY <5>3 DEF Unwind
        <5>4. CASE Configure(c) \/ Open(c) \/ Connect(c)
          BY Zenon, <5>1, <5>4 DEF Configure, Open, Connect, Goto, Fail, Set
        <5>5. CASE \E k \in Kinds : WriteFile(c, k)
          BY Zenon, <5>1, <5>5 DEF WriteFile, Goto, Fail, Set, AfterFile, Kinds
        <5> QED
          BY Zenon, <2>5, <5>2, <5>3, <5>4, <5>5 DEF Step
      <4>2. pc[c] # "idle" /\ answer' = answer
        BY Zenon, <2>1, <2>5 DEF Step, GetSecret, WriteFile, Configure, Open, Connect, Login, Read,
                                 Unwind, Kinds
      <4> QED
        BY <4>1, <4>2
    <3>2. call'[c] = call[c] /\ call[c] # "none"
      BY Zenon, <2>1, <2>5, <3>1, MappedType, MappedTypePrime
    <3>3. result'[c] = result[c]
      BY Zenon, <2>1, <2>5, <3>1, MappedType, MappedTypePrime
    <3>4. call' = call /\ result' = result
      BY <2>2, <2>5, <3>2, <3>3
    <3>5. held'[c] \subseteq Names \cup Links /\ held' = [held EXCEPT ![c] = held'[c]]
      BY <2>2, <2>5
    <3> QED
      BY Zenon, <2>1, <2>5, <3>2, <3>4, <3>5 DEF Contract!Work, call, held, result
  <2>6. ASSUME NEW c \in Callers, Return(c)
        PROVE  Contract!Finish(c)
    <3>0. Step(c)
      BY <2>6 DEF Step
    <3>1. held[c] = {} /\ held' = held
      <4>1. Held(c) = {}
        BY Zenon, <2>1, <2>6, <3>0, NothingLeft DEF Return
      <4> QED
        BY Zenon, <2>2, <2>6, <3>0, <4>1 DEF Return, world, held, Held
    <3>2. pc[c] = "unwind" /\ pc'[c] = "idle" /\ nil' = nil
      BY Zenon, <2>1, <2>6, <3>0 DEF Return, Goto, Set, TypeOK
    <3>3. call[c] # "none" /\ call'[c] = "none"
      BY Zenon, <2>1, <2>6, <3>0, <3>2, MappedType, MappedTypePrime
    <3>4. nil[c] => answer[c] = "welcome"
      BY Zenon, <2>1, <2>6, <3>0, <3>2 DEF CInv, Progress
    <3>5. result'[c] \in BOOLEAN /\ (result'[c] => call[c] = "admitted")
      BY Zenon, <2>1, <2>6, <3>0, <3>2, <3>4, MappedType, MappedTypePrime
    <3>6. call' = [call EXCEPT ![c] = "none"] /\ result' = [result EXCEPT ![c] = result'[c]]
      BY <2>2, <2>6, <3>0, <3>3
    <3> QED
      BY Zenon, <2>1, <3>0, <3>1, <3>3, <3>5, <3>6 DEF Contract!Finish, call, held, result
  <2>7. CASE Environment \/ UNCHANGED vars
    BY Zenon, <2>7 DEF Environment, vars, call, held, result, Held
  <2>8. ASSUME Crash
        PROVE  Contract!Crash
    <3>1. ASSUME NEW c \in Callers
          PROVE  pc'[c] = "idle" /\ nil'[c] = FALSE /\ Held(c)' = {}
      BY <2>8 DEF Crash, Held
    <3>2. call' = [c \in Callers |-> "none"]
      BY Zenon, <3>1 DEF call
    <3>3. held' = [c \in Callers |-> {}]
      BY Zenon, <3>1 DEF held
    <3>4. result' = [c \in Callers |-> FALSE]
      BY Zenon, <3>1 DEF result
    <3>5. ASSUME NEW n \in Names
          PROVE  files[n] # {} <=> \E c \in Callers : n \in held[c]
      <4>1. \A f \in files[n] : f.by \in Callers
        BY DEF IInv, TypeOK
      <4>2. \A c \in Callers : n \notin open[c]
        BY ProbeAssumption DEF IInv, TypeOK, Links
      <4>3. \A c \in Callers : n \in held[c] <=> \E f \in files[n] : f.by = c
        BY <4>2 DEF held, Held
      <4> QED
        BY Zenon, <4>1, <4>3
    <3>6. left' = left \cup {n \in Names : \E c \in Callers : n \in held[c]}
      <4>1. left' = left \cup {n \in Names : files[n] # {}}
        BY <2>8 DEF Crash
      <4> QED
        BY Zenon, <3>5, <4>1
    <3> QED
      BY Zenon, <3>2, <3>3, <3>4, <3>6 DEF Contract!Crash, call, held, result
  <2> QED
    BY <2>3, <2>4, <2>5, <2>6, <2>7, <2>8 DEF Next, Contract!Next
<1> QED
  BY <1>1, <1>2, Invariance, PTL DEF Spec, ImplementsContract, Contract!Spec

=============================================================================
