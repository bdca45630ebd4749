---------------------------- MODULE HistoryLemmas ----------------------------
(***************************************************************************)
(* Facts about the histories that stand for an API object and its cached   *)
(* copy: a sequence from the version in the cache to the stored one.       *)
(***************************************************************************)
EXTENDS Naturals, Sequences, TLAPS

(* A history has a first and a last version.                               *)
LEMMA LogEnds ==
    ASSUME NEW S, NEW s \in Seq(S), s # <<>>
    PROVE  /\ Len(s) \in Nat /\ Len(s) >= 1
           /\ s[1] \in S /\ s[Len(s)] \in S
           /\ \A i \in 1..Len(s) : s[i] \in S
  OBVIOUS

(* A write extends the history and leaves the versions before it alone.    *)
LEMMA LogAppend ==
    ASSUME NEW S, NEW s \in Seq(S), s # <<>>, NEW e \in S
    PROVE  /\ Append(s, e) \in Seq(S) /\ Append(s, e) # <<>>
           /\ Len(Append(s, e)) = Len(s) + 1
           /\ Append(s, e)[Len(s) + 1] = e
           /\ \A i \in 1..Len(s) : Append(s, e)[i] = s[i]
  OBVIOUS

(* A delivery drops the oldest version.                                    *)
LEMMA LogTail ==
    ASSUME NEW S, NEW s \in Seq(S), Len(s) > 1
    PROVE  /\ Tail(s) \in Seq(S) /\ Tail(s) # <<>>
           /\ Len(Tail(s)) = Len(s) - 1
           /\ \A i \in 1..(Len(s) - 1) : Tail(s)[i] = s[i + 1]
           /\ Tail(s)[Len(s) - 1] = s[Len(s)]
<1>1. Len(s) \in Nat
  OBVIOUS
<1>2. s # <<>>
  OBVIOUS
<1>3. Tail(s) \in Seq(S) /\ Len(Tail(s)) = Len(s) - 1
  BY <1>2
<1>4. \A i \in 1..(Len(s) - 1) : Tail(s)[i] = s[i + 1]
  BY <1>1, <1>2
<1>5. Tail(s)[Len(s) - 1] = s[(Len(s) - 1) + 1]
  BY <1>1, <1>4
<1> QED
  BY <1>1, <1>3, <1>4, <1>5

(* A restart leaves the last version only.                                 *)
LEMMA LogSingle ==
    ASSUME NEW S, NEW e \in S
    PROVE  /\ <<e>> \in Seq(S) /\ <<e>> # <<>>
           /\ Len(<<e>>) = 1 /\ <<e>>[1] = e
  OBVIOUS

=============================================================================
