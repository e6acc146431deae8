-------------------------- MODULE WatchTargetsProofs ---------------------------
(***************************************************************************)
(* Proofs about WatchTargets, for any finite sets of targets and documents *)
(* and any bounds: the books of the aggregator are right, and a view that  *)
(* counts as current shows the backend's documents at the moment of its    *)
(* token.                                                                  *)
(*                                                                         *)
(* The argument follows what is under way.  To read the inbox from a set   *)
(* of documents takes a view from one set to the next; the inbox is Right  *)
(* for a target if that ends with what the backend has now, every snapshot *)
(* on the way having the token of the documents reached, or if a filter on *)
(* the way stops it.  A target listened to either waits for the answer to  *)
(* its last Watch, or has it in its inbox, or reads an inbox that is Right *)
(* for its view.                                                           *)
(***************************************************************************)
EXTENDS WatchTargets, SequenceTheorems, FiniteSetTheorems, TLAPS

Request == [type : {"Watch", "Unwatch"}, target : Target, token : Tokens]

Message ==
  [type : {"Added", "Removed", "Rejected", "Current", "Reset"}, target : Target]
    \union [type : {"In", "Out"}, target : Target, doc : Doc]
    \union [type : {"Filter"}, target : Target, count : Nat]
    \union [type : {"Snapshot"}, tokens : [Target -> {Token(ds) : ds \in SUBSET Doc}]]
-----------------------------------------------------------------------------
(***************************************************************************)
(* Reading messages                                                        *)
(***************************************************************************)

About(t, m) == m.type # "Snapshot" /\ m.target = t

\* The documents of t after a message.
Apply(t, m, A) ==
  IF ~About(t, m) THEN A
  ELSE IF m.type = "In" THEN A \union {m.doc}
  ELSE IF m.type = "Out" THEN A \ {m.doc}
  ELSE IF m.type = "Reset" THEN {}
  ELSE A

Mismatch(t, m, A) == About(t, m) /\ m.type = "Filter" /\ m.count # Cardinality(A)
Passes(t, m, A) == (m.type = "Snapshot" => m.tokens[t] = Token(A)) /\ ~Mismatch(t, m, A)

\* The first n messages of s take the documents of t from A to B.
Reaches(t, s, n, A, B) ==
  \E V \in [0..n -> SUBSET Doc] :
    /\ V[0] = A /\ V[n] = B
    /\ \A i \in 1..n : Passes(t, s[i], V[i - 1]) /\ V[i] = Apply(t, s[i], V[i - 1])

Run(t, s, A, B) == Reaches(t, s, Len(s), A, B)
Breaks(t, s, A) ==
  \E n \in 0..(Len(s) - 1), B \in SUBSET Doc : Reaches(t, s, n, A, B) /\ Mismatch(t, s[n + 1], B)
Right(t, s, A, B) == Run(t, s, A, B) \/ Breaks(t, s, A)

\* Reading nothing changes nothing.
LEMMA ReachesNone ==
  ASSUME NEW t, NEW s, NEW A \in SUBSET Doc
  PROVE  Reaches(t, s, 0, A, A)
<1> DEFINE V == [i \in 0..0 |-> A]
<1>1. V \in [0..0 -> SUBSET Doc] /\ V[0] = A /\ \A i \in 1..0 : FALSE
  OBVIOUS
<1> HIDE DEF V
<1> QED
  BY <1>1 DEF Reaches

\* What is read may be read in two parts.
LEMMA ReachesOn ==
  ASSUME NEW t, NEW r \in Seq(Message), NEW s \in Seq(Message), NEW n \in 0..Len(s),
         NEW A, NEW B, NEW C, Run(t, r, A, B), Reaches(t, s, n, B, C)
  PROVE  Reaches(t, r \o s, Len(r) + n, A, C)
<1> DEFINE k == Len(r)
           rs == r \o s
<1>1. k \in Nat /\ Len(s) \in Nat /\ n \in Nat
  BY LenProperties
<1>2. /\ \A i \in 1..k : rs[i] = r[i]
      /\ \A i \in 1..n : rs[k + i] = s[i]
  BY <1>1, ConcatProperties
<1>3. PICK V \in [0..k -> SUBSET Doc] :
        /\ V[0] = A /\ V[k] = B
        /\ \A i \in 1..k : Passes(t, r[i], V[i - 1]) /\ V[i] = Apply(t, r[i], V[i - 1])
  BY DEF Run, Reaches
<1>4. PICK W \in [0..n -> SUBSET Doc] :
        /\ W[0] = B /\ W[n] = C
        /\ \A i \in 1..n : Passes(t, s[i], W[i - 1]) /\ W[i] = Apply(t, s[i], W[i - 1])
  BY DEF Reaches
<1> HIDE DEF k, rs
<1> DEFINE U == [i \in 0..(k + n) |-> IF i \leq k THEN V[i] ELSE W[i - k]]
<1>5. U \in [0..(k + n) -> SUBSET Doc] /\ U[0] = A /\ U[k + n] = C
  BY <1>1, <1>3, <1>4
<1>6. /\ \A i \in 0..k : U[i] = V[i]
      /\ \A i \in 0..n : U[k + i] = W[i]
  BY <1>1, <1>3, <1>4
<1> HIDE DEF U
<1>7. ASSUME NEW i \in 1..(k + n)
      PROVE  Passes(t, rs[i], U[i - 1]) /\ U[i] = Apply(t, rs[i], U[i - 1])
  <2>1. CASE i \leq k
    <3>1. i \in 1..k /\ i \in 0..k /\ i - 1 \in 0..k
      BY <1>1, <2>1
    <3> QED
      BY <1>2, <1>3, <1>6, <3>1, Zenon
  <2>2. CASE i > k
    <3> DEFINE j == i - k
    <3>1. j \in 1..n /\ j \in 0..n /\ j - 1 \in 0..n /\ i = k + j /\ i - 1 = k + (j - 1)
      BY <1>1, <2>2
    <3> HIDE DEF j
    <3> QED
      BY <1>2, <1>4, <1>6, <3>1, Zenon
  <2> QED
    BY <1>1, <2>1, <2>2
<1>8. Reaches(t, rs, k + n, A, C)
  BY <1>5, <1>7 DEF Reaches
<1> QED
  BY <1>8 DEF k, rs

\* What comes behind does not matter to what is read first.
LEMMA ReachesFirst ==
  ASSUME NEW t, NEW r \in Seq(Message), NEW s \in Seq(Message), NEW n \in 0..Len(r),
         NEW A, NEW B, Reaches(t, r, n, A, B)
  PROVE  Reaches(t, r \o s, n, A, B)
<1>1. n \in Nat /\ \A i \in 1..n : (r \o s)[i] = r[i]
  BY LenProperties, ConcatProperties
<1> QED
  BY <1>1, Zenon DEF Reaches

\* The rest is read from what the first message leaves.
LEMMA ReachesTail ==
  ASSUME NEW t, NEW s \in Seq(Message), s # <<>>, NEW n \in 1..Len(s), NEW A, NEW B,
         Reaches(t, s, n, A, B)
  PROVE  Passes(t, Head(s), A) /\ Reaches(t, Tail(s), n - 1, Apply(t, Head(s), A), B)
<1>1. /\ Len(s) \in Nat /\ n \in Nat \ {0} /\ Head(s) = s[1]
      /\ \A i \in 1..(n - 1) : Tail(s)[i] = s[i + 1]
  BY LenProperties, HeadTailProperties
<1>2. PICK V \in [0..n -> SUBSET Doc] :
        /\ V[0] = A /\ V[n] = B
        /\ \A i \in 1..n : Passes(t, s[i], V[i - 1]) /\ V[i] = Apply(t, s[i], V[i - 1])
  BY DEF Reaches
<1>3. Passes(t, s[1], V[1 - 1]) /\ V[1] = Apply(t, s[1], V[1 - 1])
  BY <1>1, <1>2
<1> DEFINE W == [i \in 0..(n - 1) |-> V[i + 1]]
<1>4. W \in [0..(n - 1) -> SUBSET Doc] /\ W[0] = V[1] /\ W[n - 1] = B
  BY <1>1, <1>2
<1>5. ASSUME NEW i \in 1..(n - 1)
      PROVE  Passes(t, Tail(s)[i], W[i - 1]) /\ W[i] = Apply(t, Tail(s)[i], W[i - 1])
  <2>1. i + 1 \in 1..n /\ W[i - 1] = V[(i + 1) - 1] /\ W[i] = V[i + 1] /\ Tail(s)[i] = s[i + 1]
    BY <1>1
  <2> HIDE DEF W
  <2> QED
    BY <1>2, <2>1, Zenon
<1> HIDE DEF W
<1>6. 1 - 1 = 0
  OBVIOUS
<1>7. Reaches(t, Tail(s), n - 1, V[1], B)
  BY <1>4, <1>5 DEF Reaches
<1> QED
  BY <1>1, <1>2, <1>3, <1>6, <1>7

\* Messages that are Right in two parts are Right together.
LEMMA RightOn ==
  ASSUME NEW t, NEW r \in Seq(Message), NEW s \in Seq(Message), NEW A, NEW B, NEW C,
         Right(t, r, A, B), Right(t, s, B, C)
  PROVE  Right(t, r \o s, A, C)
<1>1. /\ Len(r) \in Nat /\ Len(s) \in Nat /\ Len(r \o s) = Len(r) + Len(s)
      /\ \A i \in 1..(Len(r) + Len(s)) :
           (r \o s)[i] = IF i \leq Len(r) THEN r[i] ELSE s[i - Len(r)]
  BY LenProperties, ConcatProperties
<1>2. CASE Run(t, r, A, B) /\ Run(t, s, B, C)
  <2>1. Len(s) \in 0..Len(s)
    BY <1>1
  <2>2. Reaches(t, r \o s, Len(r) + Len(s), A, C)
    BY <1>2, <2>1, ReachesOn DEF Run
  <2> QED
    BY <1>1, <2>2 DEF Right, Run
<1>3. CASE Run(t, r, A, B) /\ Breaks(t, s, B)
  <2>1. PICK n \in 0..(Len(s) - 1), D \in SUBSET Doc :
          Reaches(t, s, n, B, D) /\ Mismatch(t, s[n + 1], D)
    BY <1>3 DEF Breaks
  <2>2. n \in 0..Len(s) /\ Len(r) + n \in 0..(Len(r \o s) - 1) /\ s[n + 1] = (r \o s)[Len(r) + n + 1]
    BY <1>1
  <2>3. Reaches(t, r \o s, Len(r) + n, A, D)
    BY <1>3, <2>1, <2>2, ReachesOn
  <2> QED
    BY <2>1, <2>2, <2>3 DEF Right, Breaks
<1>4. CASE Breaks(t, r, A)
  <2>1. PICK n \in 0..(Len(r) - 1), D \in SUBSET Doc :
          Reaches(t, r, n, A, D) /\ Mismatch(t, r[n + 1], D)
    BY <1>4 DEF Breaks
  <2>2. n \in 0..Len(r) /\ n \in 0..(Len(r \o s) - 1) /\ r[n + 1] = (r \o s)[n + 1]
    BY <1>1
  <2>3. Reaches(t, r \o s, n, A, D)
    BY <2>1, <2>2, ReachesFirst
  <2> QED
    BY <2>1, <2>2, <2>3 DEF Right, Breaks
<1> QED
  BY <1>2, <1>3, <1>4 DEF Right

\* Of messages that are Right the first is met by a wrong count, or passes and
\* leaves the others Right.
LEMMA RightTail ==
  ASSUME NEW t, NEW s \in Seq(Message), s # <<>>, NEW A, NEW B, Right(t, s, A, B)
  PROVE  \/ Mismatch(t, Head(s), A)
         \/ Passes(t, Head(s), A) /\ Right(t, Tail(s), Apply(t, Head(s), A), B)
<1>1. /\ Len(s) \in Nat \ {0} /\ Head(s) = s[1] /\ Len(Tail(s)) = Len(s) - 1
      /\ \A i \in 1..(Len(s) - 1) : Tail(s)[i] = s[i + 1]
  BY EmptySeq, HeadTailProperties
<1>2. CASE Run(t, s, A, B)
  <2>1. Len(s) \in 1..Len(s)
    BY <1>1
  <2>2. Passes(t, Head(s), A) /\ Reaches(t, Tail(s), Len(s) - 1, Apply(t, Head(s), A), B)
    BY <1>2, <2>1, ReachesTail DEF Run
  <2> QED
    BY <1>1, <2>2 DEF Right, Run
<1>3. CASE Breaks(t, s, A)
  <2>1. PICK n \in 0..(Len(s) - 1), D \in SUBSET Doc :
          Reaches(t, s, n, A, D) /\ Mismatch(t, s[n + 1], D)
    BY <1>3 DEF Breaks
  <2>2. CASE n = 0
    <3>1. A = D
      BY <2>1, <2>2 DEF Reaches
    <3> QED
      BY <1>1, <2>1, <2>2, <3>1
  <2>3. CASE n # 0
    <3>1. /\ n \in 1..Len(s) /\ n - 1 \in 0..(Len(Tail(s)) - 1)
          /\ s[n + 1] = Tail(s)[n] /\ (n - 1) + 1 = n
      BY <1>1, <2>3
    <3>2. Passes(t, Head(s), A) /\ Reaches(t, Tail(s), n - 1, Apply(t, Head(s), A), D)
      BY <2>1, <3>1, ReachesTail
    <3>3. Breaks(t, Tail(s), Apply(t, Head(s), A))
      BY <2>1, <3>1, <3>2, Zenon DEF Breaks
    <3> QED
      BY <3>2, <3>3 DEF Right
  <2> QED
    BY <2>2, <2>3
<1> QED
  BY <1>2, <1>3 DEF Right
-----------------------------------------------------------------------------
(***************************************************************************)
(* What the backend sends                                                  *)
(***************************************************************************)

\* A set is put into a sequence that has each element once.
LEMMA SetToSeqOnce ==
  ASSUME NEW S, IsFiniteSet(S)
  PROVE  /\ SetToSeq(S) \in Seq(S)
         /\ \A e \in S : \E i \in 1..Len(SetToSeq(S)) : SetToSeq(S)[i] = e
         /\ \A i, j \in 1..Len(SetToSeq(S)) : SetToSeq(S)[i] = SetToSeq(S)[j] => i = j
<1> DEFINE n == Cardinality(S)
           f == SetToSeq(S)
<1>1. n \in Nat /\ ExistsBijection(1..n, S)
  BY FS_CardinalityType
<1>2. \E g \in [1..n -> S] : IsInjective(g)
  BY <1>1 DEF ExistsBijection, Bijection, Injection
<1>3. f \in [1..n -> S] /\ IsInjective(f)
  BY <1>2 DEF SetToSeq
<1> HIDE DEF f
<1>4. f \in Injection(1..n, S)
  BY <1>3 DEF Injection
<1>5. Cardinality(1..n) = n
  BY <1>1, FS_Interval
<1>6. f \in Surjection(1..n, S)
  <2> HIDE DEF n
  <2> QED
    BY <1>4, <1>5, FS_Injection DEF n
<1>7. f \in Seq(S) /\ Len(f) = n /\ DOMAIN f = 1..n
  <2> HIDE DEF n
  <2> QED
    BY <1>1, <1>3
<1> HIDE DEF n
<1>8. \A e \in S : \E i \in 1..n : f[i] = e
  BY <1>6 DEF Surjection
<1> QED
  BY <1>3, <1>7, <1>8 DEF IsInjective, f

\* Messages of the backend about the documents of t, none of them an answer.
Only(t, s) ==
  /\ s \in Seq(Message)
  /\ \A i \in 1..Len(s) : s[i].type \in {"In", "Out", "Current", "Reset", "Filter"} /\ s[i].target = t

\* One batch of messages about t behind another.
LEMMA OnlyOn ==
  ASSUME NEW t, NEW r, NEW s, Only(t, r), Only(t, s)
  PROVE  Only(t, r \o s)
<1>1. /\ Len(r) \in Nat /\ Len(s) \in Nat /\ Len(r \o s) = Len(r) + Len(s) /\ r \o s \in Seq(Message)
      /\ \A i \in 1..(Len(r) + Len(s)) :
           (r \o s)[i] = IF i \leq Len(r) THEN r[i] ELSE s[i - Len(r)]
  BY LenProperties, ConcatProperties DEF Only
<1> DEFINE rs == r \o s
<1> HIDE DEF rs
<1>2. ASSUME NEW i \in 1..Len(rs)
      PROVE  rs[i].type \in {"In", "Out", "Current", "Reset", "Filter"} /\ rs[i].target = t
  <2>1. CASE i \leq Len(r)
    <3>1. i \in 1..Len(r) /\ rs[i] = r[i]
      BY <1>1, <2>1 DEF rs
    <3> QED
      BY <3>1, Zenon DEF Only
  <2>2. CASE i > Len(r)
    <3>1. i - Len(r) \in 1..Len(s) /\ rs[i] = s[i - Len(r)]
      BY <1>1, <2>2 DEF rs
    <3> QED
      BY <3>1, Zenon DEF Only
  <2> QED
    BY <1>1, <2>1, <2>2 DEF rs
<1> QED
  BY <1>1, <1>2 DEF Only, rs

\* One message that passes.
LEMMA RunOne ==
  ASSUME NEW t, NEW m \in Message, NEW A \in SUBSET Doc, Passes(t, m, A),
         Apply(t, m, A) \in SUBSET Doc
  PROVE  <<m>> \in Seq(Message) /\ Run(t, <<m>>, A, Apply(t, m, A))
<1> DEFINE B == Apply(t, m, A)
           V == [i \in 0..1 |-> IF i = 0 THEN A ELSE B]
<1> HIDE DEF B
<1>1. V \in [0..1 -> SUBSET Doc] /\ V[0] = A /\ V[1] = B
  BY DEF B
<1> HIDE DEF V
<1>2. \A i \in 1..1 : i = 1 /\ <<m>>[i] = m /\ V[i - 1] = A
  BY <1>1
<1>3. \A i \in 1..1 : Passes(t, <<m>>[i], V[i - 1]) /\ V[i] = Apply(t, <<m>>[i], V[i - 1])
  BY <1>1, <1>2, Zenon DEF B
<1>4. Len(<<m>>) = 1 /\ <<m>> \in Seq(Message)
  OBVIOUS
<1>5. Reaches(t, <<m>>, 1, A, B)
  BY <1>1, <1>3 DEF Reaches
<1> QED
  BY <1>4, <1>5 DEF Run, B

\* Messages about other targets.
LEMMA RunOthers ==
  ASSUME NEW t, NEW s \in Seq(Message), NEW A \in SUBSET Doc,
         \A i \in 1..Len(s) : ~About(t, s[i]) /\ s[i].type # "Snapshot"
  PROVE  Run(t, s, A, A)
<1> DEFINE n == Len(s)
           V == [i \in 0..n |-> A]
<1>1. n \in Nat
  BY LenProperties
<1> HIDE DEF n
<1>2. V \in [0..n -> SUBSET Doc] /\ \A i \in 0..n : V[i] = A
  OBVIOUS
<1>3. \A i \in 1..n : i \in 0..n /\ i - 1 \in 0..n
  BY <1>1
<1>4. 0 \in 0..n /\ n \in 0..n
  BY <1>1
<1> HIDE DEF V
<1>5. ASSUME NEW i \in 1..n
      PROVE  Passes(t, s[i], V[i - 1]) /\ V[i] = Apply(t, s[i], V[i - 1])
  <2>1. ~About(t, s[i]) /\ s[i].type # "Snapshot"
    BY DEF n
  <2>2. V[i] = A /\ V[i - 1] = A
    BY <1>2, <1>3
  <2> QED
    BY <2>1, <2>2 DEF Passes, Mismatch, Apply
<1>6. Reaches(t, s, n, A, A)
  BY <1>2, <1>4, <1>5 DEF Reaches
<1> QED
  BY <1>6 DEF Run, n

\* The documents that enter.
LEMMA RunIn ==
  ASSUME NEW t \in Target, NEW ds \in SUBSET Doc, NEW A \in SUBSET Doc
  PROVE  Only(t, Sent("In", t, ds)) /\ Run(t, Sent("In", t, ds), A, A \union ds)
<1> DEFINE q == SetToSeq(ds)
           n == Len(q)
           s == Sent("In", t, ds)
           V == [i \in 0..n |-> A \union {q[j] : j \in 1..i}]
<1>1. IsFiniteSet(ds)
  BY BoundsAssumption, FS_Subset
<1>2. q \in Seq(ds) /\ \A e \in ds : \E i \in 1..n : q[i] = e
  BY <1>1, SetToSeqOnce
<1>3. n \in Nat /\ DOMAIN q = 1..n /\ \A i \in 1..n : q[i] \in ds
  BY <1>2, LenProperties
<1>4. s = [i \in 1..n |-> [type |-> "In", target |-> t, doc |-> q[i]]]
  BY <1>3 DEF Sent
<1> HIDE DEF q, n, s
<1>5. \A i \in 1..n : [type |-> "In", target |-> t, doc |-> q[i]] \in Message
  BY <1>3 DEF Message
<1>6. s \in Seq(Message) /\ Len(s) = n
  BY <1>3, <1>4, <1>5
<1>7. \A i \in 1..n : s[i].type = "In" /\ s[i].target = t /\ s[i].doc = q[i]
  BY <1>4
<1>8. V \in [0..n -> SUBSET Doc] /\ V[0] = A /\ V[n] = A \union {q[j] : j \in 1..n}
  BY <1>3
<1>9. {q[j] : j \in 1..n} = ds
  BY <1>2, <1>3 DEF n, q
<1>10. \A i \in 1..n : V[i] = V[i - 1] \union {q[i]}
  BY <1>3
<1> HIDE DEF V
<1>11. ASSUME NEW i \in 1..n
       PROVE  Passes(t, s[i], V[i - 1]) /\ V[i] = Apply(t, s[i], V[i - 1])
  BY <1>7, <1>10 DEF Passes, Mismatch, Apply, About
<1>12. Reaches(t, s, n, A, A \union ds)
  BY <1>8, <1>9, <1>11 DEF Reaches
<1> QED
  BY <1>6, <1>7, <1>12 DEF Only, Run, s

\* The documents that leave.
LEMMA RunOut ==
  ASSUME NEW t \in Target, NEW ds \in SUBSET Doc, NEW A \in SUBSET Doc
  PROVE  Only(t, Sent("Out", t, ds)) /\ Run(t, Sent("Out", t, ds), A, A \ ds)
<1> DEFINE q == SetToSeq(ds)
           n == Len(q)
           s == Sent("Out", t, ds)
           V == [i \in 0..n |-> A \ {q[j] : j \in 1..i}]
<1>1. IsFiniteSet(ds)
  BY BoundsAssumption, FS_Subset
<1>2. q \in Seq(ds) /\ \A e \in ds : \E i \in 1..n : q[i] = e
  BY <1>1, SetToSeqOnce
<1>3. n \in Nat /\ DOMAIN q = 1..n /\ \A i \in 1..n : q[i] \in ds
  BY <1>2, LenProperties
<1>4. s = [i \in 1..n |-> [type |-> "Out", target |-> t, doc |-> q[i]]]
  BY <1>3 DEF Sent
<1> HIDE DEF q, n, s
<1>5. \A i \in 1..n : [type |-> "Out", target |-> t, doc |-> q[i]] \in Message
  BY <1>3 DEF Message
<1>6. s \in Seq(Message) /\ Len(s) = n
  BY <1>3, <1>4, <1>5
<1>7. \A i \in 1..n : s[i].type = "Out" /\ s[i].target = t /\ s[i].doc = q[i]
  BY <1>4
<1>8. V \in [0..n -> SUBSET Doc] /\ V[0] = A /\ V[n] = A \ {q[j] : j \in 1..n}
  BY <1>3
<1>9. {q[j] : j \in 1..n} = ds
  BY <1>2, <1>3 DEF n, q
<1>10. \A i \in 1..n : V[i] = V[i - 1] \ {q[i]}
  BY <1>3
<1> HIDE DEF V
<1>11. ASSUME NEW i \in 1..n
       PROVE  Passes(t, s[i], V[i - 1]) /\ V[i] = Apply(t, s[i], V[i - 1])
  BY <1>7, <1>10 DEF Passes, Mismatch, Apply, About
<1>12. Reaches(t, s, n, A, A \ ds)
  BY <1>8, <1>9, <1>11 DEF Reaches
<1> QED
  BY <1>6, <1>7, <1>12 DEF Only, Run, s

\* A target is current, or starts over.
LEMMA RunResponses ==
  ASSUME NEW t \in Target, NEW A \in SUBSET Doc
  PROVE  /\ Only(t, <<Response("Current", t)>>) /\ Run(t, <<Response("Current", t)>>, A, A)
         /\ Only(t, <<Response("Reset", t)>>) /\ Run(t, <<Response("Reset", t)>>, A, {})
<1>1. Response("Current", t) \in Message /\ Response("Reset", t) \in Message
  BY DEF Response, Message
<1>2. /\ Passes(t, Response("Current", t), A) /\ Apply(t, Response("Current", t), A) = A
      /\ Passes(t, Response("Reset", t), A) /\ Apply(t, Response("Reset", t), A) = {}
  BY DEF Response, Passes, Mismatch, Apply, About
<1>3. /\ Run(t, <<Response("Current", t)>>, A, A) /\ <<Response("Current", t)>> \in Seq(Message)
      /\ Run(t, <<Response("Reset", t)>>, A, {}) /\ <<Response("Reset", t)>> \in Seq(Message)
  <2>1. A \in SUBSET Doc /\ {} \in SUBSET Doc
    OBVIOUS
  <2> QED
    BY <1>1, <1>2, <2>1, RunOne
<1>4. /\ \A i \in 1..Len(<<Response("Current", t)>>) :
           <<Response("Current", t)>>[i] = Response("Current", t)
      /\ \A i \in 1..Len(<<Response("Reset", t)>>) :
           <<Response("Reset", t)>>[i] = Response("Reset", t)
  OBVIOUS
<1> QED
  BY <1>3, <1>4 DEF Only, Response

\* A filter stops a view with other documents in number.
LEMMA FilterBreaks ==
  ASSUME NEW t \in Target, matches[t] \in SUBSET Doc, NEW A \in SUBSET Doc,
         Cardinality(A) # Cardinality(matches[t])
  PROVE  Only(t, <<Filter(t)>>) /\ Right(t, <<Filter(t)>>, A, matches[t])
<1>1. Cardinality(matches[t]) \in Nat
  BY BoundsAssumption, FS_Subset, FS_CardinalityType
<1>2. Filter(t) \in Message
  BY <1>1 DEF Filter, Message
<1>3. <<Filter(t)>> \in Seq(Message) /\ Len(<<Filter(t)>>) = 1 /\ <<Filter(t)>>[1] = Filter(t)
  BY <1>2
<1>4. Only(t, <<Filter(t)>>)
  BY <1>3 DEF Only, Filter
<1>5. Mismatch(t, Filter(t), A)
  BY DEF Mismatch, About, Filter
<1>6. Reaches(t, <<Filter(t)>>, 0, A, A)
  BY ReachesNone
<1>7. 0 \in 0..(Len(<<Filter(t)>>) - 1) /\ <<Filter(t)>>[0 + 1] = Filter(t)
  BY <1>3
<1>8. Breaks(t, <<Filter(t)>>, A)
  BY <1>5, <1>6, <1>7, Zenon DEF Breaks
<1> QED
  BY <1>4, <1>8 DEF Right

\* A run and a run, as messages of one target.
LEMMA OnlyRightOn ==
  ASSUME NEW t, NEW r, NEW s, NEW A, NEW B, NEW C,
         Only(t, r), Right(t, r, A, B), Only(t, s), Right(t, s, B, C)
  PROVE  Only(t, r \o s) /\ Right(t, r \o s, A, C)
<1>1. r \in Seq(Message) /\ s \in Seq(Message)
  BY DEF Only
<1> QED
  BY <1>1, OnlyOn, RightOn

\* A token stands for the documents it was sent with, none for no documents.
Consistent(tok, ds) == tok = Token(ds) \/ (tok = NoToken /\ ds = {})

\* What a target gets after its ADD is Right for the documents of its token.
LEMMA SinceIsRight ==
  ASSUME NEW t \in Target, matches[t] \in SUBSET Doc, NEW tok, NEW ds \in SUBSET Doc,
         Consistent(tok, ds), NEW reply \in Since(t, tok)
  PROVE  \E s : /\ reply = <<Response("Added", t)>> \o s
                /\ Only(t, s) /\ Right(t, s, ds, matches[t])
<1> DEFINE known == IF tok = NoToken THEN {} ELSE tok[1]
           left == known \ matches[t]
           in == Sent("In", t, matches[t] \ known)
           out == Sent("Out", t, left)
           add == <<Response("Added", t)>>
           done == <<Response("Current", t)>>
           count == <<Filter(t)>>
           ms == matches[t]
<1>1. known = ds
  BY DEF Consistent, Token, NoToken
<1>2. /\ left = {} => reply = (add \o in) \o done
      /\ left # {} => reply \in {((add \o in) \o out) \o done, ((add \o in) \o count) \o done,
                                 ((add \o in) \o done) \o count}
  BY Zenon DEF Since
<1>3. add \in Seq(Message)
  BY DEF Response, Message
<1>4. Only(t, in) /\ Right(t, in, ds, ds \union ms)
  BY <1>1, RunIn DEF Right
<1>5. Only(t, out) /\ Right(t, out, ds \union ms, ms)
  <2>1. (ds \union ms) \ left = ms
    BY <1>1
  <2>2. left \in SUBSET Doc /\ ds \union ms \in SUBSET Doc
    BY <1>1
  <2> HIDE DEF left
  <2> QED
    BY <2>1, <2>2, RunOut DEF Right
<1>6. \A A \in SUBSET Doc : Only(t, done) /\ Right(t, done, A, A)
  BY RunResponses DEF Right
<1>7. ASSUME left # {}
      PROVE  Only(t, count) /\ Right(t, count, ds \union ms, ms)
  <2>1. ms # ds \union ms /\ ms \in SUBSET (ds \union ms) /\ ds \union ms \in SUBSET Doc
    BY <1>1, <1>7
  <2>2. IsFiniteSet(ds \union ms)
    BY <2>1, BoundsAssumption, FS_Subset
  <2>3. Cardinality(ds \union ms) # Cardinality(ms)
    BY <2>1, <2>2, FS_Subset
  <2> QED
    BY <2>1, <2>3, FilterBreaks
<1> HIDE DEF left, in, out, add, done, count, known, ms
<1>8. ms \in SUBSET Doc /\ ds \union ms \in SUBSET Doc
  BY DEF ms
<1>9. \A a, b, c \in Seq(Message) : (a \o b) \o c = a \o (b \o c)
  BY ConcatAssociative, SMTT(60)
<1>10. CASE left = {}
  <2>1. ds \union ms = ms
    BY <1>1, <1>10 DEF left, ms
  <2>2. Only(t, in \o done) /\ Right(t, in \o done, ds, ms)
    BY <1>4, <1>6, <1>8, <2>1, OnlyRightOn
  <2>3. reply = add \o (in \o done)
    BY <1>2, <1>3, <1>4, <1>6, <1>8, <1>9, <1>10 DEF Only
  <2> QED
    BY <2>2, <2>3 DEF add, ms
<1>11. CASE left # {}
  <2>1. Only(t, out \o done) /\ Right(t, out \o done, ds \union ms, ms)
    BY <1>5, <1>6, <1>8, OnlyRightOn
  <2>2. Only(t, count \o done) /\ Right(t, count \o done, ds \union ms, ms)
    BY <1>6, <1>7, <1>8, <1>11, OnlyRightOn
  <2>3. Only(t, done \o count) /\ Right(t, done \o count, ds \union ms, ms)
    BY <1>6, <1>7, <1>8, <1>11, OnlyRightOn
  <2>4. \E end \in {out \o done, count \o done, done \o count} : reply = (add \o in) \o end
    <3>1. add \o in \in Seq(Message)
      BY <1>3, <1>4, ConcatProperties DEF Only
    <3> QED
      BY <1>2, <1>5, <1>6, <1>7, <1>8, <1>9, <1>11, <3>1 DEF Only
  <2>5. PICK end \in {out \o done, count \o done, done \o count} : reply = (add \o in) \o end
    BY <2>4
  <2>6. Only(t, end) /\ Right(t, end, ds \union ms, ms)
    BY <2>1, <2>2, <2>3
  <2>7. Only(t, in \o end) /\ Right(t, in \o end, ds, ms)
    BY <1>4, <2>6, OnlyRightOn
  <2>8. reply = add \o (in \o end)
    BY <1>3, <1>4, <1>9, <2>5, <2>6 DEF Only
  <2> QED
    BY <2>7, <2>8 DEF add, ms
<1> QED
  BY <1>10, <1>11
-----------------------------------------------------------------------------
(***************************************************************************)
(* Counting and splitting what is under way                                *)
(***************************************************************************)

Silent(s, M) == \A i \in 1..Len(s) : s[i] \notin M

\* The places that are counted are finitely many.
LEMMA CountType ==
  ASSUME NEW S, NEW s \in Seq(S), NEW M
  PROVE  /\ IsFiniteSet({i \in DOMAIN s : s[i] \in M}) /\ Count(s, M) \in Nat
         /\ Count(s, M) = 0 <=> Silent(s, M)
<1> DEFINE n == Len(s)
           I == {i \in DOMAIN s : s[i] \in M}
<1>1. n \in Nat /\ DOMAIN s = 1..n
  BY LenProperties
<1>2. IsFiniteSet(1..n)
  <2> HIDE DEF n
  <2> QED
    BY <1>1, FS_Interval
<1>3. IsFiniteSet(I)
  BY <1>1, <1>2, FS_Subset
<1>4. Count(s, M) = Cardinality(I)
  BY DEF Count
<1>5. I = {} <=> Silent(s, M)
  BY <1>1 DEF Silent
<1> HIDE DEF I
<1>6. Cardinality(I) \in Nat /\ (Cardinality(I) = 0 <=> I = {})
  BY <1>3, FS_CardinalityType, FS_EmptySet
<1>7. IsFiniteSet({i \in DOMAIN s : s[i] \in M})
  BY <1>3 DEF I
<1> QED
  BY <1>4, <1>5, <1>6, <1>7

\* A sequence counts as much as its parts.
LEMMA CountConcat ==
  ASSUME NEW S, NEW r \in Seq(S), NEW s \in Seq(S), NEW M
  PROVE  Count(r \o s, M) = Count(r, M) + Count(s, M)
<1> DEFINE n == Len(r)
           rs == r \o s
           I == {i \in DOMAIN r : r[i] \in M}
           J == {i \in DOMAIN s : s[i] \in M}
           K == {i \in DOMAIN rs : rs[i] \in M}
           L == {i + n : i \in J}
           f == [i \in J |-> i + n]
<1>1. /\ n \in Nat /\ DOMAIN r = 1..n /\ Len(s) \in Nat /\ DOMAIN s = 1..Len(s)
      /\ rs \in Seq(S) /\ Len(rs) = n + Len(s) /\ DOMAIN rs = 1..(n + Len(s))
      /\ \A i \in 1..n : rs[i] = r[i]
      /\ \A i \in 1..Len(s) : rs[i + n] = s[i]
  BY LenProperties, ConcatProperties
<1>2. IsFiniteSet(I) /\ IsFiniteSet(J) /\ Cardinality(I) \in Nat /\ Cardinality(J) \in Nat
  BY CountType, FS_CardinalityType
<1> HIDE DEF n, rs
<1>3. K = I \union L
  <2>1. I \subseteq K /\ L \subseteq K
    BY <1>1
  <2>2. ASSUME NEW i \in K PROVE i \in I \union L
    <3>1. CASE i \leq n
      <4>1. i \in 1..n
        BY <1>1, <3>1
      <4> QED
        BY <1>1, <4>1
    <3>2. CASE i > n
      <4>1. i - n \in 1..Len(s) /\ i = (i - n) + n
        BY <1>1, <3>2
      <4>2. i - n \in J
        BY <1>1, <4>1
      <4> QED
        BY <4>1, <4>2
    <3> QED
      BY <1>1, <3>1, <3>2
  <2> QED
    BY <2>1, <2>2
<1>4. I \intersect L = {}
  BY <1>1
<1>5. f \in Bijection(J, L)
  <2>1. f \in [J -> L]
    OBVIOUS
  <2>2. \A i, j \in J : f[i] = f[j] => i = j
    BY <1>1
  <2>3. \A l \in L : \E i \in J : f[i] = l
    OBVIOUS
  <2> QED
    BY <2>1, <2>2, <2>3 DEF Bijection, Injection, Surjection, IsInjective
<1>6. Count(r, M) = Cardinality(I) /\ Count(s, M) = Cardinality(J) /\ Count(rs, M) = Cardinality(K)
  BY DEF Count
<1> HIDE DEF I, J, K, L, f
<1>7. IsFiniteSet(L) /\ Cardinality(L) = Cardinality(J)
  BY <1>2, <1>5, FS_Bijection DEF ExistsBijection
<1>8. Cardinality(I \union L) = Cardinality(I) + Cardinality(L) - Cardinality({})
  BY <1>2, <1>4, <1>7, FS_Union
<1> QED
  BY <1>2, <1>3, <1>6, <1>7, <1>8, FS_EmptySet DEF rs

\* One element counts for one or nothing.
LEMMA CountOne ==
  ASSUME NEW x, NEW M
  PROVE  Count(<<x>>, M) = IF x \in M THEN 1 ELSE 0
<1>1. DOMAIN <<x>> = {1} /\ <<x>>[1] = x
  OBVIOUS
<1>2. CASE x \in M
  <2>1. {i \in DOMAIN <<x>> : <<x>>[i] \in M} = {1}
    BY <1>1, <1>2
  <2> QED
    BY <1>2, <2>1, FS_Singleton DEF Count
<1>3. CASE x \notin M
  <2>1. {i \in DOMAIN <<x>> : <<x>>[i] \in M} = {}
    BY <1>1, <1>3
  <2> QED
    BY <1>3, <2>1, FS_EmptySet DEF Count
<1> QED
  BY <1>2, <1>3

\* An element at the end counts for one or nothing.
LEMMA CountAppend ==
  ASSUME NEW S, NEW s \in Seq(S), NEW x \in S, NEW M
  PROVE  Count(Append(s, x), M) = Count(s, M) + (IF x \in M THEN 1 ELSE 0)
<1>1. <<x>> \in Seq(S) /\ Append(s, x) = s \o <<x>>
  BY AppendIsConcat
<1>2. Count(s \o <<x>>, M) = Count(s, M) + Count(<<x>>, M)
  BY <1>1, CountConcat
<1>3. Count(<<x>>, M) = IF x \in M THEN 1 ELSE 0
  BY CountOne
<1> QED
  BY <1>1, <1>2, <1>3

\* A sequence is its first element and the others.
LEMMA HeadAndTail ==
  ASSUME NEW S, NEW s \in Seq(S), s # <<>>
  PROVE  Head(s) \in S /\ Tail(s) \in Seq(S) /\ s = <<Head(s)>> \o Tail(s)
<1>1. Head(s) \in S /\ Tail(s) \in Seq(S) /\ Head(s) = s[1] /\ <<Head(s)>> \in Seq(S)
  BY HeadTailProperties
<1>2. /\ Len(s) \in Nat \ {0} /\ Len(Tail(s)) = Len(s) - 1
      /\ \A i \in 1..(Len(s) - 1) : Tail(s)[i] = s[i + 1]
  BY EmptySeq, HeadTailProperties
<1> DEFINE x == Head(s)
           c == <<x>> \o Tail(s)
<1>3. /\ c \in Seq(S) /\ Len(c) = 1 + Len(Tail(s))
      /\ \A i \in 1..(1 + Len(Tail(s))) : c[i] = IF i \leq 1 THEN x ELSE Tail(s)[i - 1]
  <2>1. <<x>> \in Seq(S) /\ Len(<<x>>) = 1 /\ <<x>>[1] = x
    BY <1>1
  <2> HIDE DEF x
  <2>2. /\ c \in Seq(S) /\ Len(c) = Len(<<x>>) + Len(Tail(s))
        /\ \A i \in 1..(Len(<<x>>) + Len(Tail(s))) :
             c[i] = IF i \leq Len(<<x>>) THEN <<x>>[i] ELSE Tail(s)[i - Len(<<x>>)]
    BY <1>1, <2>1, ConcatProperties
  <2>3. \A i \in 1..(1 + Len(Tail(s))) : i \leq 1 => i = 1
    OBVIOUS
  <2> QED
    BY <2>1, <2>2, <2>3
<1> HIDE DEF c, x
<1>4. ASSUME NEW i \in 1..Len(s) PROVE c[i] = s[i]
  BY <1>1, <1>2, <1>3 DEF x
<1>5. Len(c) = Len(s)
  BY <1>2, <1>3
<1>6. c = s
  BY <1>3, <1>4, <1>5, SeqEqual
<1> QED
  BY <1>1, <1>6 DEF c, x

\* Without its first element a sequence counts one less, or as much.
LEMMA CountTail ==
  ASSUME NEW S, NEW s \in Seq(S), s # <<>>, NEW M
  PROVE  Count(Tail(s), M) = Count(s, M) - (IF Head(s) \in M THEN 1 ELSE 0)
<1>1. Head(s) \in S /\ Tail(s) \in Seq(S) /\ s = <<Head(s)>> \o Tail(s) /\ <<Head(s)>> \in Seq(S)
  BY HeadAndTail
<1>2. Count(<<Head(s)>> \o Tail(s), M) = Count(<<Head(s)>>, M) + Count(Tail(s), M)
  BY <1>1, CountConcat
<1>3. Count(Tail(s), M) \in Nat
  BY <1>1, CountType
<1>4. Count(<<Head(s)>>, M) = IF Head(s) \in M THEN 1 ELSE 0
  BY CountOne
<1>5. Count(s, M) = Count(<<Head(s)>> \o Tail(s), M)
  BY <1>1
<1> QED
  BY <1>2, <1>3, <1>4, <1>5

\* Where s is split at x, the parts stay with the ends of s.
LEMMA SplitTail ==
  ASSUME NEW S, NEW b \in Seq(S), NEW x \in S, NEW a \in Seq(S), NEW s, s = (b \o <<x>>) \o a
  PROVE  \/ Head(s) = x /\ Tail(s) = a
         \/ b # <<>> /\ Head(s) = Head(b) /\ Tail(s) = (Tail(b) \o <<x>>) \o a
<1>1. <<x>> \in Seq(S) /\ \A u, v, w \in Seq(S) : (u \o v) \o w = u \o (v \o w)
  <2>1. \A u, v, w \in Seq(S) : (u \o v) \o w = u \o (v \o w)
    BY ONLY ConcatAssociative, SMTT(60)
  <2> QED
    BY <2>1
<1>2. ASSUME NEW y \in S, NEW c \in Seq(S)
      PROVE  Head(<<y>> \o c) = y /\ Tail(<<y>> \o c) = c
  <2> DEFINE yc == <<y>> \o c
  <2>1. <<y>> \in Seq(S) /\ Len(<<y>>) = 1 /\ <<y>>[1] = y /\ Len(c) \in Nat
    BY LenProperties
  <2>2. /\ yc \in Seq(S) /\ Len(yc) = 1 + Len(c)
        /\ \A i \in 1..(1 + Len(c)) : yc[i] = IF i \leq 1 THEN <<y>>[i] ELSE c[i - 1]
    BY <2>1, ConcatProperties
  <2> HIDE DEF yc
  <2>3. yc # <<>> /\ yc[1] = y
    BY <2>1, <2>2
  <2>4. /\ Tail(yc) \in Seq(S) /\ Len(Tail(yc)) = Len(c) /\ Head(yc) = yc[1]
        /\ \A i \in 1..Len(c) : Tail(yc)[i] = yc[i + 1]
    BY <2>1, <2>2, <2>3, HeadTailProperties
  <2>5. \A i \in 1..Len(c) : Tail(yc)[i] = c[i]
    BY <2>1, <2>2, <2>4
  <2>6. Tail(yc) = c
    BY <2>4, <2>5, SeqEqual
  <2> QED
    BY <2>3, <2>4, <2>6 DEF yc
<1>3. CASE b = <<>>
  <2>1. b \o <<x>> = <<x>>
    BY <1>1, <1>3, ConcatEmptySeq
  <2> QED
    BY <1>2, <2>1
<1>4. CASE b # <<>>
  <2>1. Head(b) \in S /\ Tail(b) \in Seq(S) /\ b = <<Head(b)>> \o Tail(b)
    BY <1>4, HeadAndTail
  <2> DEFINE h == <<Head(b)>>
             d == Tail(b)
             e == <<x>>
  <2>2. h \in Seq(S) /\ d \in Seq(S) /\ e \in Seq(S) /\ s = ((h \o d) \o e) \o a
    BY <1>1, <2>1
  <2>3. d \o e \in Seq(S) /\ (d \o e) \o a \in Seq(S)
    BY <2>2, ConcatProperties
  <2> HIDE DEF h, d, e
  <2>4. s = h \o ((d \o e) \o a)
    <3> DEFINE g == d \o e
    <3>1. (h \o d) \o e = h \o g
      BY <1>1, <2>2
    <3>2. g \in Seq(S)
      BY <2>3
    <3> HIDE DEF g
    <3>3. (h \o g) \o a = h \o (g \o a)
      BY ONLY <1>1, <2>2, <3>2, a \in Seq(S), SMTT(60)
    <3> QED
      BY <2>2, <3>1, <3>3 DEF g
  <2> QED
    BY <1>2, <1>4, <2>1, <2>3, <2>4 DEF h, d, e
<1> QED
  BY <1>3, <1>4
-----------------------------------------------------------------------------
(***************************************************************************)
(* Waiting for the answer to the last Watch                                *)
(***************************************************************************)

\* The last request for t is a Watch with a token that fits the documents.
LastWatch(t, rs, A) ==
  \E b, a \in Seq(Request), tok \in Tokens :
    /\ rs = (b \o <<Watch(t, tok)>>) \o a
    /\ Silent(a, Asked(t)) /\ Consistent(tok, A)

\* The last answer for t is on its way, and what follows it is Right.
LastAnswer(t, ms, type, A, B) ==
  \E b, a \in Seq(Message) :
    /\ ms = (b \o <<Response(type, t)>>) \o a
    /\ Silent(a, Answered(t)) /\ (type = "Added" => Right(t, a, A, B))

Waiting(t, rs, ms, A, B, served) ==
  \/ LastWatch(t, rs, A)
  \/ /\ Silent(rs, Asked(t))
     /\ \E type \in {"Added", "Rejected"} :
          LastAnswer(t, ms, type, A, B) /\ (type = "Added" => served)

\* A sequence holds none of M if neither part does.
LEMMA SilentConcat ==
  ASSUME NEW S, NEW r \in Seq(S), NEW s \in Seq(S), NEW M
  PROVE  Silent(r \o s, M) <=> Silent(r, M) /\ Silent(s, M)
<1> DEFINE rs == r \o s
<1>1. /\ Len(r) \in Nat /\ Len(s) \in Nat /\ Len(rs) = Len(r) + Len(s)
      /\ \A i \in 1..Len(r) : i \in 1..Len(rs) /\ rs[i] = r[i]
      /\ \A i \in 1..Len(s) : Len(r) + i \in 1..Len(rs) /\ rs[Len(r) + i] = s[i]
  BY LenProperties, ConcatProperties
<1> HIDE DEF rs
<1>2. ASSUME Silent(rs, M) PROVE Silent(r, M) /\ Silent(s, M)
  BY <1>1, <1>2 DEF Silent
<1>3. ASSUME Silent(r, M), Silent(s, M), NEW i \in 1..Len(rs) PROVE rs[i] \notin M
  <2>1. CASE i \leq Len(r)
    <3>1. i \in 1..Len(r)
      BY <1>1, <2>1
    <3> QED
      BY <1>1, <1>3, <3>1 DEF Silent
  <2>2. CASE i > Len(r)
    <3>1. i - Len(r) \in 1..Len(s) /\ Len(r) + (i - Len(r)) = i
      BY <1>1, <2>2
    <3>2. rs[Len(r) + (i - Len(r))] = s[i - Len(r)]
      BY <1>1, <3>1
    <3> QED
      BY <1>3, <3>1, <3>2 DEF Silent
  <2> QED
    BY <1>1, <2>1, <2>2
<1> QED
  BY <1>2, <1>3 DEF Silent, rs

\* A sequence holds none of M if neither its first element nor the others do.
LEMMA SilentEnds ==
  ASSUME NEW S, NEW s \in Seq(S), s # <<>>, NEW M
  PROVE  Silent(s, M) <=> Head(s) \notin M /\ Silent(Tail(s), M)
<1>1. Head(s) \in S /\ Tail(s) \in Seq(S) /\ s = <<Head(s)>> \o Tail(s) /\ <<Head(s)>> \in Seq(S)
  BY HeadAndTail
<1>2. Silent(<<Head(s)>> \o Tail(s), M) <=> Silent(<<Head(s)>>, M) /\ Silent(Tail(s), M)
  BY <1>1, SilentConcat
<1>3. Silent(<<Head(s)>>, M) <=> Head(s) \notin M
  BY DEF Silent
<1> QED
  BY <1>1, <1>2, <1>3, Zenon

\* Requests and answers, as elements of their queues.
LEMMA Elements ==
  ASSUME NEW t \in Target
  PROVE  /\ \A tok \in Tokens : Watch(t, tok) \in Request /\ Watch(t, tok) \in Asked(t)
         /\ Unwatch(t) \in Request /\ Unwatch(t) \in Asked(t)
         /\ \A type \in {"Added", "Rejected", "Removed"} :
              Response(type, t) \in Message /\ Response(type, t) \in Answered(t)
         /\ \A r \in Request : r \in Asked(t) <=> r.target = t
         /\ \A m \in Message : m \in Answered(t) <=>
              m.type \in {"Added", "Rejected", "Removed"} /\ m.target = t
<1>1. NoToken \in Tokens
  BY DEF Tokens
<1>2. ASSUME NEW r \in Request PROVE r \in Asked(t) <=> r.target = t
  BY DEF Request, Asked
<1>3. ASSUME NEW m \in Message
      PROVE  m \in Answered(t) <=> m.type \in {"Added", "Rejected", "Removed"} /\ m.target = t
  BY DEF Message, Answered
<1> QED
  BY <1>1, <1>2, <1>3 DEF Watch, Unwatch, Response, Request, Message, Asked, Answered

\* What is asked of others, and what comes behind, leaves t waiting.
LEMMA WaitingMore ==
  ASSUME NEW t \in Target, NEW rs \in Seq(Request), NEW q \in Seq(Request),
         NEW ms \in Seq(Message), NEW r \in Seq(Message), NEW A, NEW B, NEW C,
         NEW served, NEW served2, Waiting(t, rs, ms, A, B, served),
         Silent(q, Asked(t)), Silent(r, Answered(t)), served => Right(t, r, B, C) /\ served2
  PROVE  Waiting(t, rs \o q, ms \o r, A, C, served2)
<1>1. \A x \in Request : <<x>> \in Seq(Request)
  OBVIOUS
<1>2. \A x \in Message : <<x>> \in Seq(Message)
  OBVIOUS
<1>3. CASE LastWatch(t, rs, A)
  <2>1. PICK b \in Seq(Request), a \in Seq(Request), tok \in Tokens :
          /\ rs = (b \o <<Watch(t, tok)>>) \o a
          /\ Silent(a, Asked(t)) /\ Consistent(tok, A)
    BY <1>3 DEF LastWatch
  <2> DEFINE c == b \o <<Watch(t, tok)>>
  <2>2. c \in Seq(Request)
    BY <1>1, Elements, ConcatProperties
  <2> HIDE DEF c
  <2>3. (c \o a) \o q = c \o (a \o q) /\ a \o q \in Seq(Request) /\ Silent(a \o q, Asked(t))
    BY <2>1, <2>2, ConcatAssociative, ConcatProperties, SilentConcat, SMTT(60)
  <2>4. rs \o q = (b \o <<Watch(t, tok)>>) \o (a \o q)
    BY <2>1, <2>3 DEF c
  <2> QED
    BY <2>1, <2>3, <2>4, Zenon DEF Waiting, LastWatch
<1>4. ASSUME Silent(rs, Asked(t)), NEW type \in {"Added", "Rejected"},
             LastAnswer(t, ms, type, A, B), type = "Added" => served
      PROVE  Waiting(t, rs \o q, ms \o r, A, C, served2)
  <2>1. PICK b \in Seq(Message), a \in Seq(Message) :
          /\ ms = (b \o <<Response(type, t)>>) \o a
          /\ Silent(a, Answered(t)) /\ (type = "Added" => Right(t, a, A, B))
    BY <1>4 DEF LastAnswer
  <2> DEFINE c == b \o <<Response(type, t)>>
  <2>2. c \in Seq(Message)
    BY <1>2, Elements, ConcatProperties
  <2> HIDE DEF c
  <2>3. (c \o a) \o r = c \o (a \o r) /\ a \o r \in Seq(Message) /\ Silent(a \o r, Answered(t))
    BY <2>1, <2>2, ConcatAssociative, ConcatProperties, SilentConcat, SMTT(60)
  <2>4. ms \o r = (b \o <<Response(type, t)>>) \o (a \o r)
    BY <2>1, <2>3 DEF c
  <2>5. type = "Added" => Right(t, a \o r, A, C)
    BY <1>4, <2>1, RightOn
  <2>6. LastAnswer(t, ms \o r, type, A, C)
    BY <2>3, <2>4, <2>5, Zenon DEF LastAnswer
  <2>7. Silent(rs \o q, Asked(t))
    BY <1>4, SilentConcat
  <2> QED
    BY <1>4, <2>6, <2>7, Zenon DEF Waiting
<1> QED
  BY <1>3, <1>4, Zenon DEF Waiting

\* Once a message is read t waits on, or its last answer has come.
LEMMA WaitingRead ==
  ASSUME NEW t \in Target, NEW rs \in Seq(Request), NEW ms \in Seq(Message), NEW A, NEW B,
         NEW served, Waiting(t, rs, ms, A, B, served)
  PROVE  \/ Waiting(t, rs, Tail(ms), A, B, served)
         \/ \E type \in {"Added", "Rejected"} :
              /\ Head(ms) = Response(type, t)
              /\ Silent(rs, Asked(t)) /\ Silent(Tail(ms), Answered(t))
              /\ type = "Added" => served /\ Right(t, Tail(ms), A, B)
<1>1. CASE LastWatch(t, rs, A)
  BY <1>1, Zenon DEF Waiting
<1>2. ASSUME Silent(rs, Asked(t)), NEW type \in {"Added", "Rejected"},
             LastAnswer(t, ms, type, A, B), type = "Added" => served,
             ~Waiting(t, rs, Tail(ms), A, B, served)
      PROVE  /\ Head(ms) = Response(type, t) /\ Silent(Tail(ms), Answered(t))
             /\ type = "Added" => Right(t, Tail(ms), A, B)
  <2>1. PICK b \in Seq(Message), a \in Seq(Message) :
          /\ ms = (b \o <<Response(type, t)>>) \o a
          /\ Silent(a, Answered(t)) /\ (type = "Added" => Right(t, a, A, B))
    BY <1>2 DEF LastAnswer
  <2>2. \/ Head(ms) = Response(type, t) /\ Tail(ms) = a
        \/ b # <<>> /\ Tail(ms) = (Tail(b) \o <<Response(type, t)>>) \o a
    <3>1. Response(type, t) \in Message
      BY Elements
    <3> DEFINE x == Response(type, t)
    <3>2. x \in Message /\ b \in Seq(Message) /\ a \in Seq(Message) /\ ms = (b \o <<x>>) \o a
      BY <2>1, <3>1
    <3> HIDE DEF x
    <3>3. (Head(ms) = x /\ Tail(ms) = a) \/ (b # <<>> /\ Tail(ms) = (Tail(b) \o <<x>>) \o a)
      BY ONLY <3>2, SplitTail, SMTT(60)
    <3> QED
      BY <3>3 DEF x
  <2>3. b # <<>> => Tail(b) \in Seq(Message)
    BY HeadTailProperties
  <2>4. Tail(ms) # (Tail(b) \o <<Response(type, t)>>) \o a \/ b = <<>>
    BY <1>2, <2>1, <2>3, Zenon DEF Waiting, LastAnswer
  <2> QED
    BY <2>1, <2>2, <2>4
<1> QED
  BY <1>1, <1>2, Zenon DEF Waiting

\* Once a request is taken t waits on, or it was its last Watch.
LEMMA WaitingTaken ==
  ASSUME NEW t \in Target, NEW rs \in Seq(Request), rs # <<>>, NEW ms \in Seq(Message),
         NEW A, NEW B, NEW served, Waiting(t, rs, ms, A, B, served)
  PROVE  \/ Waiting(t, Tail(rs), ms, A, B, served) /\ (Head(rs) \in Asked(t) => LastWatch(t, Tail(rs), A))
         \/ \E tok \in Tokens : /\ Head(rs) = Watch(t, tok) /\ Consistent(tok, A)
                                /\ Silent(Tail(rs), Asked(t))
<1>1. CASE Silent(rs, Asked(t))
  <2>1. Silent(Tail(rs), Asked(t)) /\ Head(rs) \notin Asked(t)
    BY <1>1, SilentEnds
  <2>2. CASE LastWatch(t, rs, A)
    <3>1. PICK b \in Seq(Request), a \in Seq(Request), tok \in Tokens :
            rs = (b \o <<Watch(t, tok)>>) \o a
      BY <2>2 DEF LastWatch
    <3>2. <<Watch(t, tok)>> \in Seq(Request)
      BY Elements
    <3>3. b \o <<Watch(t, tok)>> \in Seq(Request)
      BY <3>2, ConcatProperties
    <3>4. Silent(<<Watch(t, tok)>>, Asked(t))
      BY <1>1, <3>1, <3>2, <3>3, SilentConcat
    <3> QED
      BY <3>4, Elements DEF Silent
  <2> QED
    BY <1>1, <2>1, <2>2, Zenon DEF Waiting
<1>2. CASE LastWatch(t, rs, A)
  <2>1. PICK b \in Seq(Request), a \in Seq(Request), tok \in Tokens :
          /\ rs = (b \o <<Watch(t, tok)>>) \o a
          /\ Silent(a, Asked(t)) /\ Consistent(tok, A)
    BY <1>2 DEF LastWatch
  <2>2. \/ Head(rs) = Watch(t, tok) /\ Tail(rs) = a
        \/ b # <<>> /\ Tail(rs) = (Tail(b) \o <<Watch(t, tok)>>) \o a
    <3>1. Watch(t, tok) \in Request
      BY Elements
    <3> DEFINE x == Watch(t, tok)
    <3>2. x \in Request /\ b \in Seq(Request) /\ a \in Seq(Request) /\ rs = (b \o <<x>>) \o a
      BY <2>1, <3>1
    <3> HIDE DEF x
    <3>3. (Head(rs) = x /\ Tail(rs) = a) \/ (b # <<>> /\ Tail(rs) = (Tail(b) \o <<x>>) \o a)
      BY ONLY <3>2, SplitTail, SMTT(60)
    <3> QED
      BY <3>3 DEF x
  <2>3. b # <<>> => Tail(b) \in Seq(Request)
    BY HeadTailProperties
  <2>4. CASE b # <<>> /\ Tail(rs) = (Tail(b) \o <<Watch(t, tok)>>) \o a
    <3>1. LastWatch(t, Tail(rs), A)
      BY <2>1, <2>3, <2>4, Zenon DEF LastWatch
    <3> QED
      BY <3>1 DEF Waiting
  <2> QED
    BY <2>1, <2>2, <2>4
<1> QED
  BY <1>1, <1>2 DEF Waiting

\* A target that waits is owed an answer.
LEMMA WaitingIsOwed ==
  ASSUME NEW t \in Target, NEW rs \in Seq(Request), NEW ms \in Seq(Message), NEW A, NEW B,
         NEW served, Waiting(t, rs, ms, A, B, served)
  PROVE  Count(rs, Asked(t)) + Count(ms, Answered(t)) # 0
<1>1. Count(rs, Asked(t)) \in Nat /\ Count(ms, Answered(t)) \in Nat
  BY CountType
<1>2. CASE LastWatch(t, rs, A)
  <2>1. PICK b \in Seq(Request), a \in Seq(Request), tok \in Tokens :
          rs = (b \o <<Watch(t, tok)>>) \o a
    BY <1>2 DEF LastWatch
  <2>2. <<Watch(t, tok)>> \in Seq(Request) /\ ~Silent(<<Watch(t, tok)>>, Asked(t))
    BY Elements DEF Silent
  <2>3. b \o <<Watch(t, tok)>> \in Seq(Request)
    BY <2>2, ConcatProperties
  <2>4. ~Silent(rs, Asked(t))
    BY <2>1, <2>2, <2>3, SilentConcat
  <2>5. Count(rs, Asked(t)) # 0
    BY <2>4, CountType
  <2> QED
    BY <1>1, <2>5
<1>3. ASSUME NEW type \in {"Added", "Rejected"}, LastAnswer(t, ms, type, A, B)
      PROVE  Count(ms, Answered(t)) # 0
  <2>1. PICK b \in Seq(Message), a \in Seq(Message) : ms = (b \o <<Response(type, t)>>) \o a
    BY <1>3 DEF LastAnswer
  <2>2. <<Response(type, t)>> \in Seq(Message) /\ ~Silent(<<Response(type, t)>>, Answered(t))
    BY Elements DEF Silent
  <2>3. b \o <<Response(type, t)>> \in Seq(Message)
    BY <2>2, ConcatProperties
  <2>4. ~Silent(ms, Answered(t))
    BY <2>1, <2>2, <2>3, SilentConcat
  <2> QED
    BY <2>4, CountType
<1> QED
  BY <1>1, <1>2, <1>3 DEF Waiting

\* A Watch behind all other requests is the last.
LEMMA LastWatchLast ==
  ASSUME NEW t \in Target, NEW rs \in Seq(Request), NEW tok \in Tokens, NEW A, Consistent(tok, A)
  PROVE  LastWatch(t, rs \o <<Watch(t, tok)>>, A)
<1>1. rs \o <<Watch(t, tok)>> \in Seq(Request)
  BY Elements, ConcatProperties
<1>2. rs \o <<Watch(t, tok)>> = (rs \o <<Watch(t, tok)>>) \o <<>>
  BY <1>1, ConcatEmptySeq
<1>3. <<>> \in Seq(Request) /\ Silent(<<>>, Asked(t))
  BY DEF Silent
<1> QED
  BY <1>2, <1>3, Zenon DEF LastWatch
-----------------------------------------------------------------------------
(***************************************************************************)
(* The inductive invariant                                                 *)
(***************************************************************************)

WatchTypes == WatchTypeOK /\ requests \in Seq(Request) /\ inbox \in Seq(Message)

\* Nothing is under way without a connection.
Closed ==
  ~open => /\ requests = <<>> /\ inbox = <<>>
           /\ serving = {} /\ ~unsettled /\ DOMAIN states = {} /\ resets = {}

\* The changes of a target fit its view, also while it is not active.
Fit(state, A) ==
  \A d \in Doc : /\ state.changes[d] \in {"Modified", "Removed"} => d \in A
                 /\ state.changes[d] = "Added" => d \notin A
ChangesFit == \A t \in DOMAIN states : Fit(states[t], synced[t])

\* What is mended or was never broken has a token that fits its documents, in the
\* LocalStore and in RemoteStore.
TokensFit ==
  /\ \A t \in current : token[t] # NoToken
  /\ \A t \in Target : trust[t] = "sound" => Consistent(token[t], synced[t])
  /\ \A t \in listens : trust[t] # "misled" => Consistent(resume[t], synced[t])

\* The view with the changes not raised yet.
Shown(state, A) ==
  (A \union {d \in Doc : state.changes[d] = "Added"}) \ {d \in Doc : state.changes[d] = "Removed"}

Waits(t) == Waiting(t, requests, inbox, synced[t], matches[t], t \in serving)

\* All answers are here: the inbox is Right for the view, unless t is reset.
Flowing(t) ==
  /\ t \in DOMAIN states /\ states[t].outstanding = 0 /\ t \in serving
  /\ t \notin resets => Right(t, inbox, Shown(states[t], synced[t]), matches[t])

Flow ==
  open => \A t \in listens \ overtaken : trust[t] # "misled" => Waits(t) \/ Flowing(t)

WatchInv == WatchTypes /\ Closed /\ OutstandingIsOwed /\ ChangesFit /\ TokensFit /\ Flow
-----------------------------------------------------------------------------
(***************************************************************************)
(* The books of the aggregator                                             *)
(***************************************************************************)

Booked(s) == DOMAIN s \subseteq Target /\ \A t \in DOMAIN s : s[t] \in TargetState

\* A new target awaits no answer and changes nothing in the view.
LEMMA FreshState ==
  /\ Fresh \in TargetState /\ Fresh.outstanding = 0
  /\ \A A : Fit(Fresh, A) /\ Shown(Fresh, A) = A
<1>1. /\ Fresh \in TargetState /\ Fresh.outstanding = 0 /\ Fresh.current = FALSE
      /\ \A d \in Doc : Fresh.changes[d] = ""
  BY DEF Fresh, TargetState
<1>2. \A A : Fit(Fresh, A) /\ Shown(Fresh, A) = A
  BY <1>1 DEF Fit, Shown
<1> QED
  BY <1>1, <1>2

\* A target's state, set and looked up.
LEMMA WithState ==
  ASSUME NEW s, Booked(s), NEW t \in Target, NEW x \in TargetState
  PROVE  /\ At(s, t) \in TargetState
         /\ Booked(With(s, t, x)) /\ t \in DOMAIN With(s, t, x) /\ With(s, t, x)[t] = x
         /\ DOMAIN With(s, t, x) = DOMAIN s \union {t}
         /\ \A u \in DOMAIN s : u # t => With(s, t, x)[u] = s[u]
         /\ At(With(s, t, x), t) = x
         /\ \A u : u # t => At(With(s, t, x), u) = At(s, u)
BY FreshState DEF Booked, With, At

\* A target's state taken away.
LEMMA WithoutState ==
  ASSUME NEW s, Booked(s), NEW t \in Target
  PROVE  /\ Booked(Without(s, t)) /\ DOMAIN Without(s, t) = DOMAIN s \ {t}
         /\ \A u \in DOMAIN s : u # t => Without(s, t)[u] = s[u]
         /\ At(Without(s, t), t) = Fresh
         /\ \A u : u # t => At(Without(s, t), u) = At(s, u)
BY DEF Booked, Without, At

\* The parts of a state, changed one at a time.
LEMMA ChangedState ==
  ASSUME NEW x \in TargetState
  PROVE  /\ \A n \in Int : /\ [x EXCEPT !.outstanding = n] \in TargetState
                           /\ [x EXCEPT !.outstanding = n].outstanding = n
                           /\ [x EXCEPT !.outstanding = n].changes = x.changes
         /\ [x EXCEPT !.current = TRUE] \in TargetState
         /\ [x EXCEPT !.current = TRUE].outstanding = x.outstanding
         /\ [x EXCEPT !.current = TRUE].changes = x.changes
         /\ [x EXCEPT !.changes = Fresh.changes] \in TargetState
         /\ [x EXCEPT !.changes = Fresh.changes].outstanding = x.outstanding
         /\ [x EXCEPT !.changes = Fresh.changes].changes = Fresh.changes
<1>1. Fresh.changes \in [Doc -> {"", "Added", "Modified", "Removed"}]
  BY FreshState DEF TargetState
<1>2. \A n \in Int : /\ [x EXCEPT !.outstanding = n] \in TargetState
                     /\ [x EXCEPT !.outstanding = n].outstanding = n
                     /\ [x EXCEPT !.outstanding = n].changes = x.changes
  BY DEF TargetState
<1>3. /\ [x EXCEPT !.current = TRUE] \in TargetState
      /\ [x EXCEPT !.current = TRUE].outstanding = x.outstanding
      /\ [x EXCEPT !.current = TRUE].changes = x.changes
  BY DEF TargetState
<1>4. /\ [x EXCEPT !.changes = Fresh.changes] \in TargetState
      /\ [x EXCEPT !.changes = Fresh.changes].outstanding = x.outstanding
      /\ [x EXCEPT !.changes = Fresh.changes].changes = Fresh.changes
  BY <1>1 DEF TargetState
<1> QED
  BY <1>2, <1>3, <1>4

Marked(x, d, c) == [x EXCEPT !.changes[d] = c]
Plus(S, d) == S \union {d}
Minus(S, d) == S \ {d}
Enters(d, c, A) == (d \in A => c = "Modified") /\ (d \notin A => c = "Added")
Leaves(d, c, A) == (d \in A => c = "Removed") /\ (d \notin A => c = "")

\* A document's change in a state, and what the view shows with it.
LEMMA DocumentChanged ==
  ASSUME NEW x \in TargetState, NEW d \in Doc, NEW A \in SUBSET Doc, Fit(x, A),
         NEW c \in {"", "Added", "Modified", "Removed"}
  PROVE  /\ Marked(x, d, c) \in TargetState
         /\ Marked(x, d, c).outstanding = x.outstanding
         /\ Enters(d, c, A) =>
              /\ Fit(Marked(x, d, c), A)
              /\ Shown(Marked(x, d, c), A) = Plus(Shown(x, A), d)
         /\ Leaves(d, c, A) =>
              /\ Fit(Marked(x, d, c), A)
              /\ Shown(Marked(x, d, c), A) = Minus(Shown(x, A), d)
<1> DEFINE y == Marked(x, d, c)
<1>1. /\ y \in TargetState /\ y.outstanding = x.outstanding
      /\ y.changes[d] = c /\ \A e \in Doc \ {d} : y.changes[e] = x.changes[e]
  BY DEF TargetState, Marked
<1> HIDE DEF y
<1>2. ASSUME Enters(d, c, A)
      PROVE  Fit(y, A) /\ Shown(y, A) = Plus(Shown(x, A), d)
  BY <1>1, <1>2 DEF Fit, Shown, Enters, Plus
<1>3. ASSUME Leaves(d, c, A)
      PROVE  Fit(y, A) /\ Shown(y, A) = Minus(Shown(x, A), d)
  BY <1>1, <1>3 DEF Fit, Shown, Leaves, Minus
<1> QED
  BY <1>1, <1>2, <1>3 DEF y

\* A target that starts over shows nothing.
LEMMA StateReset ==
  ASSUME NEW t, synced[t] \in SUBSET Doc
  PROVE  /\ ResetState(t) \in TargetState /\ ResetState(t).outstanding = 0
         /\ Fit(ResetState(t), synced[t]) /\ Shown(ResetState(t), synced[t]) = {}
<1> DEFINE y == ResetState(t)
           f == [d \in Doc |-> IF d \in synced[t] THEN "Removed" ELSE ""]
<1>1. /\ y \in TargetState /\ y.outstanding = 0
      /\ \A d \in Doc : y.changes[d] = IF d \in synced[t] THEN "Removed" ELSE ""
  <2>1. f \in [Doc -> {"", "Added", "Modified", "Removed"}]
    OBVIOUS
  <2>2. y = [Fresh EXCEPT !.changes = f]
    BY DEF ResetState
  <2>3. \A d \in Doc : f[d] = IF d \in synced[t] THEN "Removed" ELSE ""
    OBVIOUS
  <2> HIDE DEF f, y
  <2>4. y \in TargetState /\ y.outstanding = 0 /\ y.changes = f
    BY <2>1, <2>2, FreshState DEF TargetState
  <2> QED
    BY <2>3, <2>4
<1> HIDE DEF y
<1>2. Fit(y, synced[t]) /\ Shown(y, synced[t]) = {}
  BY <1>1 DEF Fit, Shown
<1> QED
  BY <1>1, <1>2 DEF y

\* What two states with the same changes have in common.
LEMMA SameChanges ==
  ASSUME NEW x, NEW y, x.changes = y.changes, NEW A
  PROVE  (Fit(x, A) <=> Fit(y, A)) /\ Shown(x, A) = Shown(y, A)
BY DEF Fit, Shown
-----------------------------------------------------------------------------
(***************************************************************************)
(* One message read                                                        *)
(***************************************************************************)

\* A target whose answers are all here and that the user listens to.
Listening(u) == u \in DOMAIN states /\ u \in listens /\ states[u].outstanding = 0

\* The books s after the message are right: an answer is counted, and the view of
\* a target listened to shows what the message says of it.
ReadsTo(s) ==
  /\ Booked(s)
  /\ \A u \in Target :
       At(s, u).outstanding = At(states, u).outstanding - (IF Msg \in Answered(u) THEN 1 ELSE 0)
  /\ \A u \in DOMAIN s : Fit(s[u], synced[u])
  /\ \A u \in Target : Listening(u) /\ Msg \notin Answered(u) =>
       /\ u \in DOMAIN s
       /\ ~Mismatch(u, Msg, Shown(states[u], synced[u])) =>
            Shown(s[u], synced[u]) = Apply(u, Msg, Shown(states[u], synced[u]))
  /\ \A u \in listens :
       /\ Msg = Response("Added", u) /\ At(states, u).outstanding = 1
       => u \in DOMAIN s /\ Shown(s[u], synced[u]) = synced[u]

\* The message in front, and the state of its target.
LEMMA MessageRead ==
  ASSUME WatchTypes, ChangesFit, inbox # <<>>, Msg.type # "Snapshot"
  PROVE  /\ Msg \in Message /\ Msg.target \in Target /\ Booked(states)
         /\ At(states, Msg.target) \in TargetState
         /\ synced[Msg.target] \in SUBSET Doc
         /\ Fit(At(states, Msg.target), synced[Msg.target])
         /\ Msg.target \in DOMAIN states => At(states, Msg.target) = states[Msg.target]
         /\ Msg.target \notin DOMAIN states => At(states, Msg.target) = Fresh
         /\ \A u : About(u, Msg) <=> u = Msg.target
<1>1. Msg \in Message
  BY HeadTailProperties DEF WatchTypes, Msg
<1>2. Msg.target \in Target
  BY <1>1 DEF Message
<1>3. Booked(states) /\ synced[Msg.target] \in SUBSET Doc
  BY <1>2 DEF WatchTypes, WatchTypeOK, Booked
<1>4. At(states, Msg.target) \in TargetState /\ Fit(At(states, Msg.target), synced[Msg.target])
  BY <1>2, <1>3, FreshState DEF At, Booked, ChangesFit
<1> QED
  BY <1>1, <1>2, <1>3, <1>4 DEF At, About

\* A message that is no answer, kept in the state of its target.
LEMMA TargetReads ==
  ASSUME WatchTypes, ChangesFit, inbox # <<>>,
         Msg.type \in {"In", "Out", "Current", "Reset", "Filter"},
         NEW t, t = Msg.target, NEW x \in TargetState, x.outstanding = At(states, t).outstanding,
         Fit(x, synced[t]),
         Listening(t) /\ ~Mismatch(t, Msg, Shown(states[t], synced[t])) =>
           Shown(x, synced[t]) = Apply(t, Msg, Shown(states[t], synced[t]))
  PROVE  ReadsTo(With(states, t, x))
<1> DEFINE s == With(states, t, x)
<1>1. /\ t \in Target /\ Booked(states) /\ \A u : About(u, Msg) <=> u = t
  BY MessageRead
<1>2. \A u : Msg \notin Answered(u) /\ Msg # Response("Added", u)
  BY DEF Answered, Response
<1>3. /\ Booked(s) /\ t \in DOMAIN s /\ s[t] = x /\ DOMAIN s = DOMAIN states \union {t}
      /\ \A u \in DOMAIN states : u # t => s[u] = states[u]
      /\ At(s, t) = x /\ \A u : u # t => At(s, u) = At(states, u)
  <2>1. Booked(states) /\ t \in Target /\ x \in TargetState
    BY <1>1
  <2> QED
    BY ONLY <2>1, WithState
<1> HIDE DEF s
<1>4. \A u \in Target : At(s, u).outstanding = At(states, u).outstanding - 0
  <2>1. \A u \in Target : At(states, u).outstanding \in Int
    BY <1>1, WithState DEF TargetState
  <2> QED
    BY <1>3, <2>1
<1>5. \A u \in DOMAIN s : Fit(s[u], synced[u])
  BY <1>3 DEF ChangesFit
<1>6. ASSUME NEW u \in Target, Listening(u)
      PROVE  /\ u \in DOMAIN s
             /\ ~Mismatch(u, Msg, Shown(states[u], synced[u])) =>
                  Shown(s[u], synced[u]) = Apply(u, Msg, Shown(states[u], synced[u]))
  <2>1. CASE u = t
    BY <1>3, <1>6, <2>1
  <2>2. CASE u # t
    BY <1>1, <1>3, <1>6, <2>2 DEF Apply, Listening
  <2> QED
    BY <2>1, <2>2
<1> QED
  BY <1>2, <1>3, <1>4, <1>5, <1>6 DEF ReadsTo, s

\* A message that is ignored.
LEMMA NothingReads ==
  ASSUME WatchTypes, ChangesFit, inbox # <<>>,
         Msg.type \in {"In", "Out", "Current", "Reset", "Filter"},
         NEW t, t = Msg.target,
         Listening(t) /\ ~Mismatch(t, Msg, Shown(states[t], synced[t])) =>
           Shown(states[t], synced[t]) = Apply(t, Msg, Shown(states[t], synced[t]))
  PROVE  ReadsTo(states)
<1>1. /\ t \in Target /\ Booked(states) /\ \A u : About(u, Msg) <=> u = t
  BY MessageRead
<1>2. \A u : Msg \notin Answered(u) /\ Msg # Response("Added", u)
  BY DEF Answered, Response
<1>3. \A u \in Target : At(states, u).outstanding = At(states, u).outstanding - 0
  <2>1. \A u \in Target : At(states, u) \in TargetState
    BY <1>1, WithState, FreshState
  <2>2. \A u \in Target : At(states, u).outstanding \in Int
    BY <2>1 DEF TargetState
  <2> QED
    BY <2>2
<1>4. ASSUME NEW u \in Target, Listening(u)
      PROVE  /\ u \in DOMAIN states
             /\ ~Mismatch(u, Msg, Shown(states[u], synced[u])) =>
                  Shown(states[u], synced[u]) = Apply(u, Msg, Shown(states[u], synced[u]))
  <2>1. CASE u = t
    BY <1>4, <2>1 DEF Listening
  <2>2. CASE u # t
    BY <1>1, <1>4, <2>2 DEF Apply, Listening
  <2> QED
    BY <2>1, <2>2
<1> QED
  BY <1>1, <1>2, <1>3, <1>4 DEF ReadsTo, ChangesFit

\* A document of a target.
LEMMA DocumentReads ==
  ASSUME WatchTypes, ChangesFit, inbox # <<>>
  PROVE  /\ Msg.type = "In" => ReadsTo(AddDocumentToTarget(Msg.target, Msg.doc))
         /\ Msg.type = "Out" => ReadsTo(RemoveDocumentFromTarget(Msg.target, Msg.doc))
<1> DEFINE t == Msg.target
           d == Msg.doc
           x == At(states, t)
           A == synced[t]
<1> SUFFICES ASSUME Msg.type \in {"In", "Out"}
             PROVE  /\ Msg.type = "In" => ReadsTo(AddDocumentToTarget(t, d))
                    /\ Msg.type = "Out" => ReadsTo(RemoveDocumentFromTarget(t, d))
  OBVIOUS
<1>1. /\ Msg \in Message /\ x \in TargetState /\ A \in SUBSET Doc /\ Fit(x, A)
      /\ t \in DOMAIN states => x = states[t]
      /\ About(t, Msg)
  BY MessageRead
<1>2. d \in Doc
  BY <1>1 DEF Message
<1>3. \A B : /\ Msg.type = "In" => Apply(t, Msg, B) = B \union {d}
             /\ Msg.type = "Out" => Apply(t, Msg, B) = B \ {d}
  BY <1>1 DEF Apply
<1>4. ASSUME NEW c \in {"", "Added", "Modified", "Removed"},
             \/ Msg.type = "In" /\ Enters(d, c, A)
             \/ Msg.type = "Out" /\ Leaves(d, c, A)
      PROVE  ReadsTo(AddDocumentChange(states, t, d, c))
  <2> DEFINE y == Marked(x, d, c)
  <2>1. /\ y \in TargetState /\ y.outstanding = x.outstanding /\ Fit(y, A)
        /\ Msg.type = "In" => Shown(y, A) = Plus(Shown(x, A), d)
        /\ Msg.type = "Out" => Shown(y, A) = Minus(Shown(x, A), d)
    <3>1. /\ x \in TargetState /\ d \in Doc /\ A \in SUBSET Doc /\ Fit(x, A)
          /\ c \in {"", "Added", "Modified", "Removed"}
      BY <1>1, <1>2
    <3> HIDE DEF x, d, A
    <3>2. /\ y \in TargetState /\ y.outstanding = x.outstanding
          /\ Enters(d, c, A) =>
               Fit(y, A) /\ Shown(y, A) = Plus(Shown(x, A), d)
          /\ Leaves(d, c, A) =>
               Fit(y, A) /\ Shown(y, A) = Minus(Shown(x, A), d)
      BY <3>1, DocumentChanged
    <3> HIDE DEF y
    <3> QED
      BY <1>4, <3>2
  <2>2. AddDocumentChange(states, t, d, c) = With(states, t, y)
    BY DEF AddDocumentChange, Marked
  <2> HIDE DEF y
  <2>3. Listening(t) => Shown(y, A) = Apply(t, Msg, Shown(states[t], A))
    BY <1>1, <1>3, <1>4, <2>1 DEF Listening, Plus, Minus
  <2> QED
    BY <2>1, <2>2, <2>3, TargetReads
<1>5. CASE IsActiveTarget(t)
  <2>1. /\ Enters(d, IF d \in A THEN "Modified" ELSE "Added", A)
        /\ Leaves(d, IF d \in A THEN "Removed" ELSE "", A)
    BY DEF Enters, Leaves
  <2>2. /\ Msg.type = "In" => ReadsTo(AddDocumentChange(states, t, d, IF d \in A THEN "Modified" ELSE "Added"))
        /\ Msg.type = "Out" => ReadsTo(AddDocumentChange(states, t, d, IF d \in A THEN "Removed" ELSE ""))
    BY <1>4, <2>1
  <2> QED
    BY <1>5, <2>2 DEF AddDocumentToTarget, RemoveDocumentFromTarget
<1>6. CASE ~IsActiveTarget(t)
  <2>1. ~Listening(t)
    BY <1>6 DEF Listening, IsActiveTarget
  <2>2. ReadsTo(states)
    BY <2>1, NothingReads
  <2> QED
    BY <1>6, <2>2 DEF AddDocumentToTarget, RemoveDocumentFromTarget
<1> QED
  BY <1>5, <1>6

\* A target that is current, whether its view is listened to or not.
LEMMA CurrentReads ==
  ASSUME WatchTypes, ChangesFit, inbox # <<>>, Msg.type = "Current"
  PROVE  ReadsTo(IF IsActiveTarget(Msg.target)
                   THEN With(states, Msg.target, [At(states, Msg.target) EXCEPT !.current = TRUE])
                   ELSE With(states, Msg.target, At(states, Msg.target)))
<1> DEFINE t == Msg.target
           x == At(states, t)
           y == [x EXCEPT !.current = TRUE]
<1>1. /\ x \in TargetState /\ Fit(x, synced[t]) /\ (t \in DOMAIN states => x = states[t])
      /\ \A A : Apply(t, Msg, A) = A
  BY MessageRead DEF Apply
<1>2. y \in TargetState /\ y.outstanding = x.outstanding /\ y.changes = x.changes
  BY <1>1, ChangedState
<1> HIDE DEF x, y
<1>3. Fit(y, synced[t]) /\ Shown(y, synced[t]) = Shown(x, synced[t])
  BY <1>1, <1>2, SameChanges
<1>4. Listening(t) => /\ Shown(x, synced[t]) = Apply(t, Msg, Shown(states[t], synced[t]))
                      /\ Shown(y, synced[t]) = Apply(t, Msg, Shown(states[t], synced[t]))
  BY <1>1, <1>3, Zenon DEF Listening
<1>5. ReadsTo(With(states, t, y))
  BY <1>2, <1>3, <1>4, TargetReads DEF x
<1>6. ReadsTo(With(states, t, x))
  BY <1>1, <1>4, TargetReads DEF x
<1> QED
  BY <1>5, <1>6 DEF x, y

\* A target the backend starts over.
LEMMA ResetReads ==
  ASSUME WatchTypes, ChangesFit, inbox # <<>>, Msg.type = "Reset"
  PROVE  ReadsTo(With(states, Msg.target, IF IsActiveTarget(Msg.target) THEN ResetState(Msg.target)
                                          ELSE At(states, Msg.target)))
<1> DEFINE t == Msg.target
           x == At(states, t)
           y == ResetState(t)
<1>1. /\ x \in TargetState /\ Fit(x, synced[t]) /\ (t \in DOMAIN states => x = states[t])
      /\ (t \notin DOMAIN states => x = Fresh)
      /\ synced[t] \in SUBSET Doc /\ \A A : Apply(t, Msg, A) = {}
  BY MessageRead DEF Apply
<1>2. /\ y \in TargetState /\ y.outstanding = 0 /\ Fit(y, synced[t])
      /\ Shown(y, synced[t]) = {}
  BY <1>1, StateReset
<1>3. IsActiveTarget(t) => x.outstanding = 0
  BY <1>1, FreshState DEF IsActiveTarget
<1>4. ~IsActiveTarget(t) => ~Listening(t)
  BY DEF IsActiveTarget, Listening
<1> HIDE DEF x, y
<1>5. CASE IsActiveTarget(t)
  <2>1. ReadsTo(With(states, t, y))
    BY <1>1, <1>2, <1>3, <1>5, TargetReads DEF x
  <2> QED
    BY <1>5, <2>1 DEF y
<1>6. CASE ~IsActiveTarget(t)
  <2>1. ReadsTo(With(states, t, x))
    BY <1>1, <1>4, <1>6, TargetReads DEF x
  <2> QED
    BY <1>6, <2>1 DEF x
<1> QED
  BY <1>5, <1>6

\* The count that a filter is compared with is that of the documents shown.
LEMMA CountOfShown ==
  ASSUME WatchTypes, ChangesFit, NEW t \in DOMAIN states
  PROVE  CurrentCount(t) = Cardinality(Shown(states[t], synced[t]))
<1> DEFINE A == synced[t]
           new == Changed(t, "Added")
           gone == Changed(t, "Removed")
<1>1. A \in SUBSET Doc /\ Fit(states[t], A)
  BY DEF WatchTypes, WatchTypeOK, ChangesFit
<1>2. new \in SUBSET Doc /\ gone \in SUBSET A /\ A \intersect new = {} /\ gone \intersect new = {}
  BY <1>1 DEF Changed, Fit
<1>3. Shown(states[t], A) = (A \union new) \ gone
  BY DEF Shown, Changed
<1> HIDE DEF A, new, gone
<1>4. /\ IsFiniteSet(A) /\ IsFiniteSet(new) /\ IsFiniteSet(gone)
      /\ Cardinality(A) \in Nat /\ Cardinality(new) \in Nat /\ Cardinality(gone) \in Nat
  <2>1. IsFiniteSet(A) /\ IsFiniteSet(new)
    BY <1>1, <1>2, BoundsAssumption, FS_Subset
  <2>2. IsFiniteSet(gone)
    BY <1>2, <2>1, FS_Subset
  <2> QED
    BY <2>1, <2>2, FS_CardinalityType
<1>5. /\ IsFiniteSet(A \union new)
      /\ Cardinality(A \union new) = Cardinality(A) + Cardinality(new) - Cardinality({})
  BY <1>2, <1>4, FS_Union
<1>6. (A \union new) \intersect gone = gone
  BY <1>2
<1>7. Cardinality((A \union new) \ gone) = Cardinality(A \union new) - Cardinality(gone)
  <2> DEFINE all == A \union new
  <2>1. IsFiniteSet(all) /\ all \intersect gone = gone
    BY <1>5, <1>6
  <2> HIDE DEF all
  <2>2. Cardinality(all \ gone) = Cardinality(all) - Cardinality(all \intersect gone)
    BY <2>1, FS_Difference
  <2> QED
    BY <2>1, <2>2 DEF all
<1> QED
  BY <1>3, <1>4, <1>5, <1>7, FS_EmptySet DEF CurrentCount, A, new, gone

\* A filter: a wrong count resets the target.
LEMMA FilterReads ==
  ASSUME WatchTypes, ChangesFit, inbox # <<>>, Msg.type = "Filter", NEW wrong \in BOOLEAN,
         wrong <=> IsActiveTarget(Msg.target) /\ CurrentCount(Msg.target) # Msg.count
  PROVE  /\ ReadsTo(IF wrong THEN With(states, Msg.target, ResetState(Msg.target)) ELSE states)
         /\ \A u \in Target :
              Listening(u) /\ Mismatch(u, Msg, Shown(states[u], synced[u])) => u = Msg.target /\ wrong
<1> DEFINE t == Msg.target
           x == At(states, t)
           y == ResetState(t)
<1>1. /\ (t \in DOMAIN states => x = states[t]) /\ (t \notin DOMAIN states => x = Fresh)
      /\ synced[t] \in SUBSET Doc /\ \A A : Apply(t, Msg, A) = A
      /\ \A u : About(u, Msg) <=> u = t
  BY MessageRead DEF Apply
<1>2. /\ y \in TargetState /\ y.outstanding = 0 /\ Fit(y, synced[t])
  BY <1>1, StateReset
<1>3. IsActiveTarget(t) => x.outstanding = 0
  BY <1>1, FreshState DEF IsActiveTarget
<1>4. Listening(t) => IsActiveTarget(t) /\ CurrentCount(t) = Cardinality(Shown(states[t], synced[t]))
  BY CountOfShown DEF IsActiveTarget, Listening
<1>5. Listening(t) => (wrong <=> Mismatch(t, Msg, Shown(states[t], synced[t])))
  BY <1>1, <1>4 DEF Mismatch
<1> HIDE DEF x, y
<1>6. CASE wrong
  <2>1. ReadsTo(With(states, t, y))
    BY <1>2, <1>3, <1>5, <1>6, TargetReads DEF x
  <2> QED
    BY <1>1, <1>6, <2>1 DEF Mismatch, y
<1>7. CASE ~wrong
  <2>1. ReadsTo(states)
    BY <1>1, NothingReads
  <2> QED
    BY <1>1, <1>5, <1>7, <2>1 DEF Mismatch
<1> QED
  BY <1>6, <1>7

\* The books of the targets an answer is not about.
LEMMA AnswerReads ==
  ASSUME WatchTypes, ChangesFit, inbox # <<>>, Msg.type \in {"Added", "Removed"},
         NEW t, t = Msg.target, NEW s, Booked(s),
         At(s, t).outstanding = At(states, t).outstanding - 1,
         t \in DOMAIN s => Fit(s[t], synced[t]),
         DOMAIN states \subseteq DOMAIN s \union {t}, DOMAIN s \subseteq DOMAIN states \union {t},
         \A u \in DOMAIN states : u # t => s[u] = states[u],
         Msg.type = "Added" /\ At(states, t).outstanding = 1 =>
           t \in DOMAIN s /\ Shown(s[t], synced[t]) = synced[t]
  PROVE  ReadsTo(s)
<1>1. /\ Msg \in Message /\ t \in Target /\ Booked(states) /\ \A u : About(u, Msg) <=> u = t
  BY MessageRead
<1>2. ASSUME NEW u \in Target PROVE Msg \in Answered(u) <=> u = t
  BY <1>1, Elements
<1>3. \A u : Msg = Response("Added", u) => u = t /\ Msg.type = "Added"
  BY DEF Response
<1>4. ASSUME NEW u \in Target, u # t PROVE At(s, u) = At(states, u)
  BY <1>4 DEF At
<1>5. \A u \in Target : At(states, u).outstanding \in Int
  <2>1. \A u \in Target : At(states, u) \in TargetState
    BY <1>1, WithState, FreshState
  <2> QED
    BY <2>1 DEF TargetState
<1>6. \A u \in Target :
        At(s, u).outstanding = At(states, u).outstanding - (IF Msg \in Answered(u) THEN 1 ELSE 0)
  BY <1>2, <1>4, <1>5
<1>7. ASSUME NEW u \in DOMAIN s PROVE Fit(s[u], synced[u])
  <2>1. CASE u = t
    BY <2>1
  <2>2. CASE u # t
    BY <2>2 DEF ChangesFit
  <2> QED
    BY <2>1, <2>2
<1>8. ASSUME NEW u \in Target, Listening(u), Msg \notin Answered(u)
      PROVE  u \in DOMAIN s /\ Shown(s[u], synced[u]) = Apply(u, Msg, Shown(states[u], synced[u]))
  BY <1>1, <1>2, <1>8 DEF Listening, Apply
<1> QED
  BY <1>3, <1>6, <1>7, <1>8 DEF ReadsTo

\* The last answer awaited makes a target new again.
LEMMA AddedReads ==
  ASSUME WatchTypes, ChangesFit, inbox # <<>>, Msg.type = "Added"
  PROVE  ReadsTo(TargetAdded(Msg.target))
<1> DEFINE t == Msg.target
           x == At(states, t)
           y == [x EXCEPT !.outstanding = @ - 1]
           z == [y EXCEPT !.changes = Fresh.changes]
           new == IF y.outstanding = 0 THEN z ELSE y
<1>1. /\ t \in Target /\ Booked(states) /\ x \in TargetState /\ Fit(x, synced[t])
  BY MessageRead
<1>2. x.outstanding \in Int /\ x.outstanding - 1 \in Int
  <2> HIDE DEF x
  <2>1. x.outstanding \in Int
    BY <1>1 DEF TargetState
  <2> QED
    BY <2>1
<1>3. y \in TargetState /\ y.outstanding = x.outstanding - 1 /\ y.changes = x.changes
  BY <1>1, <1>2, ChangedState
<1> HIDE DEF x, y
<1>4. z \in TargetState /\ z.outstanding = y.outstanding /\ z.changes = Fresh.changes
  BY <1>3, ChangedState
<1> HIDE DEF z
<1>5. Fit(y, synced[t]) /\ Fit(z, synced[t]) /\ Shown(z, synced[t]) = synced[t]
  <2>1. Fit(y, synced[t])
    BY <1>1, <1>3, SameChanges
  <2>2. Fit(z, synced[t]) /\ Shown(z, synced[t]) = synced[t]
    BY <1>4, SameChanges, FreshState
  <2> QED
    BY <2>1, <2>2
<1>6. /\ new \in TargetState /\ new.outstanding = x.outstanding - 1 /\ Fit(new, synced[t])
      /\ x.outstanding = 1 => Shown(new, synced[t]) = synced[t]
  BY <1>2, <1>3, <1>4, <1>5
<1>7. TargetAdded(t) = With(states, t, new)
  BY DEF TargetAdded, x, y, z
<1> HIDE DEF new
<1>8. /\ Booked(With(states, t, new)) /\ With(states, t, new)[t] = new
      /\ DOMAIN With(states, t, new) = DOMAIN states \union {t}
      /\ \A u \in DOMAIN states : u # t => With(states, t, new)[u] = states[u]
      /\ At(With(states, t, new), t) = new
  <2>1. new \in TargetState /\ t \in Target /\ Booked(states)
    BY <1>1, <1>6
  <2> QED
    BY ONLY <2>1, WithState
<1> DEFINE s == With(states, t, new)
<1> HIDE DEF s
<1>9. ReadsTo(s)
  <2>1. /\ Booked(s) /\ s[t] = new /\ DOMAIN s = DOMAIN states \union {t} /\ At(s, t) = new
        /\ \A u \in DOMAIN states : u # t => s[u] = states[u]
    BY <1>8 DEF s
  <2>2. At(s, t).outstanding = At(states, t).outstanding - 1 /\ Fit(s[t], synced[t])
    BY <1>6, <2>1 DEF x
  <2>3. At(states, t).outstanding = 1 => Shown(s[t], synced[t]) = synced[t]
    BY <1>6, <2>1 DEF x
  <2> QED
    BY <2>1, <2>2, <2>3, AnswerReads
<1> QED
  BY <1>7, <1>9 DEF s

\* The last answer awaited takes a target away.
LEMMA RemovedReads ==
  ASSUME WatchTypes, ChangesFit, inbox # <<>>, Msg.type = "Removed"
  PROVE  ReadsTo(TargetRemoved(Msg.target))
<1> DEFINE t == Msg.target
           x == At(states, t)
           y == [x EXCEPT !.outstanding = @ - 1]
<1>1. /\ t \in Target /\ Booked(states) /\ x \in TargetState /\ Fit(x, synced[t])
  BY MessageRead
<1>2. x.outstanding \in Int /\ x.outstanding - 1 \in Int
  <2> HIDE DEF x
  <2>1. x.outstanding \in Int
    BY <1>1 DEF TargetState
  <2> QED
    BY <2>1
<1>3. y \in TargetState /\ y.outstanding = x.outstanding - 1 /\ y.changes = x.changes
  BY <1>1, <1>2, ChangedState
<1>4. TargetRemoved(t) = IF y.outstanding = 0 THEN Without(states, t) ELSE With(states, t, y)
  BY DEF TargetRemoved
<1> HIDE DEF x, y
<1>5. Fit(y, synced[t])
  BY <1>1, <1>3, SameChanges
<1>6. CASE y.outstanding = 0
  <2> DEFINE s == Without(states, t)
  <2>1. /\ Booked(s) /\ DOMAIN s = DOMAIN states \ {t} /\ At(s, t) = Fresh
        /\ \A u \in DOMAIN states : u # t => s[u] = states[u]
    BY <1>1, WithoutState
  <2> HIDE DEF s
  <2>2. At(s, t).outstanding = At(states, t).outstanding - 1 /\ t \notin DOMAIN s
    BY <1>3, <1>6, <2>1, FreshState DEF x
  <2>3. ReadsTo(s)
    BY <2>1, <2>2, AnswerReads
  <2> QED
    BY <1>4, <1>6, <2>3 DEF s
<1>7. CASE y.outstanding # 0
  <2> DEFINE s == With(states, t, y)
  <2>1. /\ Booked(s) /\ s[t] = y /\ DOMAIN s = DOMAIN states \union {t} /\ At(s, t) = y
        /\ \A u \in DOMAIN states : u # t => s[u] = states[u]
    <3>1. y \in TargetState /\ t \in Target /\ Booked(states)
      BY <1>1, <1>3
    <3> QED
      BY ONLY <3>1, WithState
  <2> HIDE DEF s
  <2>2. At(s, t).outstanding = At(states, t).outstanding - 1 /\ Fit(s[t], synced[t])
    BY <1>3, <1>5, <2>1 DEF x
  <2>3. ReadsTo(s)
    BY <2>1, <2>2, AnswerReads
  <2> QED
    BY <1>4, <1>7, <2>3 DEF s
<1> QED
  BY <1>6, <1>7
-----------------------------------------------------------------------------
(***************************************************************************)
(* The responses, but for snapshots and rejections                         *)
(***************************************************************************)

\* A target that is owed no answer does not wait, and has none on its way.
LEMMA WaitingOrFlowing ==
  ASSUME WatchTypes, OutstandingIsOwed, open, NEW t \in Target \ overtaken
  PROVE  /\ Waits(t) => At(states, t).outstanding # 0
         /\ At(states, t).outstanding = 0 => Silent(requests, Asked(t)) /\ Silent(inbox, Answered(t))
<1>1. /\ At(states, t).outstanding = Count(requests, Asked(t)) + Count(inbox, Answered(t))
      /\ requests \in Seq(Request) /\ inbox \in Seq(Message)
  BY DEF OutstandingIsOwed, Answers, WatchTypes
<1>2. Waits(t) => Count(requests, Asked(t)) + Count(inbox, Answered(t)) # 0
  BY <1>1, WaitingIsOwed DEF Waits
<1>3. /\ Count(requests, Asked(t)) \in Nat /\ Count(inbox, Answered(t)) \in Nat
      /\ Count(requests, Asked(t)) = 0 <=> Silent(requests, Asked(t))
      /\ Count(inbox, Answered(t)) = 0 <=> Silent(inbox, Answered(t))
  BY <1>1, CountType
<1> QED
  BY <1>1, <1>2, <1>3

\* A message read, of any kind but a snapshot and a rejection: if the books after it
\* are right for it, the invariant is kept (OnWatchStreamChange).
LEMMA ReadStep ==
  ASSUME WatchInv, inbox # <<>>, Msg.type \notin {"Snapshot", "Rejected"}, inbox' = Tail(inbox),
         ReadsTo(states'), resets \subseteq resets', resets' \subseteq Target,
         \A u \in Target :
           Listening(u) /\ Mismatch(u, Msg, Shown(states[u], synced[u])) => u \in resets',
         UNCHANGED <<listens, token, resume, synced, current, open, requests, backend, history>>
  PROVE  WatchInv'
<1>1. /\ WatchTypes /\ Closed /\ OutstandingIsOwed /\ ChangesFit /\ TokensFit /\ Flow
      /\ requests \in Seq(Request) /\ inbox \in Seq(Message) /\ Tail(inbox) \in Seq(Message)
      /\ Msg \in Message /\ open
  BY HeadTailProperties DEF WatchInv, WatchTypes, Closed, Msg
<1>2. WatchTypes'
  BY <1>1 DEF WatchTypes, WatchTypeOK, ReadsTo, Booked, backend, history
<1>3. Closed' /\ TokensFit'
  BY <1>1 DEF Closed, TokensFit, backend, history
<1>4. ChangesFit'
  BY DEF ChangesFit, ReadsTo
<1>5. OutstandingIsOwed'
  <2> SUFFICES ASSUME NEW t \in Target \ overtaken
               PROVE  At(states', t).outstanding =
                        Count(requests, Asked(t)) + Count(Tail(inbox), Answered(t))
    BY DEF OutstandingIsOwed, Answers, history
  <2>1. At(states, t).outstanding = Count(requests, Asked(t)) + Count(inbox, Answered(t))
    BY <1>1 DEF OutstandingIsOwed, Answers
  <2>2. At(states', t).outstanding =
          At(states, t).outstanding - (IF Msg \in Answered(t) THEN 1 ELSE 0)
    BY DEF ReadsTo
  <2>3. Count(Tail(inbox), Answered(t)) =
          Count(inbox, Answered(t)) - (IF Msg \in Answered(t) THEN 1 ELSE 0)
    BY <1>1, CountTail DEF Msg
  <2>4. Count(requests, Asked(t)) \in Nat /\ Count(inbox, Answered(t)) \in Nat
    BY <1>1, CountType
  <2> QED
    BY <2>1, <2>2, <2>3, <2>4
<1>6. ASSUME NEW t \in listens \ overtaken, trust[t] # "misled"
      PROVE  Waits(t)' \/ Flowing(t)'
  <2>1. t \in Target /\ t \in Target \ overtaken /\ Booked(states)
    BY <1>1, <1>6 DEF WatchTypes, WatchTypeOK, Booked
  <2>2. At(states, t).outstanding = Count(requests, Asked(t)) + Count(inbox, Answered(t))
    BY <1>1, <2>1 DEF OutstandingIsOwed, Answers
  <2>3. CASE Waits(t)
    <3>1. \/ Waiting(t, requests, Tail(inbox), synced[t], matches[t], t \in serving)
          \/ \E type \in {"Added", "Rejected"} :
               /\ Msg = Response(type, t)
               /\ Silent(requests, Asked(t)) /\ Silent(Tail(inbox), Answered(t))
               /\ type = "Added" => t \in serving /\ Right(t, Tail(inbox), synced[t], matches[t])
      BY <1>1, <2>1, <2>3, WaitingRead DEF Waits, Msg
    <3>2. CASE Waiting(t, requests, Tail(inbox), synced[t], matches[t], t \in serving)
      BY <3>2 DEF Waits, backend
    <3>3. ASSUME NEW type \in {"Added", "Rejected"}, Msg = Response(type, t),
                 Silent(requests, Asked(t)), Silent(Tail(inbox), Answered(t)),
                 type = "Added" => t \in serving /\ Right(t, Tail(inbox), synced[t], matches[t])
          PROVE  Flowing(t)'
      <4>1. type = "Added"
        BY <3>3 DEF Response
      <4>2. Count(requests, Asked(t)) = 0 /\ Count(Tail(inbox), Answered(t)) = 0
        BY <1>1, <3>3, CountType
      <4>3. Msg \in Answered(t)
        BY <2>1, <3>3, Elements
      <4>4. Count(inbox, Answered(t)) = 1
        <5>1. Count(Tail(inbox), Answered(t)) =
                Count(inbox, Answered(t)) - (IF Msg \in Answered(t) THEN 1 ELSE 0)
          BY <1>1, CountTail DEF Msg
        <5>2. Count(inbox, Answered(t)) \in Nat
          BY <1>1, CountType
        <5> QED
          BY <4>2, <4>3, <5>1, <5>2
      <4>5. At(states, t).outstanding = 1
        BY <2>2, <4>2, <4>4
      <4>6. t \in DOMAIN states' /\ Shown(states'[t], synced[t]) = synced[t]
        BY <1>6, <3>3, <4>1, <4>5 DEF ReadsTo
      <4>7. At(states', t).outstanding = 0
        BY <2>1, <4>3, <4>5 DEF ReadsTo
      <4>8. states'[t].outstanding = 0
        BY <4>6, <4>7 DEF At
      <4> QED
        BY <3>3, <4>1, <4>6, <4>8 DEF Flowing, backend
    <3> QED
      BY <3>1, <3>2, <3>3
  <2>4. CASE Flowing(t)
    <3>1. t \in DOMAIN states /\ states[t].outstanding = 0 /\ t \in serving /\ Listening(t)
      BY <1>6, <2>4 DEF Flowing, Listening
    <3>2. At(states, t).outstanding = 0
      BY <3>1 DEF At
    <3>3. Silent(inbox, Answered(t))
      BY <1>1, <2>1, <3>2, WaitingOrFlowing
    <3>4. Msg \notin Answered(t)
      BY <1>1, <3>3, SilentEnds DEF Msg
    <3>5. ASSUME t \notin resets'
          PROVE  /\ t \in DOMAIN states'
                 /\ Right(t, Tail(inbox), Shown(states'[t], synced[t]), matches[t])
      <4>1. ~Mismatch(t, Msg, Shown(states[t], synced[t]))
        BY <2>1, <3>1, <3>5
      <4>2. /\ t \in DOMAIN states'
            /\ Shown(states'[t], synced[t]) = Apply(t, Msg, Shown(states[t], synced[t]))
        BY <2>1, <3>1, <3>4, <4>1 DEF ReadsTo
      <4>3. Right(t, inbox, Shown(states[t], synced[t]), matches[t])
        BY <2>4, <3>5 DEF Flowing
      <4>4. Right(t, Tail(inbox), Apply(t, Msg, Shown(states[t], synced[t])), matches[t])
        BY <1>1, <4>1, <4>3, RightTail DEF Msg
      <4> QED
        BY <4>2, <4>4
    <3>6. t \in DOMAIN states'
      BY <2>1, <3>1, <3>4 DEF ReadsTo
    <3>7. At(states', t).outstanding = 0
      <4> DEFINE a == At(states, t).outstanding
                 b == At(states', t).outstanding
                 n == IF Msg \in Answered(t) THEN 1 ELSE 0
      <4>1. a = 0 /\ n = 0
        BY <3>2, <3>4
      <4>2. b = a - n
        BY <2>1 DEF ReadsTo
      <4> HIDE DEF a, b, n
      <4>3. b = 0
        BY <4>1, <4>2
      <4> QED
        BY <4>3 DEF b
    <3>8. states'[t].outstanding = 0
      BY <3>6, <3>7 DEF At
    <3> QED
      BY <3>1, <3>5, <3>6, <3>8 DEF Flowing, backend
  <2> QED
    BY <1>1, <1>6, <2>3, <2>4 DEF Flow
<1>7. Flow'
  BY <1>6 DEF Flow, history
<1> QED
  BY <1>2, <1>3, <1>4, <1>5, <1>7 DEF WatchInv

\* What is read of another target leaves a target waiting or flowing.
LEMMA OtherTargetReads ==
  ASSUME WatchTypes, inbox # <<>>, NEW t \in Target, Waits(t) \/ Flowing(t),
         ~About(t, Msg), Msg.type # "Snapshot"
  PROVE  \/ Waiting(t, requests, Tail(inbox), synced[t], matches[t], t \in serving)
         \/ /\ t \in DOMAIN states /\ states[t].outstanding = 0 /\ t \in serving
            /\ t \notin resets => Right(t, Tail(inbox), Shown(states[t], synced[t]), matches[t])
<1>1. inbox \in Seq(Message) /\ requests \in Seq(Request)
  BY DEF WatchTypes
<1>2. \A type : Msg # Response(type, t)
  BY DEF Response, About
<1>3. CASE Waits(t)
  BY <1>1, <1>2, <1>3, WaitingRead DEF Waits, Msg
<1>4. CASE Flowing(t)
  <2>1. \A A : Apply(t, Msg, A) = A /\ ~Mismatch(t, Msg, A)
    BY DEF Apply, Mismatch
  <2>2. ASSUME t \notin resets
        PROVE  Right(t, Tail(inbox), Shown(states[t], synced[t]), matches[t])
    <3>1. Right(t, inbox, Shown(states[t], synced[t]), matches[t])
      BY <1>4, <2>2 DEF Flowing
    <3>2. Right(t, Tail(inbox), Apply(t, Msg, Shown(states[t], synced[t])), matches[t])
      BY <1>1, <2>1, <3>1, RightTail DEF Msg
    <3> QED
      BY <2>1, <3>2
  <2> QED
    BY <1>4, <2>2 DEF Flowing
<1> QED
  BY <1>3, <1>4

\* ProcessTargetError: a rejected target goes with its state, or was let go already.
LEMMA RejectedStep ==
  ASSUME WatchInv, Rejected
  PROVE  WatchInv'
<1> DEFINE t == Msg.target
<1>1. /\ WatchTypes /\ Closed /\ OutstandingIsOwed /\ ChangesFit /\ TokensFit /\ Flow
      /\ requests \in Seq(Request) /\ inbox \in Seq(Message)
  BY DEF WatchInv, WatchTypes
<1>2. /\ inbox # <<>> /\ Msg.type = "Rejected" /\ inbox' = Tail(inbox) /\ open
  BY <1>1 DEF Rejected, Arrives, Msg, Closed
<1>3. /\ Msg \in Message /\ Tail(inbox) \in Seq(Message) /\ t \in Target
      /\ \A u : About(u, Msg) <=> u = t
  BY <1>1, <1>2, HeadTailProperties, MessageRead DEF Msg
<1>4. /\ listens' = listens \ {t} /\ current' \subseteq listens' /\ current' \subseteq current
      /\ overtaken \subseteq overtaken'
      /\ Booked(states') /\ DOMAIN states' \subseteq DOMAIN states
      /\ \A u \in DOMAIN states' : states'[u] = states[u]
      /\ \A u \in DOMAIN states : u # t => u \in DOMAIN states'
      /\ \A u : u # t => At(states', u) = At(states, u)
      /\ t \notin overtaken' => At(states, t).outstanding = 1 /\ At(states', t) = Fresh
  <2>1. Booked(states) /\ current \subseteq listens
    BY <1>1 DEF WatchTypes, WatchTypeOK, Booked
  <2>2. CASE t \in listens
    <3>1. /\ listens' = listens \ {t} /\ current' = current \ {t} /\ states' = Without(states, t)
          /\ overtaken' = IF At(states, t).outstanding = 1 THEN overtaken ELSE overtaken \union {t}
      BY <2>2 DEF Rejected
    <3>2. /\ Booked(states') /\ DOMAIN states' = DOMAIN states \ {t}
          /\ \A u \in DOMAIN states : u # t => states'[u] = states[u]
          /\ At(states', t) = Fresh /\ \A u : u # t => At(states', u) = At(states, u)
      BY <1>3, <2>1, <3>1, WithoutState
    <3>3. t \notin overtaken' => At(states, t).outstanding = 1
      BY <3>1
    <3>4. current' \subseteq listens' /\ current' \subseteq current /\ overtaken \subseteq overtaken'
      BY <2>1, <3>1
    <3>5. \A u \in DOMAIN states' : states'[u] = states[u]
      BY <3>2
    <3> QED
      BY <3>1, <3>2, <3>3, <3>4, <3>5
  <2>3. CASE t \notin listens
    <3>1. /\ listens' = listens /\ current' = current /\ states' = states
          /\ overtaken' = overtaken \union {t}
      BY <2>3 DEF Rejected
    <3> QED
      BY <2>1, <2>3, <3>1
  <2> QED
    BY <2>2, <2>3
<1>5. UNCHANGED <<token, resume, synced, open, resets, requests, backend, used, trust>>
  BY DEF Rejected
<1>6. WatchTypes'
  BY <1>1, <1>2, <1>3, <1>4, <1>5 DEF WatchTypes, WatchTypeOK, Booked, backend
<1>7. Closed' /\ ChangesFit' /\ TokensFit'
  BY <1>1, <1>2, <1>4, <1>5 DEF Closed, ChangesFit, TokensFit, backend
<1>8. OutstandingIsOwed'
  <2> SUFFICES ASSUME NEW u \in Target \ overtaken'
               PROVE  At(states', u).outstanding =
                        Count(requests, Asked(u)) + Count(Tail(inbox), Answered(u))
    BY <1>2, <1>5 DEF OutstandingIsOwed, Answers
  <2> DEFINE a == Count(requests, Asked(u))
             n == Count(inbox, Answered(u))
             m == Count(Tail(inbox), Answered(u))
             k == IF Msg \in Answered(u) THEN 1 ELSE 0
  <2>1. At(states, u).outstanding = a + n
    BY <1>1, <1>2, <1>4 DEF OutstandingIsOwed, Answers
  <2>2. m = n - k
    BY <1>1, <1>2, CountTail DEF Msg
  <2>3. a \in Nat /\ n \in Nat
    BY <1>1, CountType
  <2>4. k = IF u = t THEN 1 ELSE 0
    BY <1>2, <1>3, Elements
  <2> HIDE DEF a, n, m, k
  <2>5. CASE u = t
    <3>1. At(states, u).outstanding = 1 /\ At(states', u).outstanding = 0
      BY <1>4, <2>5, FreshState
    <3>2. a + m = 0
      BY <2>1, <2>2, <2>3, <2>4, <2>5, <3>1
    <3> QED
      BY <3>1, <3>2 DEF a, m
  <2>6. CASE u # t
    <3>1. At(states', u).outstanding = a + n /\ m = n
      BY <1>4, <2>1, <2>2, <2>3, <2>4, <2>6
    <3> QED
      BY <3>1 DEF a, m
  <2> QED
    BY <2>5, <2>6
<1>9. ASSUME NEW u \in listens' \ overtaken', trust'[u] # "misled"
      PROVE  Waits(u)' \/ Flowing(u)'
  <2>1. u \in Target /\ u \in listens \ overtaken /\ u # t /\ trust[u] # "misled"
    BY <1>1, <1>4, <1>5, <1>9 DEF WatchTypes, WatchTypeOK
  <2>2. Waits(u) \/ Flowing(u)
    BY <1>1, <1>2, <2>1 DEF Flow
  <2>3. \/ Waiting(u, requests, Tail(inbox), synced[u], matches[u], u \in serving)
        \/ /\ u \in DOMAIN states /\ states[u].outstanding = 0 /\ u \in serving
           /\ u \notin resets => Right(u, Tail(inbox), Shown(states[u], synced[u]), matches[u])
    BY <1>1, <1>2, <1>3, <2>1, <2>2, OtherTargetReads
  <2>4. CASE Waiting(u, requests, Tail(inbox), synced[u], matches[u], u \in serving)
    BY <1>2, <1>5, <2>4 DEF Waits, backend
  <2>5. CASE /\ u \in DOMAIN states /\ states[u].outstanding = 0 /\ u \in serving
             /\ u \notin resets => Right(u, Tail(inbox), Shown(states[u], synced[u]), matches[u])
    <3>1. u \in DOMAIN states' /\ states'[u] = states[u]
      BY <1>4, <2>1, <2>5
    <3> QED
      BY <1>2, <1>5, <2>5, <3>1 DEF Flowing, backend
  <2> QED
    BY <2>3, <2>4, <2>5
<1>10. Flow'
  BY <1>9 DEF Flow
<1> QED
  BY <1>6, <1>7, <1>8, <1>10 DEF WatchInv
-----------------------------------------------------------------------------
(***************************************************************************)
(* Snapshots                                                               *)
(***************************************************************************)

\* A sequence is split at any of its places.
LEMMA SplitAt ==
  ASSUME NEW S, NEW s \in Seq(S), NEW k \in 1..Len(s)
  PROVE  \E b, a \in Seq(S) :
           /\ s = (b \o <<s[k]>>) \o a
           /\ \A M : (\A i \in (k + 1)..Len(s) : s[i] \notin M) => Silent(a, M)
<1> DEFINE n == Len(s)
           b == SubSeq(s, 1, k - 1)
           a == SubSeq(s, k + 1, n)
<1>1. n \in Nat /\ \A i \in 1..n : s[i] \in S
  BY LenProperties
<1>2. s = SubSeq(s, 1, n) /\ SubSeq(s, 1, k) \o a = SubSeq(s, 1, n)
  <2>1. 1 \in 1..(n + 1) /\ k \in 0..n /\ n \in k..n
    BY <1>1
  <2> QED
    BY <2>1, ConcatAdjacentSubSeq, SubSeqFull
<1>3. SubSeq(s, 1, k) = b \o <<s[k]>>
  <2>1. 1 \in 1..n /\ k \in 1..n
    BY <1>1
  <2> QED
    BY <2>1, SubSeqRecursiveSecond
<1>4. b \in Seq(S) /\ a \in Seq(S)
  <2>1. /\ \A i \in 1..(k - 1) : s[i] \in S
        /\ \A i \in (k + 1)..n : s[i] \in S
    BY <1>1
  <2>2. 1 \in Int /\ k - 1 \in Int /\ k + 1 \in Int /\ n \in Int
    BY <1>1
  <2> QED
    BY <2>1, <2>2, SubSeqProperties
<1>5. Len(a) = n - k /\ \A i \in 1..(n - k) : a[i] = s[k + i]
  <2>1. k + 1 \in Int /\ n \in Int /\ \A i \in (k + 1)..n : s[i] \in S
    BY <1>1
  <2>2. /\ Len(a) = IF k + 1 \leq n THEN n - (k + 1) + 1 ELSE 0
        /\ \A i \in 1..(n - (k + 1) + 1) : a[i] = s[(k + 1) + i - 1]
    BY <2>1, SubSeqProperties
  <2> HIDE DEF n, a
  <2> QED
    BY <1>1, <2>2 DEF n
<1>6. ASSUME NEW M, \A i \in (k + 1)..n : s[i] \notin M PROVE Silent(a, M)
  <2> HIDE DEF a, n
  <2>1. ASSUME NEW i \in 1..Len(a) PROVE a[i] \notin M
    <3>1. k + i \in (k + 1)..n /\ a[i] = s[k + i]
      BY <1>1, <1>5
    <3> QED
      BY <1>6, <3>1
  <2> QED
    BY <2>1 DEF Silent
<1> QED
  BY <1>2, <1>3, <1>4, <1>6

\* The targets of a set, in any order, each of them once.
LEMMA SetToSeqsOnce ==
  ASSUME NEW S, IsFiniteSet(S), NEW q \in SetToSeqs(S)
  PROVE  /\ Len(q) \in Nat /\ DOMAIN q = 1..Len(q) /\ \A i \in 1..Len(q) : q[i] \in S
         /\ \A e \in S : \E i \in 1..Len(q) : q[i] = e
         /\ \A i, j \in 1..Len(q) : q[i] = q[j] => i = j
<1> DEFINE n == Cardinality(S)
<1>1. n \in Nat
  BY FS_CardinalityType
<1>2. q \in [1..n -> S] /\ \A i, j \in 1..n : i # j => q[i] # q[j]
  BY DEF SetToSeqs
<1> HIDE DEF n
<1>3. IsFiniteSet(1..n) /\ Cardinality(1..n) = n
  BY <1>1, FS_Interval
<1>4. q \in Injection(1..n, S)
  BY <1>2 DEF Injection, IsInjective
<1>5. q \in Surjection(1..n, S)
  <2>1. Cardinality(1..n) = Cardinality(S)
    BY <1>3 DEF n
  <2> QED
    BY <1>4, <2>1, FS_Injection
<1>6. Len(q) = n /\ DOMAIN q = 1..n
  BY <1>1, <1>2
<1> QED
  BY <1>1, <1>2, <1>5, <1>6 DEF Surjection

\* Places in pairs.
LEMMA Halves ==
  ASSUME NEW n \in Nat, NEW i \in 1..2 * n
  PROVE  \E j \in 1..n : /\ (i + 1) \div 2 = j
                         /\ \/ i = 2 * j - 1 /\ 2 - (i % 2) = 1
                            \/ i = 2 * j /\ 2 - (i % 2) = 2
<1>1. ((i + 1) \div 2) \in 1..n
  OBVIOUS
<1>2. \/ i = 2 * ((i + 1) \div 2) - 1 /\ 2 - (i % 2) = 1
      \/ i = 2 * ((i + 1) \div 2) /\ 2 - (i % 2) = 2
  OBVIOUS
<1> QED
  BY <1>1, <1>2

\* The places of a pair lie among those of all pairs, and of no other pair.
LEMMA Pairs ==
  ASSUME NEW n \in Nat, NEW j \in 1..n
  PROVE  /\ 2 * j - 1 \in 1..2 * n /\ 2 * j \in 1..2 * n /\ 2 * j - 1 # 2 * j
         /\ \A k \in 1..n : /\ 2 * j # 2 * k - 1 /\ 2 * j - 1 # 2 * k
                            /\ 2 * j = 2 * k => j = k
         /\ \A i \in (2 * j + 1)..2 * n : i \in 1..2 * n /\ i \notin {2 * j - 1, 2 * j}
OBVIOUS

\* The requests of a snapshot: an unwatch and a watch from nothing for each target.
LEMMA RelistenRequests ==
  ASSUME NEW again \in SUBSET Target, NEW q \in SetToSeqs(again), NEW r,
         r = [i \in 1..2 * Len(q) |-> Relisten(q[(i + 1) \div 2])[2 - (i % 2)]]
  PROVE  /\ r \in Seq(Request)
         /\ \A t \in Target : /\ Count(r, Asked(t)) = IF t \in again THEN 2 ELSE 0
                              /\ t \notin again => Silent(r, Asked(t))
                              /\ t \in again => \A A : Consistent(NoToken, A) => LastWatch(t, r, A)
<1> DEFINE n == Len(q)
<1>1. IsFiniteSet(again)
  BY BoundsAssumption, FS_Subset
<1>2. /\ n \in Nat /\ \A i \in 1..n : q[i] \in again
      /\ \A e \in again : \E i \in 1..n : q[i] = e
      /\ \A i, j \in 1..n : q[i] = q[j] => i = j
  BY <1>1, SetToSeqsOnce
<1> HIDE DEF n
<1>3. r = [i \in 1..2 * n |-> Relisten(q[(i + 1) \div 2])[2 - (i % 2)]]
  BY DEF n
<1>4. ASSUME NEW i \in 1..2 * n
      PROVE  \E j \in 1..n : \/ i = 2 * j - 1 /\ r[i] = Unwatch(q[j])
                             \/ i = 2 * j /\ r[i] = Watch(q[j], NoToken)
  <2>1. PICK j \in 1..n : /\ (i + 1) \div 2 = j
                         /\ \/ i = 2 * j - 1 /\ 2 - (i % 2) = 1
                            \/ i = 2 * j /\ 2 - (i % 2) = 2
    BY <1>2, Halves
  <2>2. r[i] = Relisten(q[(i + 1) \div 2])[2 - (i % 2)]
    BY <1>3
  <2>3. r[i] = Relisten(q[j])[2 - (i % 2)]
    BY <2>1, <2>2, Zenon
  <2>4. Relisten(q[j])[1] = Unwatch(q[j]) /\ Relisten(q[j])[2] = Watch(q[j], NoToken)
    BY DEF Relisten
  <2> QED
    BY <2>1, <2>3, <2>4, Zenon
<1>5. ASSUME NEW t \in Target, NEW j \in 1..n, q[j] = t
      PROVE  \A i \in 1..2 * n : r[i] \in Asked(t) <=> i \in {2 * j - 1, 2 * j}
  <2> SUFFICES ASSUME NEW i \in 1..2 * n PROVE r[i] \in Asked(t) <=> i \in {2 * j - 1, 2 * j}
    OBVIOUS
  <2>1. PICK k \in 1..n : \/ i = 2 * k - 1 /\ r[i] = Unwatch(q[k])
                          \/ i = 2 * k /\ r[i] = Watch(q[k], NoToken)
    BY <1>4
  <2>2. r[i].target = q[k]
    BY <2>1 DEF Watch, Unwatch
  <2>3. r[i] \in Asked(t) <=> q[k] = t
    <3>1. q[k] \in Target /\ NoToken \in Tokens
      BY <1>2 DEF Tokens
    <3>2. r[i] \in Request
      BY <2>1, <3>1, Elements
    <3> QED
      BY <2>2, <3>2, Elements
  <2>4. q[k] = t <=> k = j
    BY <1>2, <1>5
  <2>5. k = j <=> i \in {2 * j - 1, 2 * j}
    BY <1>2, <2>1
  <2> QED
    BY <2>3, <2>4, <2>5
<1>6. ASSUME NEW t \in Target, t \notin again
      PROVE  \A i \in 1..2 * n : r[i] \notin Asked(t)
  <2> SUFFICES ASSUME NEW i \in 1..2 * n PROVE r[i] \notin Asked(t)
    OBVIOUS
  <2>1. PICK k \in 1..n : r[i] = Unwatch(q[k]) \/ r[i] = Watch(q[k], NoToken)
    BY <1>4
  <2>2. r[i].target = q[k] /\ q[k] # t
    BY <1>2, <1>6, <2>1 DEF Watch, Unwatch
  <2> QED
    BY <2>2 DEF Asked
<1>7. \A i \in 1..2 * n : r[i] \in Request
  <2> SUFFICES ASSUME NEW i \in 1..2 * n PROVE r[i] \in Request
    OBVIOUS
  <2>1. PICK k \in 1..n : r[i] = Unwatch(q[k]) \/ r[i] = Watch(q[k], NoToken)
    BY <1>4
  <2>2. q[k] \in Target /\ NoToken \in Tokens
    BY <1>2 DEF Tokens
  <2> QED
    BY <2>1, <2>2, Elements
<1>8. DOMAIN r = 1..2 * n /\ r = [i \in 1..2 * n |-> r[i]]
  BY <1>3, Zenon
<1>9. r \in Seq(Request) /\ Len(r) = 2 * n
  <2> DEFINE m == 2 * n
  <2>1. m \in Nat
    BY <1>2
  <2> HIDE DEF m
  <2>2. r \in [1..m -> Request]
    BY <1>7, <1>8 DEF m
  <2>3. r \in Seq(Request) /\ Len(r) = m
    BY <2>1, <2>2
  <2> QED
    BY <2>3 DEF m
<1>10. ASSUME NEW t \in Target, t \notin again
       PROVE  Silent(r, Asked(t)) /\ Count(r, Asked(t)) = 0
  <2>1. Silent(r, Asked(t))
    BY <1>6, <1>9, <1>10 DEF Silent
  <2> QED
    BY <1>9, <2>1, CountType
<1>11. ASSUME NEW t \in again
       PROVE  /\ Count(r, Asked(t)) = 2
              /\ \A A : Consistent(NoToken, A) => LastWatch(t, r, A)
  <2>1. PICK j \in 1..n : q[j] = t
    BY <1>2
  <2>2. t \in Target
    OBVIOUS
  <2>3. /\ 2 * j - 1 \in 1..2 * n /\ 2 * j \in 1..2 * n /\ 2 * j - 1 # 2 * j
        /\ \A i \in 1..2 * n : r[i] \in Asked(t) <=> i \in {2 * j - 1, 2 * j}
    <3>1. \A i \in 1..2 * n : r[i] \in Asked(t) <=> i \in {2 * j - 1, 2 * j}
      BY <1>5, <2>1, <2>2
    <3> QED
      BY <1>2, <3>1, Pairs
  <2>4. Count(r, Asked(t)) = 2
    <3> DEFINE I == {i \in DOMAIN r : r[i] \in Asked(t)}
               a == 2 * j - 1
               b == 2 * j
    <3>1. I = {a} \union {b}
      BY <1>8, <2>3
    <3>2. a # b
      BY <2>3
    <3> HIDE DEF I, a, b
    <3>3. IsFiniteSet({a}) /\ Cardinality({a}) = 1 /\ b \notin {a}
      BY <3>2, FS_Singleton
    <3>4. Cardinality({a} \union {b}) = 1 + 1
      BY <3>3, FS_AddElement
    <3>5. Count(r, Asked(t)) = Cardinality(I)
      BY DEF Count, I
    <3>6. 1 + 1 = 2
      OBVIOUS
    <3> QED
      BY ONLY <3>1, <3>4, <3>5, <3>6, Zenon
  <2>5. r[2 * j] = Watch(t, NoToken)
    <3>1. PICK k \in 1..n : \/ 2 * j = 2 * k - 1 /\ r[2 * j] = Unwatch(q[k])
                            \/ 2 * j = 2 * k /\ r[2 * j] = Watch(q[k], NoToken)
      BY <1>4, <2>3
    <3>2. 2 * j # 2 * k - 1 /\ (2 * j = 2 * k => j = k)
      BY <1>2, Pairs
    <3> QED
      BY <2>1, <3>1, <3>2
  <2>6. \A i \in (2 * j + 1)..Len(r) : r[i] \notin Asked(t)
    <3> SUFFICES ASSUME NEW i \in (2 * j + 1)..2 * n PROVE r[i] \notin Asked(t)
      BY <1>9
    <3>1. i \in 1..2 * n /\ i \notin {2 * j - 1, 2 * j}
      BY <1>2, Pairs
    <3> QED
      BY <2>3, <3>1
  <2>7. PICK b \in Seq(Request), a \in Seq(Request) :
          r = (b \o <<r[2 * j]>>) \o a /\ Silent(a, Asked(t))
    <3> DEFINE k == 2 * j
    <3>1. k \in 1..Len(r) /\ \A i \in (k + 1)..Len(r) : r[i] \notin Asked(t)
      BY <1>9, <2>3, <2>6
    <3> HIDE DEF k
    <3>2. \E b, a \in Seq(Request) :
            /\ r = (b \o <<r[k]>>) \o a
            /\ \A M : (\A i \in (k + 1)..Len(r) : r[i] \notin M) => Silent(a, M)
      BY <1>9, <3>1, SplitAt
    <3>3. \E b, a \in Seq(Request) : r = (b \o <<r[k]>>) \o a /\ Silent(a, Asked(t))
      BY <3>1, <3>2
    <3> QED
      BY <3>3 DEF k
  <2>8. NoToken \in Tokens
    BY DEF Tokens
  <2> QED
    BY <2>4, <2>5, <2>7, <2>8, Zenon DEF LastWatch
<1> QED
  BY <1>9, <1>10, <1>11

\* How the parts of an array are put together does not matter.
LEMMA Regroup ==
  ASSUME NEW S, NEW p \in Seq(S), NEW b \in Seq(S), NEW w \in Seq(S), NEW a \in Seq(S)
  PROVE  p \o ((b \o w) \o a) = ((p \o b) \o w) \o a
<1>1. b \o w \in Seq(S)
  BY ConcatProperties
<1>2. p \o ((b \o w) \o a) = (p \o (b \o w)) \o a
  BY <1>1, ConcatAssociative, SMT
<1>3. p \o (b \o w) = (p \o b) \o w
  BY ConcatAssociative, SMT
<1> QED
  BY <1>2, <1>3, SMT

\* A last Watch stays the last behind other requests.
LEMMA LastWatchBehind ==
  ASSUME NEW t \in Target, NEW rs \in Seq(Request), NEW r, NEW A, LastWatch(t, r, A)
  PROVE  LastWatch(t, rs \o r, A)
<1>1. PICK b \in Seq(Request), a \in Seq(Request), tok \in Tokens :
        /\ r = (b \o <<Watch(t, tok)>>) \o a
        /\ Silent(a, Asked(t)) /\ Consistent(tok, A)
  BY DEF LastWatch
<1>2. <<Watch(t, tok)>> \in Seq(Request)
  BY Elements
<1>3. rs \o b \in Seq(Request) /\ b \o <<Watch(t, tok)>> \in Seq(Request)
  BY <1>2, ConcatProperties
<1>4. rs \o r = ((rs \o b) \o <<Watch(t, tok)>>) \o a
  <2>1. rs \o ((b \o <<Watch(t, tok)>>) \o a) = ((rs \o b) \o <<Watch(t, tok)>>) \o a
    BY ONLY <1>2, rs \in Seq(Request), b \in Seq(Request), a \in Seq(Request), Regroup, SMTT(60)
  <2> QED
    BY <1>1, <2>1, Zenon
<1> QED
  BY <1>1, <1>3, <1>4, Zenon DEF LastWatch

\* Requests for others leave t waiting.
LEMMA WaitingBehind ==
  ASSUME NEW t \in Target, NEW rs \in Seq(Request), NEW q \in Seq(Request),
         NEW ms \in Seq(Message), NEW A, NEW B \in SUBSET Doc, NEW served,
         Waiting(t, rs, ms, A, B, served), Silent(q, Asked(t))
  PROVE  Waiting(t, rs \o q, ms, A, B, served)
<1>1. Right(t, <<>>, B, B)
  BY ReachesNone DEF Right, Run
<1>2. <<>> \in Seq(Message) /\ Silent(<<>>, Answered(t)) /\ ms \o <<>> = ms
  BY ConcatEmptySeq DEF Silent
<1>3. Waiting(t, rs \o q, ms \o <<>>, A, B, served)
  BY <1>1, <1>2, WaitingMore
<1> QED
  BY <1>2, <1>3

\* The targets a snapshot raises, and those it listens to again.
Raised == {t \in DOMAIN states : IsActiveTarget(t)}
Again == resets \intersect listens

\* What a snapshot makes of the states: two more answers are awaited for a target
\* listened to again, and what is raised is no change any more.
LEMMA SnapshotBooks ==
  ASSUME WatchTypes, ChangesFit, Snapshot
  PROVE  /\ Booked(states') /\ DOMAIN states' = DOMAIN states \union Again
         /\ \A u \in Target :
              At(states', u).outstanding = At(states, u).outstanding + (IF u \in Again THEN 2 ELSE 0)
         /\ \A u \in DOMAIN states' :
              states'[u].changes = IF u \in Raised THEN Fresh.changes ELSE At(states, u).changes
<1>1. /\ Booked(states) /\ Again \subseteq Target /\ Raised \subseteq DOMAIN states
      /\ \A u \in Target : At(states, u) \in TargetState
  BY FreshState DEF WatchTypes, WatchTypeOK, Booked, Again, Raised, At
<1>2. states' = [u \in DOMAIN states \union Again |->
                   [At(states, u) EXCEPT
                      !.changes = IF u \in Raised THEN Fresh.changes ELSE @,
                      !.outstanding = IF u \in Again THEN @ + 2 ELSE @]]
  BY DEF Snapshot, Raised, Again
<1>4. ASSUME NEW u \in DOMAIN states \union Again
      PROVE  /\ states'[u] \in TargetState
             /\ states'[u].outstanding = At(states, u).outstanding + (IF u \in Again THEN 2 ELSE 0)
             /\ states'[u].changes = IF u \in Raised THEN Fresh.changes ELSE At(states, u).changes
  <2> DEFINE x == At(states, u)
             y == states'[u]
             c == IF u \in Raised THEN Fresh.changes ELSE x.changes
             n == IF u \in Again THEN x.outstanding + 2 ELSE x.outstanding
  <2>1. x \in TargetState
    BY <1>1 DEF Booked
  <2>2. Fresh.changes \in [Doc -> {"", "Added", "Modified", "Removed"}]
    BY FreshState DEF TargetState
  <2>3. x.outstanding \in Int /\ x.changes \in [Doc -> {"", "Added", "Modified", "Removed"}]
    BY <2>1 DEF TargetState
  <2>4. y = [x EXCEPT !.changes = c, !.outstanding = n]
    BY <1>2
  <2> HIDE DEF x, y
  <2>5. n = x.outstanding + (IF u \in Again THEN 2 ELSE 0) /\ n \in Int
    <3> DEFINE a == x.outstanding
    <3>1. a \in Int
      BY <2>3
    <3> HIDE DEF a
    <3>2. a = a + 0 /\ a + 2 \in Int
      BY <3>1
    <3> QED
      BY <3>1, <3>2, Zenon DEF a
  <2>6. c \in [Doc -> {"", "Added", "Modified", "Removed"}]
    BY <2>2, <2>3
  <2> HIDE DEF c, n
  <2>7. y \in TargetState /\ y.outstanding = n /\ y.changes = c
    BY ONLY <2>1, <2>4, <2>5, <2>6 DEF TargetState
  <2> QED
    BY <2>5, <2>7, Zenon DEF x, y, c
<1>5. DOMAIN states' = DOMAIN states \union Again
  BY <1>2
<1>6. Booked(states')
  BY <1>1, <1>4, <1>5 DEF Booked
<1>7. ASSUME NEW u \in Target
      PROVE  At(states', u).outstanding =
               At(states, u).outstanding + (IF u \in Again THEN 2 ELSE 0)
  <2>1. CASE u \in DOMAIN states'
    <3>1. At(states', u) = states'[u]
      BY <2>1 DEF At
    <3> QED
      BY <1>4, <1>5, <2>1, <3>1
  <2>2. CASE u \notin DOMAIN states'
    <3>1. At(states', u) = Fresh /\ At(states, u) = Fresh /\ u \notin Again
      BY <1>5, <2>2 DEF At
    <3>2. Fresh.outstanding = 0
      BY FreshState
    <3> QED
      BY <3>1, <3>2
  <2> QED
    BY <2>1, <2>2
<1> QED
  BY <1>4, <1>5, <1>6, <1>7

\* A target raised and not under suspicion shows what the token of the snapshot
\* stands for.
LEMMA RaisedShows ==
  ASSUME WatchInv, inbox # <<>>, Msg.type = "Snapshot", open, NEW u \in Raised,
         u \notin overtaken, u \notin Again, trust[u] # "misled"
  PROVE  /\ Msg.tokens[u] = Token(Shown(states[u], synced[u]))
         /\ Right(u, Tail(inbox), Shown(states[u], synced[u]), matches[u])
         /\ u \in serving /\ states[u].outstanding = 0 /\ u \in listens
<1>1. /\ WatchTypes /\ OutstandingIsOwed /\ Flow /\ inbox \in Seq(Message)
      /\ u \in DOMAIN states /\ u \in listens /\ states[u].outstanding = 0
  BY DEF WatchInv, WatchTypes, Raised, IsActiveTarget
<1>2. u \in Target \ overtaken /\ At(states, u).outstanding = 0
  BY <1>1 DEF WatchTypes, WatchTypeOK, At
<1>3. ~Waits(u)
  BY <1>1, <1>2, WaitingOrFlowing
<1>4. Flowing(u) /\ u \notin resets
  BY <1>1, <1>2, <1>3 DEF Flow, Again
<1>5. Right(u, inbox, Shown(states[u], synced[u]), matches[u])
  BY <1>4 DEF Flowing
<1>6. ~About(u, Msg)
  BY DEF About
<1>7. /\ Passes(u, Msg, Shown(states[u], synced[u]))
      /\ Right(u, Tail(inbox), Shown(states[u], synced[u]), matches[u])
  BY <1>1, <1>5, <1>6, RightTail DEF Msg, Mismatch, Apply
<1> QED
  BY <1>1, <1>4, <1>7 DEF Passes, Flowing

\* What the history says after a snapshot of a target that is still trusted.
LEMMA StillTrusted ==
  ASSUME NEW t, NEW isRaised \in BOOLEAN, NEW isAgain \in BOOLEAN, NEW shown,
         Trusted(t, isRaised, isAgain, shown) # "misled"
  PROVE  /\ trust[t] # "misled"
         /\ isRaised \/ isAgain => t \notin overtaken
         /\ isAgain => shown = {} /\ Trusted(t, isRaised, isAgain, shown) # "sound"
         /\ ~isRaised /\ ~isAgain => Trusted(t, isRaised, isAgain, shown) = trust[t]
<1>1. ~((isRaised \/ isAgain) /\ (t \in overtaken \/ (isAgain /\ shown # {})))
  BY DEF Trusted
<1>2. trust[t] # "misled"
  BY <1>1 DEF Trusted
<1>3. isAgain => Trusted(t, isRaised, isAgain, shown) # "sound"
  BY <1>1 DEF Trusted
<1>4. ~isRaised /\ ~isAgain => Trusted(t, isRaised, isAgain, shown) = trust[t]
  BY DEF Trusted
<1> QED
  BY <1>1, <1>2, <1>3, <1>4

\* What a snapshot assigns.
LEMMA SnapshotMade ==
  ASSUME WatchInv, Snapshot
  PROVE  /\ inbox # <<>> /\ Msg.type = "Snapshot" /\ inbox' = Tail(inbox) /\ open
         /\ Msg \in Message /\ Tail(inbox) \in Seq(Message)
         /\ \A u \in Target : \E ds \in SUBSET Doc : Msg.tokens[u] = Token(ds)
         /\ token' = [u \in Target |-> IF u \in Raised THEN Msg.tokens[u] ELSE token[u]]
         /\ resume' = [u \in Target |-> IF u \in Again THEN NoToken
                                        ELSE IF u \in Raised THEN Msg.tokens[u] ELSE resume[u]]
         /\ synced' = [u \in Target |->
                         IF u \in Raised THEN Shown(states[u], synced[u]) ELSE synced[u]]
         /\ current' \subseteq (current \ Raised) \union Raised
         /\ trust' = [u \in Target |-> Trusted(u, u \in Raised, u \in Again, synced'[u])]
         /\ resets' = {}
         /\ UNCHANGED <<listens, open, backend, overtaken>>
<1>1. inbox \in Seq(Message) /\ Closed
  BY DEF WatchInv, WatchTypes
<1>2. /\ inbox # <<>> /\ Msg.type = "Snapshot" /\ inbox' = Tail(inbox) /\ open
  BY <1>1 DEF Snapshot, Arrives, Msg, Closed
<1>3. Msg \in Message /\ Tail(inbox) \in Seq(Message)
  BY <1>1, <1>2, HeadTailProperties DEF Msg
<1>4. Msg.tokens \in [Target -> {Token(ds) : ds \in SUBSET Doc}]
  BY <1>2, <1>3 DEF Message
<1>5. \A u \in Target : \E ds \in SUBSET Doc : Msg.tokens[u] = Token(ds)
  BY <1>4
<1>6. /\ token' = [u \in Target |-> IF u \in Raised THEN Msg.tokens[u] ELSE token[u]]
      /\ resume' = [u \in Target |-> IF u \in Again THEN NoToken
                                     ELSE IF u \in Raised THEN Msg.tokens[u] ELSE resume[u]]
      /\ synced' = [u \in Target |->
                      IF u \in Raised
                        THEN (synced[u] \union Changed(u, "Added")) \ Changed(u, "Removed")
                        ELSE synced[u]]
      /\ current' = (current \ Raised) \union {u \in Raised : states[u].current}
      /\ trust' = [u \in Target |-> Trusted(u, u \in Raised, u \in Again, synced'[u])]
  BY DEF Snapshot, Raised, Again
<1>7. resets' = {} /\ UNCHANGED <<listens, open, backend, overtaken>>
  BY DEF Snapshot
<1>8. \A u : (synced[u] \union Changed(u, "Added")) \ Changed(u, "Removed")
               = Shown(states[u], synced[u])
  BY DEF Shown, Changed
<1>9. synced' = [u \in Target |->
                   IF u \in Raised THEN Shown(states[u], synced[u]) ELSE synced[u]]
  BY <1>6, <1>8
<1>10. current' \subseteq (current \ Raised) \union Raised
  BY <1>6
<1> QED
  BY <1>2, <1>3, <1>5, <1>6, <1>7, <1>9, <1>10

\* The requests after a snapshot.
LEMMA SnapshotAsks ==
  ASSUME WatchInv, Snapshot
  PROVE  \E r \in Seq(Request) :
           /\ requests' = requests \o r
           /\ \A t \in Target :
                /\ Count(r, Asked(t)) = IF t \in Again THEN 2 ELSE 0
                /\ t \notin Again => Silent(r, Asked(t))
                /\ t \in Again => \A A : Consistent(NoToken, A) => LastWatch(t, r, A)
<1>1. Again \in SUBSET Target
  BY DEF WatchInv, WatchTypes, WatchTypeOK, Again
<1>2. PICK q \in SetToSeqs(Again) : requests' = requests \o
        [i \in 1..2 * Len(q) |-> Relisten(q[(i + 1) \div 2])[2 - (i % 2)]]
  BY DEF Snapshot, Again
<1> DEFINE r == [i \in 1..2 * Len(q) |-> Relisten(q[(i + 1) \div 2])[2 - (i % 2)]]
<1>3. /\ r \in Seq(Request)
      /\ \A t \in Target : /\ Count(r, Asked(t)) = IF t \in Again THEN 2 ELSE 0
                           /\ t \notin Again => Silent(r, Asked(t))
                           /\ t \in Again => \A A : Consistent(NoToken, A) => LastWatch(t, r, A)
  BY <1>1, RelistenRequests
<1>4. requests' = requests \o r
  BY <1>2
<1> HIDE DEF r
<1> QED
  BY <1>3, <1>4

\* RaiseWatchSnapshot: what is raised shows the documents of its token, and what is
\* listened to again waits for a Watch without a token.
LEMMA SnapshotStep ==
  ASSUME WatchInv, Snapshot
  PROVE  WatchInv'
<1>1. /\ WatchTypes /\ Closed /\ OutstandingIsOwed /\ ChangesFit /\ TokensFit /\ Flow
      /\ requests \in Seq(Request) /\ inbox \in Seq(Message)
      /\ Raised \subseteq DOMAIN states /\ Raised \subseteq listens /\ listens \subseteq Target
      /\ \A u \in Raised : states[u].outstanding = 0
      /\ Again \subseteq listens /\ Again \subseteq resets /\ Booked(states)
  BY DEF WatchInv, WatchTypes, WatchTypeOK, Raised, Again, IsActiveTarget, Booked
<1>2. /\ inbox # <<>> /\ Msg.type = "Snapshot" /\ inbox' = Tail(inbox) /\ open
      /\ Msg \in Message /\ Tail(inbox) \in Seq(Message)
      /\ \A u \in Target : \E ds \in SUBSET Doc : Msg.tokens[u] = Token(ds)
      /\ token' = [u \in Target |-> IF u \in Raised THEN Msg.tokens[u] ELSE token[u]]
      /\ resume' = [u \in Target |-> IF u \in Again THEN NoToken
                                     ELSE IF u \in Raised THEN Msg.tokens[u] ELSE resume[u]]
      /\ synced' = [u \in Target |->
                      IF u \in Raised THEN Shown(states[u], synced[u]) ELSE synced[u]]
      /\ current' \subseteq (current \ Raised) \union Raised
      /\ trust' = [u \in Target |-> Trusted(u, u \in Raised, u \in Again, synced'[u])]
      /\ resets' = {}
      /\ UNCHANGED <<listens, open, backend, overtaken>>
  BY SnapshotMade
<1>3. /\ Booked(states') /\ DOMAIN states' = DOMAIN states \union Again
      /\ \A u \in Target :
           At(states', u).outstanding = At(states, u).outstanding + (IF u \in Again THEN 2 ELSE 0)
      /\ \A u \in DOMAIN states' :
           states'[u].changes = IF u \in Raised THEN Fresh.changes ELSE At(states, u).changes
  BY <1>1, SnapshotBooks
<1>4. PICK r \in Seq(Request) :
        /\ requests' = requests \o r
        /\ \A t \in Target :
             /\ Count(r, Asked(t)) = IF t \in Again THEN 2 ELSE 0
             /\ t \notin Again => Silent(r, Asked(t))
             /\ t \in Again => \A A : Consistent(NoToken, A) => LastWatch(t, r, A)
  BY SnapshotAsks
<1>5. \A u \in Target : /\ synced'[u] \in SUBSET Doc
                        /\ u \notin Raised => synced'[u] = synced[u] /\ token'[u] = token[u]
                        /\ u \in Raised => synced'[u] = Shown(states[u], synced[u])
                                           /\ token'[u] = Msg.tokens[u]
  BY <1>1, <1>2 DEF WatchTypes, WatchTypeOK, Shown
<1>6. ASSUME NEW u \in Raised, u \notin overtaken, u \notin Again, trust[u] # "misled"
      PROVE  /\ Msg.tokens[u] = Token(synced'[u])
             /\ Right(u, Tail(inbox), synced'[u], matches[u])
             /\ u \in serving
  BY <1>1, <1>2, <1>5, <1>6, RaisedShows
<1>7. ASSUME NEW u \in Target, trust'[u] # "misled"
      PROVE  /\ trust[u] # "misled"
             /\ u \in Raised \/ u \in Again => u \notin overtaken
             /\ u \in Again => synced'[u] = {} /\ trust'[u] # "sound"
             /\ u \notin Raised /\ u \notin Again => trust'[u] = trust[u]
  <2>1. trust'[u] = Trusted(u, u \in Raised, u \in Again, synced'[u])
    BY <1>2
  <2> DEFINE a == u \in Raised
             b == u \in Again
             c == synced'[u]
  <2>2. a \in BOOLEAN /\ b \in BOOLEAN /\ trust'[u] = Trusted(u, a, b, c)
    BY <2>1
  <2> HIDE DEF a, b, c
  <2>3. /\ trust[u] # "misled" /\ (a \/ b => u \notin overtaken)
        /\ b => c = {} /\ Trusted(u, a, b, c) # "sound"
        /\ ~a /\ ~b => Trusted(u, a, b, c) = trust[u]
    BY <1>7, <2>2, StillTrusted
  <2> QED
    BY <2>2, <2>3 DEF a, b, c
<1>8. WatchTypes'
  <2>1. token' \in [Target -> Tokens] /\ resume' \in [Target -> Tokens]
    <3>1. \A u \in Target : Msg.tokens[u] \in Tokens /\ NoToken \in Tokens
      BY <1>2 DEF Tokens
    <3> QED
      BY <1>1, <1>2, <3>1 DEF WatchTypes, WatchTypeOK
  <2>2. synced' \in [Target -> SUBSET Doc]
    BY <1>2, <1>5
  <2>3. current' \subseteq listens' /\ listens' \subseteq Target
    BY <1>1, <1>2 DEF WatchTypes, WatchTypeOK
  <2>4. DOMAIN states' \subseteq Target /\ \A u \in DOMAIN states' : states'[u] \in TargetState
    BY <1>3 DEF Booked
  <2>5. trust' \in [Target -> {"sound", "mending", "misled"}]
    BY <1>1, <1>2 DEF Trusted, WatchTypes, WatchTypeOK
  <2>6. requests' \in Seq(Request) /\ inbox' \in Seq(Message)
    BY <1>1, <1>2, <1>4, ConcatProperties
  <2>7. open' \in BOOLEAN /\ resets' \subseteq Target
        /\ matches' \in [Target -> SUBSET Doc] /\ serving' \subseteq Target
    BY <1>1, <1>2 DEF WatchTypes, WatchTypeOK, backend
  <2> QED
    BY <2>1, <2>2, <2>3, <2>4, <2>5, <2>6, <2>7 DEF WatchTypes, WatchTypeOK
<1>9. Closed'
  BY <1>2 DEF Closed
<1>10. OutstandingIsOwed'
  <2> SUFFICES ASSUME NEW u \in Target \ overtaken
               PROVE  At(states', u).outstanding =
                        Count(requests \o r, Asked(u)) + Count(Tail(inbox), Answered(u))
    BY <1>2, <1>4 DEF OutstandingIsOwed, Answers
  <2> DEFINE a == Count(requests, Asked(u))
             n == Count(inbox, Answered(u))
             k == IF u \in Again THEN 2 ELSE 0
  <2>1. At(states, u).outstanding = a + n
    BY <1>1, <1>2 DEF OutstandingIsOwed, Answers
  <2>2. Count(requests \o r, Asked(u)) = a + k
    BY <1>1, <1>4, CountConcat
  <2>3. Count(Tail(inbox), Answered(u)) = n
    <3>1. Msg \notin Answered(u)
      BY <1>2 DEF Answered
    <3>2. Count(Tail(inbox), Answered(u)) = n - (IF Msg \in Answered(u) THEN 1 ELSE 0)
      BY <1>1, <1>2, CountTail DEF Msg
    <3>3. n \in Nat
      BY <1>1, CountType
    <3> HIDE DEF n
    <3> QED
      BY <3>1, <3>2, <3>3
  <2>4. At(states', u).outstanding = (a + n) + k
    BY <1>3, <2>1
  <2>5. a \in Nat /\ n \in Nat /\ k \in Nat
    BY <1>1, CountType
  <2> HIDE DEF a, n, k
  <2> QED
    BY <2>2, <2>3, <2>4, <2>5
<1>11. ChangesFit'
  <2> SUFFICES ASSUME NEW u \in DOMAIN states' PROVE Fit(states'[u], synced'[u])
    BY DEF ChangesFit
  <2>1. u \in Target
    BY <1>3 DEF Booked
  <2>2. CASE u \in Raised
    <3>1. states'[u].changes = Fresh.changes
      BY <1>3, <2>2
    <3> QED
      BY <3>1, FreshState, SameChanges
  <2>3. CASE u \notin Raised
    <3>1. states'[u].changes = At(states, u).changes /\ synced'[u] = synced[u]
      BY <1>3, <1>5, <2>1, <2>3
    <3>2. Fit(At(states, u), synced[u])
      BY <1>1, FreshState DEF ChangesFit, At
    <3> QED
      BY <3>1, <3>2, SameChanges
  <2> QED
    BY <2>2, <2>3
<1>12. TokensFit'
  <2>1. ASSUME NEW u \in current' PROVE token'[u] # NoToken
    <3>1. u \in Target /\ (u \in Raised \/ u \in current)
      BY <1>1, <1>2 DEF WatchTypes, WatchTypeOK
    <3>2. CASE u \in Raised
      <4>1. PICK ds \in SUBSET Doc : Msg.tokens[u] = Token(ds)
        BY <1>2, <3>1
      <4>2. Token(ds) # NoToken
        BY DEF Token, NoToken
      <4> QED
        BY <1>5, <3>1, <3>2, <4>1, <4>2
    <3>3. CASE u \notin Raised
      BY <1>1, <1>5, <3>1, <3>3 DEF TokensFit
    <3> QED
      BY <3>2, <3>3
  <2>2. ASSUME NEW u \in Target, trust'[u] = "sound"
        PROVE  Consistent(token'[u], synced'[u])
    <3>1. u \notin Again /\ trust[u] # "misled"
      BY <1>7, <2>2
    <3>2. CASE u \in Raised
      <4>1. token'[u] = Token(synced'[u])
        BY <1>5, <1>6, <1>7, <2>2, <3>1, <3>2
      <4> QED
        BY <4>1 DEF Consistent
    <3>3. CASE u \notin Raised
      <4>1. trust[u] = "sound" /\ token'[u] = token[u] /\ synced'[u] = synced[u]
        BY <1>5, <1>7, <2>2, <3>1, <3>3
      <4> QED
        BY <1>1, <4>1 DEF TokensFit
    <3> QED
      BY <3>2, <3>3
  <2>3. ASSUME NEW u \in listens', trust'[u] # "misled"
        PROVE  Consistent(resume'[u], synced'[u])
    <3>1. u \in Target /\ u \in listens
      BY <1>1, <1>2
    <3>2. CASE u \in Again
      <4>1. resume'[u] = NoToken /\ synced'[u] = {}
        BY <1>2, <1>7, <2>3, <3>1, <3>2
      <4> QED
        BY <4>1 DEF Consistent
    <3>3. CASE u \notin Again /\ u \in Raised
      <4>1. resume'[u] = Msg.tokens[u]
        BY <1>2, <3>1, <3>3
      <4>2. Msg.tokens[u] = Token(synced'[u])
        BY <1>6, <1>7, <2>3, <3>1, <3>3
      <4> QED
        BY <4>1, <4>2 DEF Consistent
    <3>4. CASE u \notin Again /\ u \notin Raised
      <4>1. resume'[u] = resume[u] /\ synced'[u] = synced[u] /\ trust[u] # "misled"
        BY <1>2, <1>5, <1>7, <2>3, <3>1, <3>4
      <4> QED
        BY <1>1, <3>1, <4>1 DEF TokensFit
    <3> QED
      BY <3>2, <3>3, <3>4
  <2> QED
    BY <2>1, <2>2, <2>3 DEF TokensFit
<1>13. ASSUME NEW u \in listens \ overtaken, trust'[u] # "misled"
       PROVE  Waits(u)' \/ Flowing(u)'
  <2>1. u \in Target /\ u \in Target \ overtaken /\ trust[u] # "misled"
    BY <1>1, <1>7, <1>13
  <2>2. matches[u] \in SUBSET Doc
    BY <1>1, <2>1 DEF WatchTypes, WatchTypeOK
  <2>3. CASE u \in Again
    <3>1. Consistent(NoToken, synced'[u])
      BY <1>7, <1>13, <2>1, <2>3 DEF Consistent
    <3>2. LastWatch(u, requests \o r, synced'[u])
      BY <1>1, <1>4, <2>1, <2>3, <3>1, LastWatchBehind
    <3> QED
      BY <1>4, <3>2 DEF Waits, Waiting
  <2>4. CASE u \notin Again /\ Waits(u)
    <3>1. At(states, u).outstanding # 0
      BY <1>1, <1>2, <2>1, <2>4, WaitingOrFlowing
    <3>2. u \notin Raised
      BY <1>1, <3>1 DEF At
    <3>3. \A type : Msg # Response(type, u)  \/ type = "Snapshot"
      BY <1>2 DEF Response
    <3>4. Waiting(u, requests, Tail(inbox), synced[u], matches[u], u \in serving)
      BY <1>1, <2>1, <2>4, <3>3, WaitingRead DEF Waits, Msg
    <3>5. Waiting(u, requests \o r, Tail(inbox), synced[u], matches[u], u \in serving)
      BY <1>1, <1>2, <1>4, <2>1, <2>2, <2>4, <3>4, WaitingBehind
    <3> QED
      BY <1>2, <1>4, <1>5, <2>1, <3>2, <3>5 DEF Waits, backend
  <2>5. CASE u \notin Again /\ Flowing(u)
    <3>1. u \in DOMAIN states /\ states[u].outstanding = 0
      BY <2>5 DEF Flowing
    <3>2. u \in Raised
      BY <1>13, <3>1 DEF Raised, IsActiveTarget
    <3>3. Right(u, Tail(inbox), synced'[u], matches[u]) /\ u \in serving
      BY <1>6, <2>1, <2>5, <3>2
    <3>4. u \in DOMAIN states' /\ states'[u].changes = Fresh.changes
      BY <1>3, <3>1, <3>2
    <3>5. Shown(states'[u], synced'[u]) = synced'[u]
      BY <3>4, FreshState, SameChanges
    <3>6. states'[u].outstanding = 0
      <4>1. At(states', u) = states'[u] /\ At(states, u) = states[u]
        BY <3>1, <3>4 DEF At
      <4>2. At(states', u).outstanding = At(states, u).outstanding + (IF u \in Again THEN 2 ELSE 0)
        BY <1>3, <2>1
      <4> QED
        BY <2>5, <3>1, <4>1, <4>2
    <3> QED
      BY <1>2, <3>3, <3>4, <3>5, <3>6 DEF Flowing, backend
  <2> QED
    BY <1>1, <1>2, <1>13, <2>1, <2>3, <2>4, <2>5 DEF Flow
<1>14. Flow'
  BY <1>2, <1>13 DEF Flow
<1> QED
  BY <1>8, <1>9, <1>10, <1>11, <1>12, <1>14 DEF WatchInv

\* Whatever the client receives, the books stay right.
LEMMA ReceiveStep ==
  ASSUME WatchInv, Receive
  PROVE  WatchInv'
<1> USE DEF WatchInv
<1>1. WatchTypes /\ ChangesFit /\ resets \subseteq Target
  BY DEF WatchTypes, WatchTypeOK
<1>2. \A u, A : Msg.type # "Filter" => ~Mismatch(u, Msg, A)
  BY DEF Mismatch
<1>3. ASSUME NEW s, inbox # <<>>, Msg.type \in {"In", "Out", "Current", "Reset", "Added", "Removed"},
             inbox' = Tail(inbox), ReadsTo(s), Aggregate(s)
      PROVE  WatchInv'
  <2>1. states' = s /\ resets' = resets
    BY <1>3 DEF Aggregate
  <2>2. UNCHANGED <<listens, token, resume, synced, current, open, requests, backend, history>>
    BY <1>3 DEF Aggregate
  <2>3. ReadsTo(states') /\ resets \subseteq resets' /\ resets' \subseteq Target
    BY <1>1, <1>3, <2>1
  <2>4. Msg.type \notin {"Snapshot", "Rejected"} /\ Msg.type # "Filter"
    BY <1>3
  <2> QED
    BY <1>2, <1>3, <2>2, <2>3, <2>4, ReadStep
<1>4. CASE DocumentIn
  <2>1. /\ inbox # <<>> /\ Msg.type = "In" /\ inbox' = Tail(inbox)
        /\ Aggregate(AddDocumentToTarget(Msg.target, Msg.doc))
    BY <1>4 DEF DocumentIn, Arrives, Msg
  <2> QED
    BY <1>1, <1>3, <2>1, DocumentReads
<1>5. CASE DocumentOut
  <2>1. /\ inbox # <<>> /\ Msg.type = "Out" /\ inbox' = Tail(inbox)
        /\ Aggregate(RemoveDocumentFromTarget(Msg.target, Msg.doc))
    BY <1>5 DEF DocumentOut, Arrives, Msg
  <2> QED
    BY <1>1, <1>3, <2>1, DocumentReads
<1>6. CASE Added
  <2>1. /\ inbox # <<>> /\ Msg.type = "Added" /\ inbox' = Tail(inbox)
        /\ Aggregate(TargetAdded(Msg.target))
    BY <1>6 DEF Added, Arrives, Msg
  <2> QED
    BY <1>1, <1>3, <2>1, AddedReads
<1>7. CASE Removed
  <2>1. /\ inbox # <<>> /\ Msg.type = "Removed" /\ inbox' = Tail(inbox)
        /\ Aggregate(TargetRemoved(Msg.target))
    BY <1>7 DEF Removed, Arrives, Msg
  <2> QED
    BY <1>1, <1>3, <2>1, RemovedReads
<1>8. CASE Current
  <2>1. /\ inbox # <<>> /\ Msg.type = "Current" /\ inbox' = Tail(inbox)
        /\ Aggregate(IF IsActiveTarget(Msg.target)
                       THEN With(states, Msg.target,
                                 [At(states, Msg.target) EXCEPT !.current = TRUE])
                       ELSE With(states, Msg.target, At(states, Msg.target)))
    BY <1>8 DEF Current, Arrives, Msg
  <2> QED
    BY <1>1, <1>3, <2>1, CurrentReads
<1>9. CASE Reset
  <2>1. /\ inbox # <<>> /\ Msg.type = "Reset" /\ inbox' = Tail(inbox)
        /\ Aggregate(With(states, Msg.target,
                          IF IsActiveTarget(Msg.target) THEN ResetState(Msg.target)
                          ELSE At(states, Msg.target)))
    BY <1>9 DEF Reset, Arrives, Msg
  <2> QED
    BY <1>1, <1>3, <2>1, ResetReads
<1>10. CASE ExistenceFilter
  <2> DEFINE wrong == IsActiveTarget(Msg.target) /\ CurrentCount(Msg.target) # Msg.count
  <2>1. /\ inbox # <<>> /\ Msg.type = "Filter" /\ inbox' = Tail(inbox)
        /\ states' = IF wrong THEN With(states, Msg.target, ResetState(Msg.target)) ELSE states
        /\ resets' = IF wrong THEN resets \union {Msg.target} ELSE resets
        /\ UNCHANGED <<listens, token, resume, synced, current, open, requests, backend, history>>
    BY <1>10 DEF ExistenceFilter, Arrives, Msg
  <2>2. wrong \in BOOLEAN /\ (wrong <=> IsActiveTarget(Msg.target) /\ CurrentCount(Msg.target) # Msg.count)
    OBVIOUS
  <2> HIDE DEF wrong
  <2>3. /\ ReadsTo(states')
        /\ \A u \in Target :
             Listening(u) /\ Mismatch(u, Msg, Shown(states[u], synced[u])) => u = Msg.target /\ wrong
    BY <1>1, <2>1, <2>2, FilterReads
  <2>4. Msg.target \in Target
    BY <1>1, <2>1, MessageRead
  <2>5. /\ resets \subseteq resets' /\ resets' \subseteq Target
        /\ \A u \in Target :
             Listening(u) /\ Mismatch(u, Msg, Shown(states[u], synced[u])) => u \in resets'
    BY <1>1, <2>1, <2>3, <2>4
  <2>6. Msg.type \notin {"Snapshot", "Rejected"}
    BY <2>1
  <2> QED
    BY <2>1, <2>3, <2>5, <2>6, ReadStep
<1>11. CASE Snapshot
  BY <1>11, SnapshotStep
<1>12. CASE Rejected
  BY <1>12, RejectedStep
<1> QED
  BY <1>4, <1>5, <1>6, <1>7, <1>8, <1>9, <1>10, <1>11, <1>12 DEF Receive
-----------------------------------------------------------------------------
(***************************************************************************)
(* Listening, and the connection                                           *)
(***************************************************************************)

\* A request under way and counted: the books stay right, and what the others wait
\* for or read is the same.
LEMMA RequestSent ==
  ASSUME WatchInv, open, NEW t \in Target, NEW r \in Request, r.target = t,
         requests' = Append(requests, r), states' = RecordPendingTargetRequest(states, t),
         UNCHANGED <<synced, open, resets, inbox, backend, overtaken>>
  PROVE  /\ Booked(states') /\ requests' \in Seq(Request) /\ requests' = requests \o <<r>>
         /\ OutstandingIsOwed' /\ ChangesFit'
         /\ \A u \in Target \ {t} : /\ Waits(u) => Waits(u)'
                                    /\ Flowing(u) => Flowing(u)'
<1> DEFINE x == At(states, t)
           y == [x EXCEPT !.outstanding = @ + 1]
           q == <<r>>
<1>1. /\ WatchTypes /\ OutstandingIsOwed /\ ChangesFit /\ Booked(states)
      /\ requests \in Seq(Request) /\ inbox \in Seq(Message)
      /\ matches \in [Target -> SUBSET Doc]
  BY DEF WatchInv, WatchTypes, WatchTypeOK, Booked
<1>2. x \in TargetState /\ Fit(x, synced[t])
  BY <1>1, FreshState DEF Booked, At, ChangesFit
<1>3. /\ y \in TargetState /\ y.outstanding = x.outstanding + 1 /\ y.changes = x.changes
  <2> HIDE DEF x
  <2> DEFINE n == x.outstanding
  <2>1. n \in Int
    BY <1>2 DEF TargetState
  <2> HIDE DEF n
  <2>2. n + 1 \in Int
    BY <2>1
  <2> QED
    BY <1>2, <2>2, ChangedState DEF n
<1>4. states' = With(states, t, y)
  BY DEF RecordPendingTargetRequest
<1> HIDE DEF x, y
<1>5. /\ Booked(states') /\ t \in DOMAIN states' /\ states'[t] = y
      /\ DOMAIN states' = DOMAIN states \union {t}
      /\ \A u \in DOMAIN states : u # t => states'[u] = states[u]
      /\ At(states', t) = y /\ \A u : u # t => At(states', u) = At(states, u)
  <2> DEFINE s == With(states, t, y)
  <2>1. Booked(states) /\ y \in TargetState /\ t \in Target
    BY <1>1, <1>3
  <2>2. /\ Booked(s) /\ t \in DOMAIN s /\ s[t] = y /\ DOMAIN s = DOMAIN states \union {t}
        /\ \A u \in DOMAIN states : u # t => s[u] = states[u]
        /\ At(s, t) = y /\ \A u : u # t => At(s, u) = At(states, u)
    BY ONLY <2>1, WithState
  <2> HIDE DEF s
  <2>3. states' = s
    BY <1>4 DEF s
  <2> QED
    BY <2>2, <2>3
<1>6. q \in Seq(Request) /\ requests' = requests \o q /\ requests' \in Seq(Request)
  <2>1. q \in Seq(Request)
    OBVIOUS
  <2>2. requests' = requests \o q
    BY <1>1, AppendIsConcat
  <2> QED
    BY <1>1, <2>1, <2>2, ConcatProperties
<1>7. \A u \in Target : r \in Asked(u) <=> u = t
  BY Elements
<1>8. \A u \in Target : Count(q, Asked(u)) = IF u = t THEN 1 ELSE 0
  BY <1>7, CountOne
<1> HIDE DEF q
<1>9. OutstandingIsOwed'
  <2> SUFFICES ASSUME NEW u \in Target \ overtaken
               PROVE  At(states', u).outstanding =
                        Count(requests \o q, Asked(u)) + Count(inbox, Answered(u))
    BY <1>6 DEF OutstandingIsOwed, Answers
  <2> DEFINE a == Count(requests, Asked(u))
             n == Count(inbox, Answered(u))
             b == At(states, u).outstanding
             k == IF u = t THEN 1 ELSE 0
  <2>1. b = a + n
    BY <1>1 DEF OutstandingIsOwed, Answers
  <2>2. Count(requests \o q, Asked(u)) = a + k
    BY <1>1, <1>6, <1>8, CountConcat
  <2>3. a \in Nat /\ n \in Nat
    BY <1>1, CountType
  <2>4. At(states', u).outstanding = b + k
    <3>1. CASE u = t
      BY <1>3, <1>5, <3>1 DEF x
    <3>2. CASE u # t
      <4>1. At(states', u).outstanding = b
        BY <1>5, <3>2
      <4>2. b \in Nat /\ k = 0
        BY <2>1, <2>3, <3>2
      <4> HIDE DEF b, k
      <4> QED
        BY <4>1, <4>2
    <3> QED
      BY <3>1, <3>2
  <2>5. k \in Nat
    OBVIOUS
  <2> HIDE DEF a, n, b, k
  <2>6. b + k = (a + k) + n
    BY <2>1, <2>3, <2>5
  <2> QED
    BY <2>2, <2>4, <2>6 DEF n
<1>10. ChangesFit'
  <2> SUFFICES ASSUME NEW u \in DOMAIN states' PROVE Fit(states'[u], synced[u])
    BY DEF ChangesFit
  <2>1. CASE u = t
    BY <1>2, <1>3, <1>5, <2>1, SameChanges
  <2>2. CASE u # t
    BY <1>1, <1>5, <2>2 DEF ChangesFit
  <2> QED
    BY <2>1, <2>2
<1>11. ASSUME NEW u \in Target \ {t}
       PROVE  (Waits(u) => Waits(u)') /\ (Flowing(u) => Flowing(u)')
  <2>1. ASSUME Waits(u) PROVE Waits(u)'
    <3>1. Silent(q, Asked(u))
      BY <1>7 DEF Silent, q
    <3>2. matches[u] \in SUBSET Doc
      BY <1>1
    <3>3. Waiting(u, requests \o q, inbox, synced[u], matches[u], u \in serving)
      BY <1>1, <1>6, <2>1, <3>1, <3>2, WaitingBehind DEF Waits
    <3> QED
      BY <1>6, <3>3 DEF Waits, backend
  <2>2. ASSUME Flowing(u) PROVE Flowing(u)'
    BY <1>5, <2>2 DEF Flowing, backend
  <2> QED
    BY <2>1, <2>2
<1> QED
  BY <1>5, <1>6, <1>9, <1>10, <1>11 DEF q

\* Listen: the Watch carries the token that fits the documents of the LocalStore.
LEMMA ListenStep ==
  ASSUME WatchInv, NEW t \in Target, Listen(t)
  PROVE  WatchInv'
<1>1. /\ WatchTypes /\ Closed /\ OutstandingIsOwed /\ ChangesFit /\ TokensFit /\ Flow
      /\ requests \in Seq(Request) /\ token[t] \in Tokens /\ token \in [Target -> Tokens]
      /\ resume \in [Target -> Tokens] /\ trust \in [Target -> {"sound", "mending", "misled"}]
      /\ listens \subseteq Target /\ current \subseteq listens /\ synced[t] \in SUBSET Doc
  BY DEF WatchInv, WatchTypes, WatchTypeOK
<1>2. /\ t \notin listens /\ listens' = listens \union {t}
      /\ resume' = [resume EXCEPT ![t] = token[t]]
      /\ trust' = [trust EXCEPT ![t] = IF @ = "mending" \/ t \in resets THEN "misled" ELSE @]
      /\ UNCHANGED <<token, synced, current, open, resets, inbox, backend, overtaken>>
  BY DEF Listen
<1>3. /\ resume'[t] = token[t] /\ \A u \in Target \ {t} : resume'[u] = resume[u]
      /\ \A u \in Target : trust'[u] # "misled" => trust'[u] = trust[u]
      /\ trust'[t] # "misled" => trust[t] = "sound"
      /\ resume' \in [Target -> Tokens]
      /\ trust' \in [Target -> {"sound", "mending", "misled"}]
  BY <1>1, <1>2
<1>4. TokensFit'
  <2>1. ASSUME NEW u \in listens', trust'[u] # "misled"
        PROVE  Consistent(resume'[u], synced[u])
    <3>1. CASE u = t
      BY <1>1, <1>3, <2>1, <3>1 DEF TokensFit
    <3>2. CASE u # t
      BY <1>1, <1>2, <1>3, <2>1, <3>2 DEF TokensFit
    <3> QED
      BY <3>1, <3>2
  <2>2. /\ \A u \in current : token[u] # NoToken
        /\ \A u \in Target : trust'[u] = "sound" => Consistent(token[u], synced[u])
    BY <1>1, <1>3 DEF TokensFit
  <2> QED
    BY <1>2, <2>1, <2>2 DEF TokensFit
<1>5. CASE open
  <2>1. /\ requests' = Append(requests, Watch(t, token[t]))
        /\ states' = RecordPendingTargetRequest(states, t)
    BY <1>5 DEF Listen
  <2>2. Watch(t, token[t]) \in Request /\ Watch(t, token[t]).target = t
    BY <1>1, Elements DEF Watch
  <2>3. /\ Booked(states') /\ requests' \in Seq(Request)
        /\ requests' = requests \o <<Watch(t, token[t])>>
        /\ OutstandingIsOwed' /\ ChangesFit'
        /\ \A u \in Target \ {t} : (Waits(u) => Waits(u)') /\ (Flowing(u) => Flowing(u)')
    BY <1>2, <1>5, <2>1, <2>2, RequestSent
  <2>4. WatchTypes'
    BY <1>1, <1>2, <1>3, <2>3 DEF WatchTypes, WatchTypeOK, Booked, backend
  <2>5. Closed'
    BY <1>2, <1>5 DEF Closed
  <2>6. ASSUME NEW u \in listens' \ overtaken, trust'[u] # "misled"
        PROVE  Waits(u)' \/ Flowing(u)'
    <3>1. CASE u = t
      <4>1. Consistent(token[t], synced[t])
        BY <1>1, <1>3, <2>6, <3>1 DEF TokensFit
      <4>2. LastWatch(t, requests \o <<Watch(t, token[t])>>, synced[t])
        BY <1>1, <4>1, LastWatchLast
      <4> QED
        BY <1>2, <2>3, <3>1, <4>2 DEF Waits, Waiting
    <3>2. CASE u # t
      <4>1. u \in listens \ overtaken /\ u \in Target \ {t} /\ trust[u] # "misled"
        BY <1>1, <1>2, <1>3, <2>6, <3>2
      <4> QED
        BY <1>1, <1>5, <2>3, <4>1 DEF Flow
    <3> QED
      BY <3>1, <3>2
  <2>7. Flow'
    BY <1>2, <2>6 DEF Flow
  <2> QED
    BY <1>4, <2>3, <2>4, <2>5, <2>7 DEF WatchInv
<1>6. CASE ~open
  <2>1. UNCHANGED <<requests, states>>
    BY <1>6 DEF Listen
  <2>2. WatchTypes'
    BY <1>1, <1>2, <1>3, <2>1 DEF WatchTypes, WatchTypeOK, backend
  <2>3. Closed' /\ OutstandingIsOwed' /\ ChangesFit' /\ Flow'
    BY <1>1, <1>2, <1>6, <2>1 DEF Closed, OutstandingIsOwed, ChangesFit, Flow, backend
  <2> QED
    BY <1>4, <2>2, <2>3 DEF WatchInv
<1> QED
  BY <1>5, <1>6

\* StopListening: the target leaves the views, its request is counted.
LEMMA StopListeningStep ==
  ASSUME WatchInv, NEW t \in Target, StopListening(t)
  PROVE  WatchInv'
<1>1. /\ WatchTypes /\ Closed /\ OutstandingIsOwed /\ ChangesFit /\ TokensFit /\ Flow
      /\ requests \in Seq(Request) /\ listens \subseteq Target /\ current \subseteq listens
  BY DEF WatchInv, WatchTypes, WatchTypeOK
<1>2. /\ listens' = listens \ {t} /\ current' = current \ {t}
      /\ UNCHANGED <<token, resume, synced, open, resets, inbox, backend, overtaken, trust>>
  BY DEF StopListening, history
<1>3. TokensFit'
  BY <1>1, <1>2 DEF TokensFit
<1>4. CASE open
  <2>1. /\ requests' = Append(requests, Unwatch(t))
        /\ states' = RecordPendingTargetRequest(states, t)
    BY <1>4 DEF StopListening
  <2>2. Unwatch(t) \in Request /\ Unwatch(t).target = t
    BY <1>1, Elements DEF Unwatch
  <2>3. /\ Booked(states') /\ requests' \in Seq(Request) /\ OutstandingIsOwed' /\ ChangesFit'
        /\ \A u \in Target \ {t} : (Waits(u) => Waits(u)') /\ (Flowing(u) => Flowing(u)')
    BY <1>2, <1>4, <2>1, <2>2, RequestSent
  <2>4. WatchTypes'
    BY <1>1, <1>2, <2>3 DEF WatchTypes, WatchTypeOK, Booked, backend
  <2>5. Closed'
    BY <1>2, <1>4 DEF Closed
  <2>6. ASSUME NEW u \in listens' \ overtaken, trust[u] # "misled"
        PROVE  Waits(u)' \/ Flowing(u)'
    <3>1. u \in listens \ overtaken /\ u \in Target \ {t}
      BY <1>1, <1>2, <2>6
    <3> QED
      BY <1>1, <1>4, <2>3, <2>6, <3>1 DEF Flow
  <2>7. Flow'
    BY <1>2, <2>6 DEF Flow
  <2> QED
    BY <1>3, <2>3, <2>4, <2>5, <2>7 DEF WatchInv
<1>5. CASE ~open
  <2>1. UNCHANGED <<requests, states>>
    BY <1>5 DEF StopListening
  <2>2. WatchTypes'
    BY <1>1, <1>2, <2>1 DEF WatchTypes, WatchTypeOK, backend
  <2>3. Closed' /\ OutstandingIsOwed' /\ ChangesFit' /\ Flow'
    BY <1>1, <1>2, <1>5, <2>1 DEF Closed, OutstandingIsOwed, ChangesFit, Flow, backend
  <2> QED
    BY <1>3, <2>2, <2>3 DEF WatchInv
<1> QED
  BY <1>4, <1>5

\* A lost connection leaves nothing under way.
LEMMA StreamClosedStep ==
  ASSUME WatchInv, StreamClosed
  PROVE  WatchInv'
<1>1. /\ open' = FALSE /\ states' = <<>> /\ resets' = {} /\ requests' = <<>> /\ inbox' = <<>>
      /\ serving' = {} /\ unsettled' = FALSE
      /\ UNCHANGED <<listens, token, resume, synced, current, matches, trust>>
  BY DEF StreamClosed
<1>2. DOMAIN states' = {} /\ requests' \in Seq(Request) /\ inbox' \in Seq(Message)
  BY <1>1
<1>3. WatchTypes'
  BY <1>1, <1>2 DEF WatchInv, WatchTypes, WatchTypeOK
<1>4. Closed' /\ OutstandingIsOwed' /\ ChangesFit' /\ Flow'
  BY <1>1, <1>2 DEF Closed, OutstandingIsOwed, ChangesFit, Flow
<1>5. TokensFit'
  BY <1>1 DEF WatchInv, TokensFit
<1> QED
  BY <1>3, <1>4, <1>5 DEF WatchInv

\* The requests of a connection made: a Watch for each target listened to.
LEMMA OpeningRequests ==
  ASSUME NEW S \in SUBSET Target, NEW q \in SetToSeqs(S), resume \in [Target -> Tokens], NEW r,
         r = [i \in DOMAIN q |-> Watch(q[i], resume[q[i]])]
  PROVE  /\ r \in Seq(Request)
         /\ \A t \in Target : /\ Count(r, Asked(t)) = IF t \in S THEN 1 ELSE 0
                              /\ t \in S => \A A : Consistent(resume[t], A) => LastWatch(t, r, A)
<1> DEFINE n == Len(q)
<1>1. IsFiniteSet(S)
  BY BoundsAssumption, FS_Subset
<1>2. /\ n \in Nat /\ DOMAIN q = 1..n /\ \A i \in 1..n : q[i] \in S
      /\ \A e \in S : \E i \in 1..n : q[i] = e
      /\ \A i, j \in 1..n : q[i] = q[j] => i = j
  BY <1>1, SetToSeqsOnce
<1> HIDE DEF n
<1>3. DOMAIN r = 1..n /\ \A i \in 1..n : r[i] = Watch(q[i], resume[q[i]])
  BY <1>2
<1>4. \A i \in 1..n : q[i] \in Target /\ r[i] \in Request /\ r[i].target = q[i]
  BY <1>2, <1>3, Elements DEF Watch
<1>5. r \in Seq(Request) /\ Len(r) = n
  <2>1. r \in [1..n -> Request]
    BY <1>2, <1>4
  <2> QED
    BY <1>2, <2>1
<1>6. \A t \in Target : \A i \in 1..n : r[i] \in Asked(t) <=> q[i] = t
  BY <1>4, Elements
<1>7. ASSUME NEW t \in Target, t \notin S PROVE Count(r, Asked(t)) = 0
  <2>1. Silent(r, Asked(t))
    BY <1>2, <1>5, <1>6, <1>7 DEF Silent
  <2> QED
    BY <1>5, <2>1, CountType
<1>8. ASSUME NEW t \in S
      PROVE  /\ Count(r, Asked(t)) = 1
             /\ \A A : Consistent(resume[t], A) => LastWatch(t, r, A)
  <2>1. PICK k \in 1..n : q[k] = t
    BY <1>2
  <2>2. t \in Target /\ resume[t] \in Tokens
    OBVIOUS
  <2>3. \A i \in 1..n : r[i] \in Asked(t) <=> i = k
    BY <1>2, <1>6, <2>1, <2>2
  <2>4. Count(r, Asked(t)) = 1
    <3>1. {i \in DOMAIN r : r[i] \in Asked(t)} = {k}
      BY <1>3, <2>3
    <3> QED
      BY <3>1, FS_Singleton DEF Count
  <2>5. PICK b \in Seq(Request), a \in Seq(Request) :
          r = (b \o <<r[k]>>) \o a /\ Silent(a, Asked(t))
    <3>1. k \in 1..Len(r) /\ \A i \in (k + 1)..Len(r) : r[i] \notin Asked(t)
      BY <1>2, <1>5, <2>3
    <3>2. \E b, a \in Seq(Request) :
            /\ r = (b \o <<r[k]>>) \o a
            /\ \A M : (\A i \in (k + 1)..Len(r) : r[i] \notin M) => Silent(a, M)
      BY <1>5, <3>1, SplitAt
    <3> QED
      BY <3>1, <3>2
  <2>6. r[k] = Watch(t, resume[t])
    BY <1>3, <2>1
  <2> QED
    BY <2>2, <2>4, <2>5, <2>6, Zenon DEF LastWatch
<1> QED
  BY <1>5, <1>7, <1>8

\* OnWatchStreamOpen: each target listened to waits for the answer to its Watch.
LEMMA StreamOpenedStep ==
  ASSUME WatchInv, StreamOpened
  PROVE  WatchInv'
<1>1. /\ WatchTypes /\ Closed /\ ChangesFit /\ TokensFit /\ ~open
      /\ listens \subseteq Target /\ resume \in [Target -> Tokens]
  BY DEF WatchInv, WatchTypes, WatchTypeOK, StreamOpened
<1>2. /\ open' = TRUE /\ inbox = <<>> /\ resets = {}
      /\ UNCHANGED <<listens, token, resume, synced, current, resets, inbox, backend,
                     overtaken, trust>>
  BY <1>1 DEF StreamOpened, Closed, history
<1>3. PICK q \in SetToSeqs(listens) :
        requests' = [i \in DOMAIN q |-> Watch(q[i], resume[q[i]])]
  BY DEF StreamOpened
<1>4. /\ requests' \in Seq(Request)
      /\ \A t \in Target : /\ Count(requests', Asked(t)) = IF t \in listens THEN 1 ELSE 0
                           /\ t \in listens => \A A : Consistent(resume[t], A) =>
                                                        LastWatch(t, requests', A)
  BY <1>1, <1>3, OpeningRequests
<1> DEFINE y == [Fresh EXCEPT !.outstanding = 1]
<1>5. y \in TargetState /\ y.outstanding = 1 /\ y.changes = Fresh.changes
  <2>1. PICK x \in TargetState : x = Fresh
    BY FreshState
  <2>2. \A n \in Int : /\ [x EXCEPT !.outstanding = n] \in TargetState
                       /\ [x EXCEPT !.outstanding = n].outstanding = n
                       /\ [x EXCEPT !.outstanding = n].changes = x.changes
    BY ChangedState
  <2>3. 1 \in Int
    OBVIOUS
  <2> QED
    BY <2>1, <2>2, <2>3, Zenon
<1>6. states' = [t \in listens |-> y]
  BY DEF StreamOpened
<1> HIDE DEF y
<1>7. /\ DOMAIN states' = listens /\ \A t \in listens : states'[t] = y
      /\ \A t : At(states', t) = IF t \in listens THEN y ELSE Fresh
  BY <1>6 DEF At
<1>8. WatchTypes'
  BY <1>1, <1>2, <1>4, <1>5, <1>7 DEF WatchTypes, WatchTypeOK, backend
<1>9. Closed'
  BY <1>2 DEF Closed
<1>10. OutstandingIsOwed'
  <2> SUFFICES ASSUME NEW t \in Target
               PROVE  At(states', t).outstanding =
                        Count(requests', Asked(t)) + Count(<<>>, Answered(t))
    BY <1>2 DEF OutstandingIsOwed, Answers
  <2>1. Count(<<>>, Answered(t)) = 0
    <3>1. <<>> \in Seq(Message) /\ Silent(<<>>, Answered(t))
      BY DEF Silent
    <3> QED
      BY <3>1, CountType
  <2>2. At(states', t).outstanding = IF t \in listens THEN 1 ELSE 0
    BY <1>5, <1>7, FreshState
  <2> QED
    BY <1>4, <2>1, <2>2
<1>11. ChangesFit'
  BY <1>5, <1>7, FreshState, SameChanges DEF ChangesFit
<1>12. TokensFit'
  BY <1>1, <1>2 DEF TokensFit
<1>13. ASSUME NEW t \in listens, trust[t] # "misled"
       PROVE  Waits(t)'
  <2>1. LastWatch(t, requests', synced[t])
    BY <1>1, <1>4, <1>13 DEF TokensFit
  <2> QED
    BY <1>2, <2>1 DEF Waits, Waiting
<1>14. Flow'
  BY <1>2, <1>13 DEF Flow
<1> QED
  BY <1>8, <1>9, <1>10, <1>11, <1>12, <1>14 DEF WatchInv
-----------------------------------------------------------------------------
(***************************************************************************)
(* The backend                                                             *)
(***************************************************************************)

\* What the backend sends of its own accord is Right for the documents before and
\* after, and no answer.
LEMMA SendStep ==
  ASSUME WatchInv, open, NEW r \in Seq(Message), inbox' = inbox \o r,
         \A u \in Target : /\ Silent(r, Answered(u))
                           /\ u \in serving => Right(u, r, matches[u], matches'[u]),
         matches' \in [Target -> SUBSET Doc],
         UNCHANGED <<client, requests, serving, history>>
  PROVE  WatchInv'
<1>1. /\ WatchTypes /\ Closed /\ OutstandingIsOwed /\ ChangesFit /\ TokensFit /\ Flow
      /\ requests \in Seq(Request) /\ inbox \in Seq(Message) /\ listens \subseteq Target
  BY DEF WatchInv, WatchTypes, WatchTypeOK
<1>2. UNCHANGED <<listens, token, resume, synced, current, open, states, resets, requests,
                  serving, overtaken, trust>>
  BY DEF client, history
<1>3. WatchTypes'
  <2>1. inbox' \in Seq(Message)
    BY <1>1, ConcatProperties
  <2> QED
    BY <1>1, <1>2, <2>1 DEF WatchTypes, WatchTypeOK
<1>4. Closed' /\ ChangesFit' /\ TokensFit'
  BY <1>1, <1>2 DEF Closed, ChangesFit, TokensFit
<1>5. OutstandingIsOwed'
  <2> SUFFICES ASSUME NEW u \in Target \ overtaken
               PROVE  At(states, u).outstanding =
                        Count(requests, Asked(u)) + Count(inbox \o r, Answered(u))
    BY <1>2 DEF OutstandingIsOwed, Answers
  <2> DEFINE n == Count(inbox, Answered(u))
  <2>1. Count(inbox \o r, Answered(u)) = n + Count(r, Answered(u))
    BY <1>1, CountConcat
  <2>2. Count(r, Answered(u)) = 0 /\ n \in Nat
    BY <1>1, CountType
  <2>3. At(states, u).outstanding = Count(requests, Asked(u)) + n
    BY <1>1 DEF OutstandingIsOwed, Answers
  <2> HIDE DEF n
  <2> QED
    BY <2>1, <2>2, <2>3
<1>6. ASSUME NEW u \in listens \ overtaken, trust[u] # "misled"
      PROVE  Waits(u)' \/ Flowing(u)'
  <2>1. u \in Target
    BY <1>1, <1>6
  <2>2. CASE Waits(u)
    <3>1. <<>> \in Seq(Request) /\ Silent(<<>>, Asked(u)) /\ requests \o <<>> = requests
      BY <1>1, ConcatEmptySeq DEF Silent
    <3>2. Waiting(u, requests \o <<>>, inbox \o r, synced[u], matches'[u], u \in serving)
      BY <1>1, <2>1, <2>2, <3>1, WaitingMore DEF Waits
    <3> QED
      BY <1>2, <3>1, <3>2 DEF Waits
  <2>3. CASE Flowing(u)
    <3>1. ASSUME u \notin resets
          PROVE  Right(u, inbox \o r, Shown(states[u], synced[u]), matches'[u])
      BY <1>1, <2>1, <2>3, <3>1, RightOn DEF Flowing
    <3> QED
      BY <1>2, <2>3, <3>1 DEF Flowing
  <2> QED
    BY <1>1, <1>6, <2>2, <2>3 DEF Flow
<1>7. Flow'
  BY <1>2, <1>6 DEF Flow
<1> QED
  BY <1>3, <1>4, <1>5, <1>7 DEF WatchInv

\* Messages about a target are no answers, and nothing for the others.
LEMMA OnlyForOne ==
  ASSUME NEW t \in Target, NEW s, Only(t, s)
  PROVE  /\ \A u : Silent(s, Answered(u))
         /\ \A u : u # t => \A A \in SUBSET Doc : Right(u, s, A, A)
<1>1. \A u : Silent(s, Answered(u))
  BY DEF Only, Silent, Answered
<1>2. ASSUME NEW u, u # t, NEW A \in SUBSET Doc PROVE Right(u, s, A, A)
  <2>1. \A i \in 1..Len(s) : ~About(u, s[i]) /\ s[i].type # "Snapshot"
    BY <1>2 DEF Only, About
  <2> QED
    BY <2>1, RunOthers DEF Only, Right
<1> QED
  BY <1>1, <1>2

\* A document that enters or leaves is sent to those who are served.
LEMMA ChangesStep ==
  ASSUME WatchInv, NEW t \in Target, NEW d \in Doc, BackendChanges(t, d)
  PROVE  WatchInv'
<1> DEFINE entered == d \notin matches[t]
           M == IF entered THEN matches[t] \union {d} ELSE matches[t] \ {d}
           r == Sent(IF entered THEN "In" ELSE "Out", t, {d})
<1>1. /\ WatchTypes /\ Closed /\ OutstandingIsOwed /\ ChangesFit /\ TokensFit /\ Flow
      /\ matches \in [Target -> SUBSET Doc] /\ inbox \in Seq(Message)
      /\ requests \in Seq(Request) /\ listens \subseteq Target
  BY DEF WatchInv, WatchTypes, WatchTypeOK
<1>2. M \in SUBSET Doc
  BY <1>1
<1>3. matches' = [matches EXCEPT ![t] = M] /\ UNCHANGED <<client, requests, serving, history>>
  BY DEF BackendChanges
<1>4. /\ matches' \in [Target -> SUBSET Doc] /\ matches'[t] = M
      /\ \A u \in Target \ {t} : matches'[u] = matches[u]
  BY <1>1, <1>2, <1>3
<1>5. Only(t, r) /\ Right(t, r, matches[t], M)
  <2>1. {d} \in SUBSET Doc /\ matches[t] \in SUBSET Doc
    BY <1>1
  <2> QED
    BY <2>1, RunIn, RunOut DEF Right
<1>6. CASE t \in serving /\ open
  <2>1. inbox' = inbox \o r
    BY <1>6 DEF BackendChanges
  <2> HIDE DEF r, M
  <2>2. r \in Seq(Message)
    BY <1>5 DEF Only
  <2>3. ASSUME NEW u \in Target
        PROVE  Silent(r, Answered(u)) /\ Right(u, r, matches[u], matches'[u])
    BY <1>1, <1>4, <1>5, OnlyForOne
  <2> QED
    BY <1>3, <1>4, <1>6, <2>1, <2>2, <2>3, SendStep
<1>7. CASE open /\ t \notin serving
  <2>1. inbox' = inbox
    BY <1>7 DEF BackendChanges
  <2>2. inbox' = inbox \o <<>> /\ <<>> \in Seq(Message)
    BY <1>1, <2>1, ConcatEmptySeq
  <2>3. ASSUME NEW u \in Target
        PROVE  /\ Silent(<<>>, Answered(u))
               /\ u \in serving => Right(u, <<>>, matches[u], matches'[u])
    <3>1. Silent(<<>>, Answered(u))
      BY DEF Silent
    <3>2. u \in serving => matches'[u] = matches[u] /\ matches[u] \in SUBSET Doc
      BY <1>1, <1>4, <1>7
    <3> QED
      BY <3>1, <3>2, ReachesNone DEF Right, Run
  <2> QED
    BY <1>3, <1>4, <1>7, <2>2, <2>3, SendStep
<1>8. CASE ~open
  <2>1. UNCHANGED <<listens, token, resume, synced, current, open, states, resets, requests,
                    serving, overtaken, trust, inbox, unsettled>>
    BY <1>3, <1>8 DEF BackendChanges, client, history
  <2>2. WatchTypes'
    BY <1>1, <1>4, <2>1 DEF WatchTypes, WatchTypeOK
  <2>3. Closed' /\ OutstandingIsOwed' /\ ChangesFit' /\ TokensFit' /\ Flow'
    BY <1>1, <1>8, <2>1 DEF Closed, OutstandingIsOwed, ChangesFit, TokensFit, Flow
  <2> QED
    BY <2>2, <2>3 DEF WatchInv
<1> QED
  BY <1>6, <1>7, <1>8

\* A target started over ends with the documents it had.
LEMMA ResetsStep ==
  ASSUME WatchInv, NEW t \in Target, BackendResets(t)
  PROVE  WatchInv'
<1> DEFINE M == matches[t]
           reset == <<Response("Reset", t)>>
           in == Sent("In", t, M)
           done == <<Response("Current", t)>>
<1>1. /\ matches \in [Target -> SUBSET Doc] /\ M \in SUBSET Doc /\ inbox \in Seq(Message)
  BY DEF WatchInv, WatchTypes, WatchTypeOK
<1>2. /\ open /\ inbox' = ((inbox \o reset) \o in) \o done
      /\ UNCHANGED <<client, requests, matches, serving, history>>
  BY DEF BackendResets, WatchInv, Closed
<1>3. Only(t, reset) /\ Right(t, reset, M, {}) /\ Only(t, done) /\ Right(t, done, M, M)
  BY <1>1, RunResponses DEF Right
<1>4. Only(t, in) /\ Right(t, in, {}, M)
  <2>1. {} \union M = M /\ {} \in SUBSET Doc
    OBVIOUS
  <2> HIDE DEF M
  <2> QED
    BY <1>1, <2>1, RunIn DEF Right
<1> HIDE DEF reset, in, done, M
<1>5. Only(t, in \o done) /\ Right(t, in \o done, {}, M)
  BY <1>3, <1>4, OnlyRightOn
<1>6. Only(t, reset \o (in \o done)) /\ Right(t, reset \o (in \o done), M, M)
  BY <1>3, <1>5, OnlyRightOn
<1>7. inbox' = inbox \o (reset \o (in \o done))
  <2>1. /\ reset \in Seq(Message) /\ in \in Seq(Message) /\ done \in Seq(Message)
        /\ inbox \o reset \in Seq(Message) /\ in \o done \in Seq(Message)
    BY <1>1, <1>3, <1>4, ConcatProperties DEF Only
  <2>2. ((inbox \o reset) \o in) \o done = (inbox \o reset) \o (in \o done)
    BY ONLY <2>1, ConcatAssociative, SMTT(60)
  <2>3. (inbox \o reset) \o (in \o done) = inbox \o (reset \o (in \o done))
    BY ONLY <1>1, <2>1, ConcatAssociative, SMTT(60)
  <2> QED
    BY <1>2, <2>2, <2>3
<1> DEFINE r == reset \o (in \o done)
<1>8. Only(t, r) /\ Right(t, r, M, M) /\ inbox' = inbox \o r
  BY <1>6, <1>7
<1> HIDE DEF r
<1>9. ASSUME NEW u \in Target
      PROVE  Silent(r, Answered(u)) /\ Right(u, r, matches[u], matches'[u])
  BY <1>1, <1>2, <1>8, OnlyForOne DEF M
<1>10. r \in Seq(Message) /\ matches' \in [Target -> SUBSET Doc]
  BY <1>1, <1>2, <1>8 DEF Only
<1> QED
  BY <1>2, <1>8, <1>9, <1>10, SendStep

\* A snapshot stands for the documents that what is sent before it leads to.
LEMMA SettlesStep ==
  ASSUME WatchInv, BackendSettles
  PROVE  WatchInv'
<1> DEFINE m == [type |-> "Snapshot", tokens |-> [u \in Target |-> Token(matches[u])]]
           r == <<m>>
<1>1. matches \in [Target -> SUBSET Doc] /\ inbox \in Seq(Message)
  BY DEF WatchInv, WatchTypes, WatchTypeOK
<1>2. /\ open /\ inbox' = Append(inbox, m)
      /\ UNCHANGED <<client, requests, matches, serving, history>>
  BY DEF BackendSettles, WatchInv, Closed
<1>3. m \in Message /\ m.type = "Snapshot" /\ \A u \in Target : m.tokens[u] = Token(matches[u])
  BY <1>1 DEF Message
<1> HIDE DEF m
<1>4. r \in Seq(Message) /\ inbox' = inbox \o r
  BY <1>1, <1>2, <1>3, AppendIsConcat
<1>5. ASSUME NEW u \in Target
      PROVE  Silent(r, Answered(u)) /\ Right(u, r, matches[u], matches'[u])
  <2>1. Silent(r, Answered(u))
    BY <1>3 DEF Silent, Answered
  <2>2. Passes(u, m, matches[u]) /\ Apply(u, m, matches[u]) = matches[u]
    BY <1>3 DEF Passes, Mismatch, Apply, About
  <2>3. matches[u] \in SUBSET Doc
    BY <1>1
  <2>4. Run(u, <<m>>, matches[u], matches[u])
    BY <1>3, <2>2, <2>3, RunOne
  <2> QED
    BY <1>2, <2>1, <2>4 DEF Right
<1> HIDE DEF r
<1>6. matches' \in [Target -> SUBSET Doc]
  BY <1>1, <1>2
<1> QED
  BY <1>2, <1>4, <1>5, <1>6, SendStep

\* A request answered: the answer is owed as the request was, and is nothing for
\* the others.
LEMMA AnswerStep ==
  ASSUME WatchInv, requests # <<>>, requests' = Tail(requests), NEW t, t = Head(requests).target,
         NEW type \in {"Added", "Rejected", "Removed"}, NEW s, Only(t, s),
         inbox' = inbox \o (<<Response(type, t)>> \o s),
         serving' \subseteq Target, \A u \in Target \ {t} : u \in serving' <=> u \in serving,
         UNCHANGED <<client, matches, history>>, Waits(t) => Waits(t)'
  PROVE  WatchInv'
<1> DEFINE a == <<Response(type, t)>>
           r == a \o s
<1>1. /\ WatchTypes /\ Closed /\ OutstandingIsOwed /\ ChangesFit /\ TokensFit /\ Flow /\ open
      /\ requests \in Seq(Request) /\ inbox \in Seq(Message) /\ listens \subseteq Target
      /\ matches \in [Target -> SUBSET Doc]
  BY DEF WatchInv, WatchTypes, WatchTypeOK, Closed
<1>2. UNCHANGED <<listens, token, resume, synced, current, open, states, resets,
                  matches, overtaken, trust>>
  BY DEF client, history
<1>3. Head(requests) \in Request /\ t \in Target /\ Tail(requests) \in Seq(Request)
  <2>1. Head(requests) \in Request /\ Tail(requests) \in Seq(Request)
    BY <1>1, HeadAndTail
  <2> QED
    BY <2>1 DEF Request
<1>4. \A u \in Target : Head(requests) \in Asked(u) <=> u = t
  BY <1>3, Elements
<1>5. /\ Response(type, t) \in Message
      /\ \A u \in Target : Response(type, t) \in Answered(u) <=> u = t
      /\ \A u : u # t => ~About(u, Response(type, t))
      /\ Response(type, t).type # "Snapshot"
  <2>1. Response(type, t) \in Message /\ Response(type, t).target = t /\ Response(type, t).type = type
    BY <1>3, Elements DEF Response
  <2> QED
    BY <2>1, Elements DEF About
<1>6. a \in Seq(Message) /\ s \in Seq(Message) /\ r \in Seq(Message) /\ inbox' = inbox \o r
  <2>1. a \in Seq(Message) /\ s \in Seq(Message)
    BY <1>5 DEF Only
  <2> QED
    BY <2>1, ConcatProperties
<1>7. \A u \in Target : Count(r, Answered(u)) = IF u = t THEN 1 ELSE 0
  <2> TAKE u \in Target
  <2>1. Count(a, Answered(u)) = IF u = t THEN 1 ELSE 0
    BY <1>5, CountOne
  <2>2. Count(s, Answered(u)) = 0
    BY <1>3, <1>6, OnlyForOne, CountType
  <2> HIDE DEF a
  <2>3. Count(r, Answered(u)) = Count(a, Answered(u)) + Count(s, Answered(u))
    BY <1>6, CountConcat
  <2> QED
    BY <2>1, <2>2, <2>3
<1>8. ASSUME NEW u \in Target \ {t}
      PROVE  /\ Silent(r, Answered(u))
             /\ \A A \in SUBSET Doc : Right(u, r, A, A)
  <2>1. Silent(r, Answered(u))
    BY <1>6, <1>7, CountType
  <2>2. ASSUME NEW A \in SUBSET Doc PROVE Right(u, r, A, A)
    <3>1. Right(u, a, A, A)
      <4>1. Passes(u, Response(type, t), A) /\ Apply(u, Response(type, t), A) = A
        BY <1>5 DEF Passes, Mismatch, Apply
      <4> QED
        BY <1>5, <4>1, RunOne DEF Right
    <3>2. Right(u, s, A, A)
      BY <1>3, OnlyForOne
    <3> HIDE DEF a
    <3> QED
      BY <1>6, <3>1, <3>2, RightOn
  <2> QED
    BY <2>1, <2>2
<1> HIDE DEF a, r
<1>9. WatchTypes'
  <2>1. inbox' \in Seq(Message) /\ requests' \in Seq(Request)
    BY <1>1, <1>3, <1>6, ConcatProperties
  <2> QED
    BY <1>1, <1>2, <2>1 DEF WatchTypes, WatchTypeOK
<1>10. Closed' /\ ChangesFit' /\ TokensFit'
  BY <1>1, <1>2 DEF Closed, ChangesFit, TokensFit
<1>11. OutstandingIsOwed'
  <2> SUFFICES ASSUME NEW u \in Target \ overtaken
               PROVE  At(states, u).outstanding =
                        Count(Tail(requests), Asked(u)) + Count(inbox \o r, Answered(u))
    BY <1>2, <1>6 DEF OutstandingIsOwed, Answers
  <2> DEFINE n == Count(inbox, Answered(u))
             m == Count(requests, Asked(u))
             k == IF u = t THEN 1 ELSE 0
  <2>1. Count(inbox \o r, Answered(u)) = n + k
    BY <1>1, <1>6, <1>7, CountConcat
  <2>2. Count(Tail(requests), Asked(u)) = m - k
    <3>1. Count(Tail(requests), Asked(u)) =
            m - (IF Head(requests) \in Asked(u) THEN 1 ELSE 0)
      BY <1>1, CountTail
    <3> QED
      BY <1>4, <3>1
  <2>3. n \in Nat /\ m \in Nat /\ k \in Nat
    BY <1>1, CountType
  <2>4. At(states, u).outstanding = m + n
    BY <1>1 DEF OutstandingIsOwed, Answers
  <2> HIDE DEF n, m, k
  <2> QED
    BY <2>1, <2>2, <2>3, <2>4
<1>12. ASSUME NEW u \in listens \ overtaken, trust[u] # "misled"
       PROVE  Waits(u)' \/ Flowing(u)'
  <2>1. u \in Target /\ u \in Target \ overtaken /\ matches[u] \in SUBSET Doc
    BY <1>1, <1>12
  <2>2. Waits(u) \/ Flowing(u)
    BY <1>1, <1>12 DEF Flow
  <2>3. CASE u = t
    <3>1. ~Flowing(t)
      <4> SUFFICES ASSUME Flowing(t) PROVE FALSE
        OBVIOUS
      <4>1. At(states, t).outstanding = 0
        BY DEF Flowing, At
      <4>2. Silent(requests, Asked(t))
        BY <1>1, <2>1, <2>3, <4>1, WaitingOrFlowing
      <4>3. Head(requests) \notin Asked(t)
        BY <1>1, <4>2, SilentEnds
      <4> QED
        BY <1>3, <1>4, <4>3
    <3> QED
      BY <2>2, <2>3, <3>1
  <2>4. CASE u # t /\ Waits(u)
    <3>1. Waiting(u, Tail(requests), inbox, synced[u], matches[u], u \in serving)
      <4>1. Head(requests) \notin Asked(u) /\ \A tok \in Tokens : Head(requests) # Watch(u, tok)
        BY <1>4, <2>1, <2>4, Elements
      <4> QED
        BY <1>1, <2>1, <2>4, <4>1, WaitingTaken DEF Waits
    <3>2. <<>> \in Seq(Request) /\ Silent(<<>>, Asked(u)) /\ Tail(requests) \o <<>> = Tail(requests)
      BY <1>3, ConcatEmptySeq DEF Silent
    <3>3. Silent(r, Answered(u)) /\ Right(u, r, matches[u], matches[u])
      BY <1>8, <2>1, <2>4
    <3>4. Waiting(u, Tail(requests) \o <<>>, inbox \o r, synced[u], matches[u], u \in serving')
      BY <1>1, <1>3, <1>6, <2>1, <2>4, <3>1, <3>2, <3>3, WaitingMore
    <3> QED
      BY <1>2, <1>6, <3>2, <3>4 DEF Waits
  <2>5. CASE u # t /\ Flowing(u)
    <3>1. ASSUME u \notin resets
          PROVE  Right(u, inbox \o r, Shown(states[u], synced[u]), matches[u])
      BY <1>1, <1>6, <1>8, <2>1, <2>5, <3>1, RightOn DEF Flowing
    <3> QED
      BY <1>2, <1>6, <2>1, <2>5, <3>1 DEF Flowing
  <2> QED
    BY <2>2, <2>3, <2>4, <2>5
<1>13. Flow'
  BY <1>2, <1>12 DEF Flow
<1> QED
  BY <1>9, <1>10, <1>11, <1>13 DEF WatchInv

\* Every token stands for some documents.
LEMMA TokenOf ==
  ASSUME NEW tok \in Tokens
  PROVE  \E ds \in SUBSET Doc : Consistent(tok, ds)
<1>1. CASE tok = NoToken
  BY <1>1 DEF Consistent
<1>2. CASE tok # NoToken
  BY <1>2 DEF Tokens, Consistent
<1> QED
  BY <1>1, <1>2

\* The answer to its last Watch is what a target waits for next.
LEMMA AnswerAwaited ==
  ASSUME WatchInv, requests # <<>>, requests' = Tail(requests), NEW t, t = Head(requests).target,
         NEW type \in {"Added", "Rejected"}, NEW s, Only(t, s),
         inbox' = (inbox \o <<Response(type, t)>>) \o s,
         type = "Added" => t \in serving' /\ Right(t, s, synced[t], matches[t]),
         UNCHANGED <<synced, matches>>, Silent(Tail(requests), Asked(t))
  PROVE  Waits(t)'
<1>1. inbox \in Seq(Message) /\ s \in Seq(Message) /\ Head(requests) \in Request
  BY HeadAndTail DEF WatchInv, WatchTypes, Only
<1>2. t \in Target
  BY <1>1 DEF Request
<1>3. Silent(s, Answered(t))
  BY <1>2, OnlyForOne
<1>4. LastAnswer(t, inbox', type, synced[t], matches[t])
  BY <1>1, <1>3, Zenon DEF LastAnswer
<1> QED
  BY <1>4 DEF Waits, Waiting

\* The answer to a request: the documents since its token, a rejection, or the end.
LEMMA AnswersStep ==
  ASSUME WatchInv, BackendAnswers
  PROVE  WatchInv'
<1>1. /\ requests # <<>> /\ requests' = Tail(requests) /\ requests \in Seq(Request)
      /\ inbox \in Seq(Message) /\ serving \subseteq Target
      /\ UNCHANGED <<client, matches, history>>
  BY DEF WatchInv, WatchTypes, WatchTypeOK, BackendAnswers
<1>2. Head(requests) \in Request
  BY <1>1, HeadAndTail
<1>3. PICK t \in Target, tok \in Tokens :
        t = Head(requests).target /\ tok = Head(requests).token
  BY <1>2 DEF Request
<1>4. matches[t] \in SUBSET Doc /\ synced[t] \in SUBSET Doc /\ UNCHANGED <<synced, matches>>
  BY <1>1, <1>3 DEF WatchInv, WatchTypes, WatchTypeOK, client
<1>5. \A x \in Message : <<x>> \in Seq(Message)
  OBVIOUS
<1>6. \A type \in {"Added", "Rejected", "Removed"} : Response(type, t) \in Message
  BY <1>3, Elements
<1>7. Waits(t) => \/ Waits(t)'
                  \/ /\ Head(requests) = Watch(t, tok) /\ Consistent(tok, synced[t])
                     /\ Silent(Tail(requests), Asked(t))
  <2>1. Head(requests) \in Asked(t)
    BY <1>2, <1>3, Elements
  <2>2. ASSUME Waits(t)
        PROVE  \/ LastWatch(t, Tail(requests), synced[t])
               \/ /\ Head(requests) = Watch(t, tok) /\ Consistent(tok, synced[t])
                  /\ Silent(Tail(requests), Asked(t))
    <3>1. \/ Head(requests) \in Asked(t) => LastWatch(t, Tail(requests), synced[t])
          \/ \E k \in Tokens : /\ Head(requests) = Watch(t, k) /\ Consistent(k, synced[t])
                               /\ Silent(Tail(requests), Asked(t))
      BY <1>1, <1>3, <2>2, WaitingTaken DEF Waits
    <3>2. \A k : Head(requests) = Watch(t, k) => k = tok
      BY <1>3 DEF Watch
    <3> QED
      BY <2>1, <3>1, <3>2
  <2>3. LastWatch(t, Tail(requests), synced[t]) => Waits(t)'
    BY <1>1, <1>4 DEF Waits, Waiting
  <2> QED
    BY <2>2, <2>3
<1>8. ASSUME NEW reply \in Since(t, tok), inbox' = inbox \o reply,
             serving' = serving \union {t}
      PROVE  WatchInv'
  <2>1. PICK ds \in SUBSET Doc : Consistent(tok, ds)
    BY <1>3, TokenOf
  <2>2. PICK s : reply = <<Response("Added", t)>> \o s /\ Only(t, s)
    BY <1>3, <1>4, <2>1, SinceIsRight
  <2>3. ASSUME Waits(t) PROVE Waits(t)'
    <3> SUFFICES ASSUME Consistent(tok, synced[t]), Silent(Tail(requests), Asked(t))
                 PROVE  Waits(t)'
      BY <1>7, <2>3
    <3>1. PICK r : /\ reply = <<Response("Added", t)>> \o r
                   /\ Only(t, r) /\ Right(t, r, synced[t], matches[t])
      BY <1>3, <1>4, SinceIsRight
    <3>2. inbox' = (inbox \o <<Response("Added", t)>>) \o r
      <4>1. <<Response("Added", t)>> \in Seq(Message) /\ r \in Seq(Message)
        BY <1>5, <1>6, <3>1 DEF Only
      <4> QED
        BY <1>1, <1>8, <3>1, <4>1, ConcatAssociative, SMTT(60)
    <3>3. t \in serving'
      BY <1>8
    <3> QED
      BY <1>1, <1>3, <1>4, <3>1, <3>2, <3>3, AnswerAwaited
  <2>4. inbox' = inbox \o (<<Response("Added", t)>> \o s)
    BY <1>8, <2>2
  <2>5. serving' \subseteq Target /\ \A u \in Target \ {t} : u \in serving' <=> u \in serving
    BY <1>1, <1>3, <1>8
  <2> QED
    BY <1>1, <1>3, <2>2, <2>3, <2>4, <2>5, AnswerStep
<1>9. ASSUME NEW type \in {"Rejected", "Removed"}, inbox' = Append(inbox, Response(type, t)),
             serving' \in {serving, serving \ {t}},
             type = "Removed" => Head(requests).type = "Unwatch"
      PROVE  WatchInv'
  <2> DEFINE a == <<Response(type, t)>>
  <2>1. a \in Seq(Message) /\ inbox' = inbox \o a
    BY <1>1, <1>5, <1>6, <1>9, AppendIsConcat
  <2> HIDE DEF a
  <2>2. inbox \o a \in Seq(Message)
    BY <1>1, <2>1, ConcatProperties
  <2>3. inbox' = inbox \o (a \o <<>>) /\ inbox' = (inbox \o a) \o <<>>
    BY <2>1, <2>2, ConcatEmptySeq
  <2>4. Only(t, <<>>)
    BY DEF Only
  <2>5. ASSUME Waits(t) PROVE Waits(t)'
    <3> SUFFICES ASSUME Head(requests) = Watch(t, tok), Silent(Tail(requests), Asked(t))
                 PROVE  Waits(t)'
      BY <1>7, <2>5
    <3>1. type = "Rejected"
      BY <1>9 DEF Watch
    <3> QED
      BY <1>1, <1>3, <1>4, <2>3, <2>4, <3>1, AnswerAwaited DEF a
  <2>6. serving' \subseteq Target /\ \A u \in Target \ {t} : u \in serving' <=> u \in serving
    BY <1>1, <1>3, <1>9
  <2> QED
    BY <1>1, <1>3, <2>3, <2>4, <2>5, <2>6, AnswerStep DEF a
<1>10. \/ \E reply \in Since(t, tok) : inbox' = inbox \o reply /\ serving' = serving \union {t}
       \/ inbox' = Append(inbox, Response("Rejected", t)) /\ serving' = serving
       \/ /\ inbox' = Append(inbox, Response("Removed", t)) /\ serving' = serving \ {t}
          /\ Head(requests).type = "Unwatch"
  BY <1>3 DEF BackendAnswers
<1> QED
  BY <1>8, <1>9, <1>10
-----------------------------------------------------------------------------
(***************************************************************************)
(* What always holds                                                       *)
(***************************************************************************)

\* Nothing listened to, nothing under way.
LEMMA WatchInit == Init => WatchInv
<1> SUFFICES ASSUME Init PROVE WatchInv
  OBVIOUS
<1>1. /\ listens = {} /\ current = {} /\ open = TRUE
      /\ token = [t \in Target |-> NoToken] /\ resume = token
      /\ synced = [t \in Target |-> {}]
      /\ states = <<>> /\ resets = {} /\ requests = <<>> /\ inbox = <<>>
      /\ matches \in [Target -> SUBSET Doc] /\ serving = {}
      /\ overtaken = {} /\ trust = [t \in Target |-> "sound"]
  BY DEF Init
<1>2. NoToken \in Tokens /\ DOMAIN states = {}
  BY <1>1 DEF Tokens
<1>3. WatchTypes
  BY <1>1, <1>2 DEF WatchTypes, WatchTypeOK
<1>4. Closed /\ ChangesFit /\ Flow
  BY <1>1, <1>2 DEF Closed, ChangesFit, Flow
<1>5. TokensFit
  BY <1>1 DEF TokensFit, Consistent
<1>6. OutstandingIsOwed
  <2> SUFFICES ASSUME NEW t \in Target
               PROVE  At(states, t).outstanding = Count(<<>>, Asked(t)) + Count(<<>>, Answered(t))
    BY <1>1 DEF OutstandingIsOwed, Answers
  <2>1. At(states, t).outstanding = 0
    BY <1>2, FreshState DEF At
  <2>2. Count(<<>>, Asked(t)) = 0 /\ Count(<<>>, Answered(t)) = 0
    <3>1. <<>> \in Seq(Message) /\ Silent(<<>>, Answered(t)) /\ Silent(<<>>, Asked(t))
      BY DEF Silent
    <3> QED
      BY <3>1, CountType
  <2> QED
    BY <2>1, <2>2
<1> QED
  BY <1>3, <1>4, <1>5, <1>6 DEF WatchInv

\* The invariant is kept by every step.
LEMMA WatchNext ==
  ASSUME WatchInv, [Next]_vars
  PROVE  WatchInv'
<1>1. CASE \E t \in Target : Listen(t) \/ StopListening(t) \/ BackendResets(t)
  BY <1>1, ListenStep, StopListeningStep, ResetsStep
<1>2. CASE \E t \in Target, d \in Doc : BackendChanges(t, d)
  BY <1>2, ChangesStep
<1>3. CASE StreamClosed \/ StreamOpened
  BY <1>3, StreamClosedStep, StreamOpenedStep
<1>4. CASE Receive
  BY <1>4, ReceiveStep
<1>5. CASE BackendAnswers \/ BackendSettles
  BY <1>5, AnswersStep, SettlesStep
<1>6. CASE UNCHANGED vars
  <2>1. UNCHANGED <<listens, token, resume, synced, current, open, states, resets, requests,
                    inbox, matches, serving, unsettled, overtaken, trust>>
    BY <1>6 DEF vars, client, backend, history
  <2> QED
    BY <2>1 DEF WatchInv, WatchTypes, WatchTypeOK, Closed, OutstandingIsOwed, Answers,
       ChangesFit, TokensFit, Flow, Waits, Flowing
<1> QED
  BY <1>1, <1>2, <1>3, <1>4, <1>5, <1>6 DEF Next

\* The inductive invariant: the books and the tokens are right, and a target
\* listened to waits for its answer or reads what leads to the backend's documents.
THEOREM WatchInductive == Spec => []WatchInv
  BY WatchInit, WatchNext, PTL DEF Spec

\* The aggregator waits for exactly the answers on their way, and what it is about
\* to raise fits the view: the assertions of view.cc on the changes of a snapshot.
THEOREM AggregatorIsSafe == Spec => []AggregatorSafety
<1>1. WatchInv => AggregatorSafety
  <2> SUFFICES ASSUME WatchInv PROVE ChangesFitView
    BY DEF AggregatorSafety, WatchInv, WatchTypes
  <2> QED
    BY DEF ChangesFitView, WatchInv, ChangesFit, Fit
<1> QED
  BY <1>1, WatchInductive, PTL

\* A view that counts as current shows the backend's documents at the moment of
\* its token, in whatever order requests, answers, resets, filters and lost
\* connections come.
THEOREM CurrentShowsBackend == Spec => []CurrentIsBackendState
<1>1. WatchInv => CurrentIsBackendState
  <2> SUFFICES ASSUME WatchInv, NEW t \in current, trust[t] = "sound"
               PROVE  token[t] = Token(synced[t])
    BY DEF CurrentIsBackendState
  <2>1. t \in Target /\ token[t] # NoToken
    BY DEF WatchInv, WatchTypes, WatchTypeOK, TokensFit
  <2>2. Consistent(token[t], synced[t])
    BY <2>1 DEF WatchInv, TokensFit
  <2> QED
    BY <2>1, <2>2 DEF Consistent
<1> QED
  BY <1>1, WatchInductive, PTL
=============================================================================
