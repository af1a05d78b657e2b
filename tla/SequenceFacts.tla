--------------------------- MODULE SequenceFacts ---------------------------
(***************************************************************************)
(* Facts about sequences and the operators of SequencesExt that the models *)
(* use, and the principle of induction they rest on.                       *)
(***************************************************************************)
EXTENDS Integers, Sequences, FiniteSets, SequencesExt, FiniteSetTheorems, TLAPS

(* Induction for sets of numbers, from the well-foundedness of the finite   *)
(* sets: 0 .. n is a strict subset of 0 .. m if n < m.                      *)

LEMMA LeastNumber ==
  ASSUME NEW T, T \subseteq Nat, T # {}
  PROVE  \E n \in T : \A m \in T : n <= m
<1> DEFINE U == {0 .. n : n \in T}
<1>1. U \subseteq FiniteSubsetsOf(Nat) /\ U # {}
  <2>1. \A n \in T : IsFiniteSet(0 .. n) /\ 0 .. n \subseteq Nat
    BY FS_Interval
  <2> QED
    BY <2>1 DEF FiniteSubsetsOf
<1>2. PICK x \in U : \A y \in U : ~ (<<y, x>> \in StrictSubsetOrdering(Nat))
  <2> HIDE DEF U
  <2> QED
    BY <1>1, FS_StrictSubsetOrderingWellFounded, WFMin
<1>3. PICK n \in T : x = 0 .. n
  OBVIOUS
<1>4. ASSUME NEW m \in T, m < n PROVE FALSE
  <2>1. 0 .. m \in U /\ 0 .. m # 0 .. n /\ 0 .. m \subseteq 0 .. n
    BY <1>4
  <2> QED
    BY <1>1, <1>2, <1>3, <2>1 DEF StrictSubsetOrdering, FiniteSubsetsOf
<1> QED
  BY <1>4

\* What holds of 0 and of n + 1 if of n holds of every number.
LEMMA Induction ==
  ASSUME NEW T, 0 \in T, \A n \in Nat : n \in T => n + 1 \in T
  PROVE  \A n \in Nat : n \in T
<1>1. SUFFICES ASSUME Nat \ T # {} PROVE FALSE
  OBVIOUS
<1>2. PICK n \in Nat \ T : \A m \in Nat \ T : n <= m
  BY <1>1, LeastNumber
<1>3. n # 0 /\ n - 1 \in Nat /\ n - 1 \notin T
  BY <1>2
<1> QED
  BY <1>2, <1>3

\* A set of numbers with a bound has a last element.
LEMMA GreatestNumber ==
  ASSUME NEW T, NEW b \in Nat, T \subseteq 0 .. b, T # {}
  PROVE  \E n \in T : \A m \in T : m <= n
<1> DEFINE U == {b - n : n \in T}
<1>1. U \subseteq Nat /\ U # {}
  <2>1. \A n \in T : b - n \in Nat
    OBVIOUS
  <2> QED
    BY <2>1
<1>2. PICK x \in U : \A y \in U : x <= y
  <2> HIDE DEF U
  <2> QED
    BY <1>1, LeastNumber
<1>3. PICK n \in T : x = b - n
  OBVIOUS
<1>4. \A m \in T : b - n <= b - m
  BY <1>2, <1>3
<1> QED
  BY <1>4

\* What holds of <<>> and of Append(s, c) if of s holds of every sequence.
LEMMA SequenceInduction ==
  ASSUME NEW C, NEW P, <<>> \in P, \A s \in Seq(C), c \in C : s \in P => Append(s, c) \in P
  PROVE  \A s \in Seq(C) : s \in P
<1> DEFINE T == {n \in Nat : \A s \in Seq(C) : Len(s) = n => s \in P}
<1>1. 0 \in T
  <2>1. \A s \in Seq(C) : Len(s) = 0 => s = <<>>
    OBVIOUS
  <2> QED
    BY <2>1
<1>2. ASSUME NEW n \in Nat, n \in T PROVE n + 1 \in T
  <2> SUFFICES ASSUME NEW s \in Seq(C), Len(s) = n + 1 PROVE s \in P
    OBVIOUS
  <2> DEFINE f == SubSeq(s, 1, n)
  <2>1. f \in Seq(C) /\ Len(f) = n /\ s[n + 1] \in C /\ s = Append(f, s[n + 1])
    <3> HIDE DEF T
    <3> QED
      OBVIOUS
  <2>2. f \in P
    BY <1>2, <2>1
  <2> HIDE DEF f, T
  <2> QED
    BY <2>1, <2>2
<1>3. \A n \in Nat : n \in T
  <2> HIDE DEF T
  <2>1. \A n \in Nat : n \in T => n + 1 \in T
    BY <1>2
  <2> QED
    BY <1>1, <2>1, Induction
<1> QED
  BY <1>3

LEMMA Singleton ==
  ASSUME NEW T, NEW c \in T
  PROVE  \E q \in Seq(T) : q = <<c>> /\ Len(q) = 1 /\ q[1] = c
<1>1. <<c>> \in Seq(T) /\ Len(<<c>>) = 1 /\ <<c>>[1] = c
  OBVIOUS
<1> QED
  BY <1>1, Zenon

LEMMA Couple ==
  ASSUME NEW T, NEW c \in T, NEW d \in T
  PROVE  \E q \in Seq(T) : q = <<c, d>> /\ Len(q) = 2 /\ q[1] = c /\ q[2] = d
<1>1. <<c, d>> \in Seq(T) /\ Len(<<c, d>>) = 2 /\ <<c, d>>[1] = c /\ <<c, d>>[2] = d
  OBVIOUS
<1> QED
  BY <1>1, Zenon

LEMMA CoupleIs ==
  ASSUME NEW T, NEW s \in Seq(T), Len(s) = 2
  PROVE  s = <<s[1], s[2]>>
  OBVIOUS

LEMMA ConcatType ==
  ASSUME NEW T, NEW s \in Seq(T), NEW t \in Seq(T)
  PROVE  \E a \in Seq(T) : a = s \o t
<1>1. s \o t \in Seq(T)
  OBVIOUS
<1> QED
  BY <1>1, Zenon

LEMMA ConcatAssociative ==
  ASSUME NEW T, NEW s \in Seq(T), NEW t \in Seq(T), NEW u \in Seq(T)
  PROVE  (s \o t) \o u = s \o (t \o u)
  OBVIOUS
-----------------------------------------------------------------------------
(* Loops over a sequence: a state that each element takes one step further. *)

\* A loop over sequences of C with states of S: where it starts, and its step.
IsLoop(S, C, a, step) == a \in S /\ step \in [S \X C -> S]

\* r[i] is the state after i elements of s.
Run(r, S, a, step, s) ==
    /\ r \in [0 .. Len(s) -> S]
    /\ r[0] = a
    /\ \A i \in 1 .. Len(s) : r[i] = step[<<r[i - 1], s[i]>>]

\* The same of a function that is not known to stay in S.
Follows(f, S, a, step, s) ==
    f[0] = a /\ \A i \in 1 .. Len(s) : f[i - 1] \in S => f[i] = step[<<f[i - 1], s[i]>>]

Iterated(S, a, step, s) == (CHOOSE r : Run(r, S, a, step, s))[Len(s)]

LEMMA RunAppended ==
  ASSUME NEW S, NEW C, NEW a, NEW step, IsLoop(S, C, a, step),
         NEW s \in Seq(C), NEW c \in C, NEW r, Run(r, S, a, step, s)
  PROVE  Run([i \in 0 .. Len(s) + 1 |-> IF i <= Len(s) THEN r[i] ELSE step[<<r[Len(s)], c>>]],
             S, a, step, Append(s, c))
<1> DEFINE g == [i \in 0 .. Len(s) + 1 |->
                    IF i <= Len(s) THEN r[i] ELSE step[<<r[Len(s)], c>>]]
           t == Append(s, c)
<1>1. Len(t) = Len(s) + 1 /\ t \in Seq(C) /\ t[Len(s) + 1] = c
      /\ \A i \in 1 .. Len(s) : t[i] = s[i]
  OBVIOUS
<1>2. r \in [0 .. Len(s) -> S] /\ r[0] = a
      /\ \A i \in 1 .. Len(s) : r[i] = step[<<r[i - 1], s[i]>>]
  BY DEF Run
<1>3. Len(s) \in Nat /\ r[Len(s)] \in S /\ step[<<r[Len(s)], c>>] \in S
  <2>1. Len(s) \in Nat /\ Len(s) \in 0 .. Len(s)
    OBVIOUS
  <2>2. r[Len(s)] \in S
    BY <1>2, <2>1
  <2>3. step \in [S \X C -> S] /\ <<r[Len(s)], c>> \in S \X C
    BY <2>2 DEF IsLoop
  <2> QED
    BY <2>1, <2>2, <2>3
<1>4. g \in [0 .. Len(t) -> S] /\ g[0] = a
  BY <1>1, <1>2, <1>3
<1>5. ASSUME NEW i \in 1 .. Len(t) PROVE g[i] = step[<<g[i - 1], t[i]>>]
  <2>1. CASE i <= Len(s)
    <3>1. i \in 1 .. Len(s) /\ i - 1 \in 0 .. Len(s) /\ i - 1 <= Len(s)
      BY <1>1, <1>3, <2>1
    <3>2. g[i] = r[i] /\ g[i - 1] = r[i - 1]
      BY <2>1, <3>1
    <3> QED
      BY <1>1, <1>2, <3>1, <3>2
  <2>2. CASE ~(i <= Len(s))
    <3>1. i = Len(s) + 1 /\ i - 1 = Len(s)
      BY <1>1, <1>3, <2>2
    <3>2. g[i - 1] = r[Len(s)] /\ g[i] = step[<<r[Len(s)], c>>]
      BY <1>3, <3>1
    <3> QED
      BY <1>1, <3>1, <3>2
  <2> QED
    BY <2>1, <2>2
<1> QED
  BY <1>4, <1>5 DEF Run

LEMMA RunExists ==
  ASSUME NEW S, NEW C, NEW a, NEW step, IsLoop(S, C, a, step)
  PROVE  \A s \in Seq(C) : \E r : Run(r, S, a, step, s)
<1> DEFINE P == {s \in Seq(C) : \E r : Run(r, S, a, step, s)}
<1>1. <<>> \in P
  <2>1. Run([i \in 0 .. 0 |-> a], S, a, step, <<>>)
    BY DEF Run, IsLoop
  <2> QED
    BY <2>1
<1>2. \A s \in Seq(C), c \in C : s \in P => Append(s, c) \in P
  <2> SUFFICES ASSUME NEW s \in Seq(C), NEW c \in C, s \in P PROVE Append(s, c) \in P
    OBVIOUS
  <2>1. PICK r : Run(r, S, a, step, s)
    OBVIOUS
  <2>2. \E q : Run(q, S, a, step, Append(s, c))
    BY <2>1, RunAppended
  <2>3. Append(s, c) \in Seq(C)
    OBVIOUS
  <2> QED
    BY <2>2, <2>3
<1>3. \A s \in Seq(C) : s \in P
  <2> HIDE DEF P
  <2> QED
    BY <1>1, <1>2, SequenceInduction
<1> QED
  BY <1>3

\* A loop has one run.
LEMMA RunUnique ==
  ASSUME NEW S, NEW C, NEW a, NEW step, IsLoop(S, C, a, step), NEW s \in Seq(C),
         NEW r, Run(r, S, a, step, s),
         NEW f, Follows(f, S, a, step, s)
  PROVE  \A i \in 0 .. Len(s) : f[i] = r[i]
<1> DEFINE T == {n \in Nat : n <= Len(s) => f[n] = r[n]}
<1>1. r \in [0 .. Len(s) -> S] /\ r[0] = a
      /\ \A i \in 1 .. Len(s) : r[i] = step[<<r[i - 1], s[i]>>]
  BY DEF Run
<1>0. f[0] = a /\ \A i \in 1 .. Len(s) : f[i - 1] \in S => f[i] = step[<<f[i - 1], s[i]>>]
  BY DEF Follows
<1>2. 0 \in T
  BY <1>0, <1>1
<1>3. ASSUME NEW n \in Nat, n \in T PROVE n + 1 \in T
  <2> SUFFICES ASSUME n + 1 <= Len(s) PROVE f[n + 1] = r[n + 1]
    OBVIOUS
  <2>1. f[n] = r[n] /\ n \in 0 .. Len(s) /\ n + 1 \in 1 .. Len(s) /\ (n + 1) - 1 = n
    BY <1>3
  <2> HIDE DEF T
  <2> QED
    BY <1>0, <1>1, <2>1
<1>4. \A n \in Nat : n \in T
  <2> HIDE DEF T
  <2>1. \A n \in Nat : n \in T => n + 1 \in T
    BY <1>3
  <2> QED
    BY <1>2, <2>1, Induction
<1> QED
  BY <1>4

LEMMA IteratedIs ==
  ASSUME NEW S, NEW C, NEW a, NEW step, IsLoop(S, C, a, step), NEW s \in Seq(C),
         NEW f, Follows(f, S, a, step, s)
  PROVE  f[Len(s)] = Iterated(S, a, step, s)
<1> DEFINE r == CHOOSE r : Run(r, S, a, step, s)
<1>1. Run(r, S, a, step, s)
  BY RunExists
<1> HIDE DEF r
<1>2. \A i \in 0 .. Len(s) : f[i] = r[i]
  BY <1>1, RunUnique
<1>3. Len(s) \in 0 .. Len(s)
  OBVIOUS
<1> QED
  BY <1>2, <1>3 DEF Iterated, r

LEMMA IteratedType ==
  ASSUME NEW S, NEW C, NEW a, NEW step, IsLoop(S, C, a, step), NEW s \in Seq(C)
  PROVE  Iterated(S, a, step, s) \in S
<1> DEFINE r == CHOOSE r : Run(r, S, a, step, s)
<1>1. Run(r, S, a, step, s)
  BY RunExists
<1> HIDE DEF r
<1>2. r[Len(s)] \in S
  BY <1>1 DEF Run
<1> QED
  BY <1>2 DEF Iterated, r

LEMMA IteratedEmpty ==
  ASSUME NEW S, NEW C, NEW a, NEW step, IsLoop(S, C, a, step)
  PROVE  Iterated(S, a, step, <<>>) = a
<1>1. PICK s : s = <<>> /\ s \in Seq(C)
  <2>1. <<>> \in Seq(C)
    OBVIOUS
  <2> QED
    BY <2>1, Zenon
<1>2. PICK f \in [{0} -> S] : f[0] = a
  <2>1. [i \in {0} |-> a] \in [{0} -> S]
    BY DEF IsLoop
  <2> QED
    BY <2>1
<1>3. Follows(f, S, a, step, s)
  BY <1>1, <1>2 DEF Follows
<1>4. f[Len(s)] = Iterated(S, a, step, s)
  BY <1>3, IteratedIs
<1> QED
  BY <1>1, <1>2, <1>4

LEMMA IteratedAppend ==
  ASSUME NEW S, NEW C, NEW a, NEW step, IsLoop(S, C, a, step), NEW s \in Seq(C), NEW c \in C
  PROVE  Iterated(S, a, step, Append(s, c)) = step[<<Iterated(S, a, step, s), c>>]
<1> DEFINE r == CHOOSE r : Run(r, S, a, step, s)
           g == [i \in 0 .. Len(s) + 1 |->
                    IF i <= Len(s) THEN r[i] ELSE step[<<r[Len(s)], c>>]]
           t == Append(s, c)
<1>1. Run(r, S, a, step, s)
  BY RunExists
<1>2. Iterated(S, a, step, s) = r[Len(s)]
  BY DEF Iterated
<1> HIDE DEF r
<1>3. Run(g, S, a, step, t)
  BY <1>1, RunAppended
<1>4. t \in Seq(C) /\ Len(t) = Len(s) + 1 /\ g[Len(s) + 1] = step[<<r[Len(s)], c>>]
  OBVIOUS
<1> HIDE DEF g, t
<1>6. Follows(g, S, a, step, t)
  BY <1>3 DEF Run, Follows
<1>5. g[Len(t)] = Iterated(S, a, step, t)
  BY <1>4, <1>6, IteratedIs
<1> QED
  BY <1>2, <1>4, <1>5 DEF t

\* A loop goes on where it stopped.
LEMMA IteratedConcat ==
  ASSUME NEW S, NEW C, NEW a, NEW step, IsLoop(S, C, a, step), NEW s \in Seq(C)
  PROVE  \A t \in Seq(C) :
            Iterated(S, a, step, s \o t) = Iterated(S, Iterated(S, a, step, s), step, t)
<1> DEFINE b == Iterated(S, a, step, s)
           P == {t \in Seq(C) : Iterated(S, a, step, s \o t) = Iterated(S, b, step, t)}
<1>1. b \in S /\ IsLoop(S, C, b, step)
  BY IteratedType DEF IsLoop
<1> HIDE DEF b
<1>2. <<>> \in P
  <2>1. s \o <<>> = s /\ <<>> \in Seq(C)
    OBVIOUS
  <2>2. Iterated(S, b, step, <<>>) = b
    BY <1>1, IteratedEmpty
  <2> QED
    BY <2>1, <2>2 DEF b
<1>3. ASSUME NEW t \in Seq(C), NEW c \in C, t \in P PROVE Append(t, c) \in P
  <2>1. s \o Append(t, c) = Append(s \o t, c) /\ s \o t \in Seq(C) /\ Append(t, c) \in Seq(C)
    OBVIOUS
  <2>0. PICK u \in Seq(C) : u = s \o t
    BY <2>1
  <2> HIDE DEF P
  <2>2. Iterated(S, a, step, Append(u, c)) = step[<<Iterated(S, a, step, u), c>>]
    <3>1. IsLoop(S, C, a, step) /\ u \in Seq(C) /\ c \in C
      BY <2>0
    <3> QED
      BY <3>1, IteratedAppend
  <2>3. Iterated(S, b, step, Append(t, c)) = step[<<Iterated(S, b, step, t), c>>]
    BY <1>1, IteratedAppend
  <2> QED
    BY <1>3, <2>0, <2>1, <2>2, <2>3 DEF P
<1>4. \A t \in Seq(C) : t \in P
  <2> HIDE DEF P
  <2> QED
    BY <1>2, <1>3, SequenceInduction
<1> QED
  BY <1>4 DEF b
-----------------------------------------------------------------------------
(* FlattenSeq.                                                              *)

Concat(T) == [p \in Seq(T) \X Seq(T) |-> p[1] \o p[2]]

LEMMA ConcatIsLoop ==
  ASSUME NEW T
  PROVE  IsLoop(Seq(T), Seq(T), <<>>, Concat(T))
  BY DEF IsLoop, Concat

Flattens(f, seqs) ==
    f = [i \in 1 .. Len(seqs) |-> IF i = 1 THEN seqs[i] ELSE f[i - 1] \o seqs[i]]

LEMMA FlattenIs ==
  ASSUME NEW T, NEW seqs \in Seq(Seq(T))
  PROVE  FlattenSeq(seqs) = Iterated(Seq(T), <<>>, Concat(T), seqs)
<1> DEFINE f == CHOOSE f : Flattens(f, seqs)
<1>1. CASE seqs = <<>>
  <2>1. FlattenSeq(<<>>) = <<>>
    BY DEF FlattenSeq
  <2> QED
    BY <1>1, <2>1, ConcatIsLoop, IteratedEmpty
<1>2. CASE seqs # <<>>
  <2>1. PICK r : Run(r, Seq(T), <<>>, Concat(T), seqs)
    BY ConcatIsLoop, RunExists
  <2>2. /\ r \in [0 .. Len(seqs) -> Seq(T)] /\ r[0] = <<>>
        /\ \A i \in 1 .. Len(seqs) : r[i] = r[i - 1] \o seqs[i]
    <3>0. r \in [0 .. Len(seqs) -> Seq(T)]
      BY <2>1 DEF Run
    <3>1. /\ r[0] = <<>>
          /\ \A i \in 1 .. Len(seqs) : r[i] = Concat(T)[<<r[i - 1], seqs[i]>>]
      BY <2>1 DEF Run
    <3>2. ASSUME NEW i \in 1 .. Len(seqs) PROVE r[i] = r[i - 1] \o seqs[i]
      <4>1. i - 1 \in 0 .. Len(seqs)
        OBVIOUS
      <4>2. PICK q : q = r[i - 1] /\ q \in Seq(T)
        BY <3>0, <4>1
      <4>3. PICK x : x = seqs[i] /\ x \in Seq(T)
        OBVIOUS
      <4>4. Concat(T)[<<q, x>>] = q \o x
        BY <4>2, <4>3 DEF Concat
      <4> QED
        BY <3>1, <4>2, <4>3, <4>4
    <3> QED
      BY <3>0, <3>1, <3>2
  <2>3. Flattens([i \in 1 .. Len(seqs) |-> r[i]], seqs)
    <3> DEFINE g == [i \in 1 .. Len(seqs) |-> r[i]]
    <3>1. ASSUME NEW i \in 1 .. Len(seqs)
          PROVE  g[i] = IF i = 1 THEN seqs[i] ELSE g[i - 1] \o seqs[i]
      <4>1. CASE i = 1
        <5>1. PICK x : x = seqs[i] /\ x \in Seq(T)
          OBVIOUS
        <5>2. r[i] = r[0] \o x
          <6>1. \A k \in 1 .. Len(seqs) : r[k] = r[k - 1] \o seqs[k]
            BY <2>2
          <6>2. r[i] = r[i - 1] \o seqs[i]
            BY <6>1, Zenon
          <6>3. i - 1 = 0
            BY <4>1
          <6> QED
            BY <5>1, <6>2, <6>3
        <5>3. <<>> \o x = x
          BY <5>1
        <5> QED
          BY <2>2, <4>1, <5>1, <5>2, <5>3
      <4>2. CASE i # 1
        <5>1. i - 1 \in 1 .. Len(seqs)
          BY <4>2
        <5> QED
          BY <2>2, <4>2, <5>1
      <4> QED
        BY <4>1, <4>2
    <3> QED
      BY <3>1 DEF Flattens
  <2>4. Flattens(f, seqs)
    BY <2>3
  <2>5. FlattenSeq(seqs) = f[Len(seqs)] /\ Len(seqs) \in 1 .. Len(seqs)
    BY <1>2 DEF FlattenSeq, Flattens
  <2> HIDE DEF f
  <2> DEFINE g == [i \in 0 .. Len(seqs) |-> IF i = 0 THEN <<>> ELSE f[i]]
  <2>6. \A i \in 1 .. Len(seqs) : f[i] = IF i = 1 THEN seqs[i] ELSE f[i - 1] \o seqs[i]
    BY <2>4 DEF Flattens
  <2>7. Follows(g, Seq(T), <<>>, Concat(T), seqs)
    <3>1. ASSUME NEW i \in 1 .. Len(seqs), g[i - 1] \in Seq(T)
          PROVE  g[i] = Concat(T)[<<g[i - 1], seqs[i]>>]
      <4>1. seqs[i] \in Seq(T) /\ i \in 0 .. Len(seqs) /\ i # 0 /\ i - 1 \in 0 .. Len(seqs)
        OBVIOUS
      <4>2. g[i] = g[i - 1] \o seqs[i]
        <5>1. CASE i = 1
          <6>1. g[i - 1] = <<>> /\ g[i] = seqs[i]
            BY <2>6, <4>1, <5>1
          <6>2. <<>> \o seqs[i] = seqs[i]
            BY <4>1
          <6> QED
            BY <6>1, <6>2
        <5>2. CASE i # 1
          <6>1. i - 1 # 0
            BY <5>2
          <6> QED
            BY <2>6, <4>1, <5>2, <6>1
        <5> QED
          BY <5>1, <5>2
      <4> HIDE DEF g
      <4> QED
        BY <3>1, <4>1, <4>2 DEF Concat
    <3>2. g[0] = <<>>
      OBVIOUS
    <3> HIDE DEF g
    <3> QED
      BY <3>1, <3>2 DEF Follows
  <2>8. g[Len(seqs)] = f[Len(seqs)]
    BY <2>5
  <2> HIDE DEF g
  <2>9. g[Len(seqs)] = Iterated(Seq(T), <<>>, Concat(T), seqs)
    BY <2>7, ConcatIsLoop, IteratedIs
  <2> QED
    BY <2>5, <2>8, <2>9
<1> QED
  BY <1>1, <1>2

LEMMA FlattenEmpty == FlattenSeq(<<>>) = <<>>
  BY DEF FlattenSeq

LEMMA FlattenAppend ==
  ASSUME NEW T, NEW seqs \in Seq(Seq(T)), NEW s \in Seq(T)
  PROVE  /\ FlattenSeq(seqs) \in Seq(T)
         /\ FlattenSeq(Append(seqs, s)) = FlattenSeq(seqs) \o s
<1> DEFINE F == Iterated(Seq(T), <<>>, Concat(T), seqs)
<1>1. F \in Seq(T)
  BY ConcatIsLoop, IteratedType
<1>2. Iterated(Seq(T), <<>>, Concat(T), Append(seqs, s)) = Concat(T)[<<F, s>>]
  BY ConcatIsLoop, IteratedAppend
<1>3. Append(seqs, s) \in Seq(Seq(T))
  OBVIOUS
<1>4. FlattenSeq(seqs) = F
      /\ FlattenSeq(Append(seqs, s)) = Iterated(Seq(T), <<>>, Concat(T), Append(seqs, s))
  BY <1>3, FlattenIs
<1> HIDE DEF F
<1>5. Concat(T)[<<F, s>>] = F \o s
  BY <1>1 DEF Concat
<1> QED
  BY <1>1, <1>2, <1>4, <1>5

LEMMA ConcatOne ==
  ASSUME NEW T, NEW s \in Seq(T), NEW t \in Seq(T), Len(t) = 1
  PROVE  s \o t = Append(s, t[1])
<1>1. PICK c \in T : t = <<c>>
  <2>1. t = <<t[1]>> /\ t[1] \in T
    OBVIOUS
  <2> QED
    BY <2>1
<1> QED
  BY <1>1

\* The concatenation of sequences of one element lists those elements.
LEMMA FlattenSingletons ==
  ASSUME NEW T, NEW seqs \in Seq(Seq(T)),
         \A i \in 1 .. Len(seqs) : Len(seqs[i]) = 1
  PROVE  /\ FlattenSeq(seqs) \in Seq(T)
         /\ Len(FlattenSeq(seqs)) = Len(seqs)
         /\ \A i \in 1 .. Len(seqs) : FlattenSeq(seqs)[i] = seqs[i][1]
<1> DEFINE C == {s \in Seq(T) : Len(s) = 1}
           Lists(ss) == /\ FlattenSeq(ss) \in Seq(T)
                        /\ Len(FlattenSeq(ss)) = Len(ss)
                        /\ \A i \in 1 .. Len(ss) : FlattenSeq(ss)[i] = ss[i][1]
           P == {ss \in Seq(C) : Lists(ss)}
<1>1. seqs \in Seq(C)
  <2>1. \A i \in 1 .. Len(seqs) : seqs[i] \in C
    OBVIOUS
  <2> HIDE DEF C
  <2> QED
    BY <2>1
<1>2. <<>> \in P
  <2>1. <<>> \in Seq(C)
    OBVIOUS
  <2>2. Lists(<<>>)
    <3>1. PICK e : e = FlattenSeq(<<>>)
      OBVIOUS
    <3>2. e = <<>>
      BY <3>1, FlattenEmpty, Zenon
    <3>3. e \in Seq(T) /\ Len(e) = Len(<<>>) /\ 1 .. Len(<<>>) = {}
      BY <3>2
    <3> QED
      BY <3>1, <3>3
  <2> HIDE DEF Lists
  <2> QED
    BY <2>1, <2>2
<1>3. ASSUME NEW ss \in Seq(C), NEW s \in C, ss \in P PROVE Append(ss, s) \in P
  <2>1. ss \in Seq(Seq(T)) /\ s \in Seq(T) /\ Len(s) = 1
    <3>1. C \subseteq Seq(T)
      OBVIOUS
    <3>2. s \in Seq(T) /\ Len(s) = 1
      OBVIOUS
    <3> HIDE DEF C, P
    <3> QED
      BY <3>1, <3>2
  <2> DEFINE F == FlattenSeq(ss)
             G == FlattenSeq(Append(ss, s))
  <2>2. G = F \o s
    BY <2>1, FlattenAppend
  <2>3. F \in Seq(T) /\ Len(F) = Len(ss) /\ \A i \in 1 .. Len(ss) : F[i] = ss[i][1]
    BY <1>3
  <2> HIDE DEF F, P, C
  <2>4. Len(Append(ss, s)) = Len(ss) + 1 /\ Append(ss, s)[Len(ss) + 1] = s
        /\ \A i \in 1 .. Len(ss) : Append(ss, s)[i] = ss[i]
    OBVIOUS
  <2>5. G \in Seq(T) /\ Len(G) = Len(ss) + 1 /\ G[Len(ss) + 1] = s[1]
        /\ \A i \in 1 .. Len(ss) : G[i] = F[i]
    BY <2>1, <2>2, <2>3, ConcatOne
  <2>6. ASSUME NEW i \in 1 .. Len(ss) + 1 PROVE G[i] = Append(ss, s)[i][1]
    <3>1. i \in 1 .. Len(ss) \/ i = Len(ss) + 1
      OBVIOUS
    <3> QED
      BY <2>3, <2>4, <2>5, <3>1
  <2>7. Lists(Append(ss, s))
    BY <2>4, <2>5, <2>6
  <2>8. Append(ss, s) \in Seq(C)
    BY <1>3
  <2> HIDE DEF Lists
  <2> QED
    BY <2>7, <2>8 DEF P
<1>4. \A ss \in Seq(C) : ss \in P
  <2> HIDE DEF C, P
  <2> QED
    BY <1>2, <1>3, SequenceInduction
<1> QED
  BY <1>1, <1>4

LEMMA SequencesOfMore ==
  ASSUME NEW A, NEW B, A \subseteq B
  PROVE  Seq(A) \subseteq Seq(B)
  OBVIOUS

LEMMA SnocOf ==
  ASSUME NEW T, NEW s \in Seq(T), s # <<>>
  PROVE  \E t \in Seq(T), c \in T : s = Append(t, c) /\ Len(s) = Len(t) + 1
<1>1. PICK n \in Nat : Len(s) = n + 1
  <2>1. Len(s) \in Nat /\ Len(s) # 0
    OBVIOUS
  <2> QED
    BY <2>1
<1>2. PICK t : t = SubSeq(s, 1, n)
  OBVIOUS
<1>3. t \in Seq(T) /\ Len(t) = n /\ s[n + 1] \in T /\ s = Append(t, s[n + 1])
  BY <1>1, <1>2
<1> QED
  BY <1>1, <1>3

-----------------------------------------------------------------------------
(* What a sequence contains.                                                *)

\* x is an element of s.
Has(s, x) == \E k \in 1 .. Len(s) : s[k] = x

\* An element more.
LEMMA AppendHas ==
  ASSUME NEW T, NEW s \in Seq(T), NEW c \in T, NEW a, a = Append(s, c), NEW x
  PROVE  (\E k \in 1 .. Len(a) : a[k] = x) <=> (\E k \in 1 .. Len(s) : s[k] = x) \/ x = c
<1>1. /\ Len(a) = Len(s) + 1 /\ a[Len(s) + 1] = c /\ Len(s) \in Nat
      /\ \A i \in 1 .. Len(s) : a[i] = s[i]
  OBVIOUS
<1>2. \A k \in 1 .. Len(s) + 1 : k \in 1 .. Len(s) \/ k = Len(s) + 1
  BY <1>1
<1>3. 1 .. Len(s) \subseteq 1 .. Len(s) + 1 /\ Len(s) + 1 \in 1 .. Len(s) + 1
  BY <1>1
<1> QED
  BY <1>1, <1>2, <1>3

LEMMA SetListed ==
  ASSUME NEW S, IsFiniteSet(S)
  PROVE  SetToSeq(S) \in Seq(S) /\ \A x : x \in S <=> Has(SetToSeq(S), x)
<1> DEFINE n == Cardinality(S)
           f == SetToSeq(S)
<1>1. n \in Nat /\ ExistsBijection(1 .. n, S)
  BY FS_CardinalityType
<1>2. PICK g : g \in Bijection(1 .. n, S)
  BY <1>1 DEF ExistsBijection
<1>3. g \in Injection(1 .. n, S)
  BY <1>2 DEF Bijection
<1>4. f \in [1 .. n -> S] /\ IsInjective(f)
  <2>1. \E h \in [1 .. n -> S] : IsInjective(h)
    BY <1>3 DEF Injection
  <2> QED
    BY <2>1 DEF SetToSeq
<1> HIDE DEF f
<1>5. f \in Injection(1 .. n, S)
  BY <1>4 DEF Injection
<1>6. Cardinality(1 .. n) = n
  BY <1>1, FS_Interval
<1>7. f \in Surjection(1 .. n, S)
  BY <1>5, <1>6, FS_Injection
<1>8. \A x \in S : \E k \in 1 .. n : f[k] = x
  BY <1>7 DEF Surjection
<1> HIDE DEF n
<1>9. f \in Seq(S) /\ Len(f) = n
  BY <1>1, <1>4
<1>10. \A x : x \in S <=> \E k \in 1 .. n : f[k] = x
  BY <1>4, <1>8
<1> QED
  BY <1>9, <1>10 DEF f, Has

LEMMA ConcatHas ==
  ASSUME NEW T, NEW s \in Seq(T), NEW t \in Seq(T), NEW x
  PROVE  Has(s \o t, x) <=> Has(s, x) \/ Has(t, x)
<1>1. PICK u : u = s \o t
  OBVIOUS
<1>2. /\ Len(u) = Len(s) + Len(t) /\ Len(s) \in Nat /\ Len(t) \in Nat
      /\ \A i \in 1 .. Len(s) : u[i] = s[i]
  BY <1>1
<1>3. \A i \in 1 .. Len(t) : u[Len(s) + i] = t[i]
  BY <1>1
<1>4. \A k \in 1 .. Len(u) : k \in 1 .. Len(s) \/ (k - Len(s) \in 1 .. Len(t) /\ Len(s) + (k - Len(s)) = k)
  BY <1>2
<1>5. \A k \in 1 .. Len(s) : k \in 1 .. Len(u)
  BY <1>2
<1>6. \A k \in 1 .. Len(t) : Len(s) + k \in 1 .. Len(u)
  BY <1>2
<1>7. ASSUME Has(u, x) PROVE Has(s, x) \/ Has(t, x)
  <2>1. PICK k \in 1 .. Len(u) : u[k] = x
    BY <1>7 DEF Has
  <2>2. CASE k \in 1 .. Len(s)
    BY <1>2, <2>1, <2>2 DEF Has
  <2>3. CASE k - Len(s) \in 1 .. Len(t) /\ Len(s) + (k - Len(s)) = k
    BY <1>3, <2>1, <2>3 DEF Has
  <2> QED
    BY <1>4, <2>2, <2>3
<1>8. ASSUME Has(s, x) PROVE Has(u, x)
  BY <1>2, <1>5, <1>8 DEF Has
<1>9. ASSUME Has(t, x) PROVE Has(u, x)
  BY <1>3, <1>6, <1>9 DEF Has
<1> QED
  BY <1>1, <1>7, <1>8, <1>9

LEMMA AppendHasOne ==
  ASSUME NEW T, NEW s \in Seq(T), NEW c \in T, NEW x
  PROVE  Has(Append(s, c), x) <=> Has(s, x) \/ x = c
  BY AppendHas DEF Has

LEMMA FlattenHas ==
  ASSUME NEW T
  PROVE  \A ss \in Seq(Seq(T)) :
            FlattenSeq(ss) \in Seq(T) /\ \A x \in T : Has(FlattenSeq(ss), x)
                                     <=> \E k \in 1 .. Len(ss) : Has(ss[k], x)
<1> DEFINE Holds(ss) ==
             FlattenSeq(ss) \in Seq(T) /\ \A x \in T : Has(FlattenSeq(ss), x)
                                      <=> \E k \in 1 .. Len(ss) : Has(ss[k], x)
           P == {ss \in Seq(Seq(T)) : Holds(ss)}
<1>1. <<>> \in P
  <2>1. PICK e \in Seq(Seq(T)) : e = <<>>
    <3>1. <<>> \in Seq(Seq(T))
      OBVIOUS
    <3> QED
      BY <3>1
  <2>2. PICK f \in Seq(T) : f = FlattenSeq(e) /\ f = <<>>
    <3>1. <<>> \in Seq(T)
      OBVIOUS
    <3> QED
      BY <2>1, <3>1, FlattenEmpty
  <2>3. Len(f) = 0 /\ Len(e) = 0
    BY <2>1, <2>2
  <2>4. Holds(e)
    BY <2>2, <2>3 DEF Has
  <2> QED
    BY <2>1, <2>4
<1>2. ASSUME NEW ss \in Seq(Seq(T)), NEW s \in Seq(T), ss \in P PROVE Append(ss, s) \in P
  <2>1. PICK f \in Seq(T) : f = FlattenSeq(ss) /\ FlattenSeq(Append(ss, s)) = f \o s
    BY FlattenAppend
  <2>2. \A x \in T : Has(f, x) <=> \E k \in 1 .. Len(ss) : Has(ss[k], x)
    BY <1>2, <2>1
  <2>3. PICK a \in Seq(Seq(T)) : a = Append(ss, s)
    <3>1. Append(ss, s) \in Seq(Seq(T))
      OBVIOUS
    <3> QED
      BY <3>1
  <2>4. /\ Len(a) = Len(ss) + 1 /\ a[Len(ss) + 1] = s /\ Len(ss) \in Nat
        /\ \A i \in 1 .. Len(ss) : a[i] = ss[i]
    BY <2>3
  <2>5. /\ \A k \in 1 .. Len(a) : k \in 1 .. Len(ss) \/ k = Len(ss) + 1
        /\ 1 .. Len(ss) \subseteq 1 .. Len(a) /\ Len(ss) + 1 \in 1 .. Len(a)
    BY <2>4
  <2>6. ASSUME NEW x \in T
        PROVE  (\E k \in 1 .. Len(a) : Has(a[k], x))
                  <=> (\E k \in 1 .. Len(ss) : Has(ss[k], x)) \/ Has(s, x)
    BY <2>4, <2>5
  <2>7. \A x \in T : Has(f \o s, x) <=> Has(f, x) \/ Has(s, x)
    BY ConcatHas
  <2>8. f \o s \in Seq(T)
    OBVIOUS
  <2>9. FlattenSeq(a) = f \o s
    BY <2>1, <2>3
  <2>10. Holds(a)
    BY <2>2, <2>6, <2>7, <2>8, <2>9
  <2> QED
    BY <2>3, <2>10
<1>3. \A ss \in Seq(Seq(T)) : ss \in P
  <2> HIDE DEF P
  <2> QED
    BY <1>1, <1>2, SequenceInduction
<1> QED
  BY <1>3
=============================================================================
