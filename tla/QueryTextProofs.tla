-------------------------- MODULE QueryTextProofs --------------------------
(***************************************************************************)
(* Lemmas on what normalizeQuery and strings.Fields make of texts of any   *)
(* length, and of the disguises of generateQuery.                          *)
(*                                                                         *)
(* The provers cannot instantiate an induction principle.  In its stead,   *)
(* suppose some text is bad and take a shortest bad one: ShortestByOne.    *)
(***************************************************************************)
EXTENDS QueryText, SequenceTheorems, WellFoundedInduction, TLAPS

\* A set of numbers has a least one.
LEMMA LeastNumber ==
    ASSUME NEW T \in SUBSET Nat, T # {}
    PROVE  \E n \in T : \A m \in T : n <= m
<1> DEFINE R == {p \in Nat \X Nat : p[1] < p[2]}
<1>1. IsWellFoundedOn(R, Nat)
  BY NatLessThanWellFounded DEF OpToRel
<1>2. PICK n \in T : \A m \in T : <<m, n>> \notin R
  <2> HIDE DEF R
  <2> QED
    BY <1>1, WFMin
<1>3. \A m \in T : ~ (m < n)
  BY <1>2
<1> QED
  BY <1>3

\* A bounded set of numbers has a greatest one.
LEMMA GreatestNumber ==
    ASSUME NEW n \in Nat, NEW T \in SUBSET (0..n), T # {}
    PROVE  \E m \in T : \A k \in T : k <= m
<1> DEFINE U == {n - k : k \in T}
<1>1. U \in SUBSET Nat /\ U # {}
  <2>1. \A k \in T : n - k \in Nat
    OBVIOUS
  <2> QED
    BY <2>1
<1>2. PICK u \in U : \A v \in U : u <= v
  <2> HIDE DEF U
  <2> QED
    BY <1>1, LeastNumber
<1>3. PICK m \in T : u = n - m
  BY <1>2
<1>4. ASSUME NEW k \in T
      PROVE  k <= m
  <2>1. n - m <= n - k
    BY <1>2, <1>3
  <2>2. k \in 0..n /\ m \in 0..n
    OBVIOUS
  <2> QED
    BY <2>1, <2>2
<1> QED
  BY <1>4

\* A set of texts has a shortest one.
LEMMA ShortestText ==
    ASSUME NEW Bad \in SUBSET Seq(Char), Bad # {}
    PROVE  \E s \in Bad : \A t \in Bad : Len(s) <= Len(t)
<1> DEFINE T == {Len(s) : s \in Bad}
<1>1. T \in SUBSET Nat /\ T # {}
  BY LenProperties
<1>2. PICK n \in T : \A m \in T : n <= m
  <2> HIDE DEF T
  <2> QED
    BY <1>1, LeastNumber
<1> QED
  BY <1>2

\* It is empty or has one more character than a good one.
LEMMA ShortestByOne ==
    ASSUME NEW Bad \in SUBSET Seq(Char), Bad # {}
    PROVE  \/ <<>> \in Bad
           \/ \E s \in Seq(Char) \ Bad, c \in Char : Append(s, c) \in Bad
<1>1. PICK s \in Bad : \A t \in Bad : Len(s) <= Len(t)
  BY ShortestText
<1>2. CASE s # <<>>
  <2>1. PICK t \in Seq(Char), c \in Char : s = Append(t, c)
    BY <1>2, SequenceEmptyOrAppend
  <2>2. Len(t) \in Nat /\ Len(s) = Len(t) + 1
    BY <2>1, AppendProperties, LenProperties
  <2>3. Len(s) \in Nat /\ ~ (Len(s) <= Len(t))
    BY <2>2
  <2>4. t \notin Bad
    BY <1>1, <2>3, Zenon
  <2> QED
    BY <2>1, <2>4, Zenon
<1> QED
  BY <1>1, <1>2

\* A character appended to the second of two texts.
LEMMA AppendConcat ==
    \A s, t \in Seq(Char), c \in Char : s \o Append(t, c) = Append(s \o t, c)
<1> TAKE s, t \in Seq(Char), c \in Char
<1>1. <<c>> \in Seq(Char) /\ s \o t \in Seq(Char)
  BY ConcatProperties
<1>2. Append(t, c) = t \o <<c>> /\ Append(s \o t, c) = (s \o t) \o <<c>>
  BY <1>1, AppendIsConcat
<1> QED
  BY <1>1, <1>2, ConcatAssociative

\* Concatenation, of which the provers shall know no more than is said here.
Cat(s, t) == s \o t

\* It is a text,
LEMMA CatText == \A s, t \in Seq(Char) : Cat(s, t) \in Seq(Char)
BY ConcatProperties DEF Cat

\* associative,
LEMMA CatAssoc ==
    \A s, t, u \in Seq(Char) : Cat(Cat(s, t), u) = Cat(s, Cat(t, u))
<1>1. \A s, t, u \in Seq(Char) : (s \o t) \o u = s \o (t \o u)
  BY ConcatAssociative
<1> QED
  BY <1>1, Zenon DEF Cat

\* and the empty text is neutral.
LEMMA CatEmpty ==
    <<>> \in Seq(Char) /\ \A s \in Seq(Char) : Cat(s, <<>>) = s /\ Cat(<<>>, s) = s
BY EmptySeq, ConcatEmptySeq DEF Cat
-----------------------------------------------------------------------------
\* What the loop over the runes has written after each of the first n.
WrittenUpTo(s, n, g) ==
    g = [i \in 0..n |->
           IF i = 0 THEN <<>>
           ELSE IF Kept(s[i]) THEN Append(g[i - 1], s[i])
           ELSE g[i - 1]]

\* Read as an equation.
LEMMA WrittenNext ==
    ASSUME NEW s, NEW n \in Nat, NEW g, WrittenUpTo(s, n, g)
    PROVE  /\ g[0] = <<>>
           /\ \A i \in 1..n :
                g[i] = IF Kept(s[i]) THEN Append(g[i - 1], s[i]) ELSE g[i - 1]
<1> DEFINE Body(i) == IF i = 0 THEN <<>>
                      ELSE IF Kept(s[i]) THEN Append(g[i - 1], s[i])
                      ELSE g[i - 1]
<1>1. g = [i \in 0..n |-> Body(i)]
  BY DEF WrittenUpTo
<1>2. \A i \in 0..n : g[i] = Body(i)
  <2> HIDE DEF Body
  <2> QED
    BY <1>1
<1>3. g[0] = Body(0) /\ \A i \in 1..n : g[i] = Body(i)
  BY <1>2
<1> QED
  BY <1>3

\* There is such a function.
LEMMA WrittenExists ==
    ASSUME NEW s, NEW n \in Nat
    PROVE  \E g : WrittenUpTo(s, n, g)
<1> DEFINE Bad == {k \in Nat : ~ \E g : WrittenUpTo(s, k, g)}
<1> SUFFICES ASSUME Bad # {}
             PROVE  FALSE
  OBVIOUS
<1>1. PICK k \in Bad : \A m \in Bad : k <= m
  <2>1. Bad \in SUBSET Nat
    OBVIOUS
  <2> HIDE DEF Bad
  <2> QED
    BY <2>1, LeastNumber
<1>2. CASE k = 0
  <2>1. WrittenUpTo(s, 0, [i \in 0..0 |-> <<>>])
    BY DEF WrittenUpTo
  <2> QED
    BY <1>1, <1>2, <2>1
<1>3. CASE k > 0
  <2>1. k - 1 \in Nat /\ k - 1 \notin Bad
    BY <1>1, <1>3
  <2>2. PICK g : WrittenUpTo(s, k - 1, g)
    BY <2>1
  <2> DEFINE h == [i \in 0..k |->
                     IF i = k
                       THEN IF Kept(s[k]) THEN Append(g[k - 1], s[k]) ELSE g[k - 1]
                       ELSE g[i]]
  <2>3. WrittenUpTo(s, k, h)
    <3>1. /\ h[0] = <<>>
          /\ h[k] = IF Kept(s[k]) THEN Append(h[k - 1], s[k]) ELSE h[k - 1]
      BY <1>1, <1>3, <2>2 DEF WrittenUpTo
    <3>2. ASSUME NEW i \in 1..(k - 1)
          PROVE  h[i] = IF Kept(s[i]) THEN Append(h[i - 1], s[i]) ELSE h[i - 1]
      <4>1. h[i] = g[i] /\ h[i - 1] = g[i - 1]
        BY <1>1, <1>3
      <4>2. g[i] = IF Kept(s[i]) THEN Append(g[i - 1], s[i]) ELSE g[i - 1]
        BY <2>1, <2>2, WrittenNext
      <4> QED
        BY <4>1, <4>2
    <3>3. DOMAIN h = 0..k /\ h = [i \in 0..k |-> h[i]]
      OBVIOUS
    <3>4. \A i \in 0..k : i = 0 \/ i \in 1..(k - 1) \/ i = k
      BY <1>1
    <3> HIDE DEF h
    <3> QED
      BY <3>1, <3>2, <3>3, <3>4, <1>3 DEF WrittenUpTo
  <2> QED
    BY <1>1, <2>3
<1> QED
  BY <1>1, <1>2, <1>3

\* Texts that begin alike have the same written after what they share.
LEMMA WrittenAlike ==
    ASSUME NEW s, NEW t, NEW n \in Nat, NEW m \in Nat, n <= m, NEW g, NEW h,
           WrittenUpTo(s, n, g), WrittenUpTo(t, m, h),
           \A i \in 1..n : s[i] = t[i]
    PROVE  g[n] = h[n]
<1> DEFINE Bad == {i \in 0..n : g[i] # h[i]}
<1> SUFFICES ASSUME Bad # {}
             PROVE  FALSE
  OBVIOUS
<1>1. PICK i \in Bad : \A j \in Bad : i <= j
  <2>1. Bad \in SUBSET Nat
    OBVIOUS
  <2> HIDE DEF Bad
  <2> QED
    BY <2>1, LeastNumber
<1>2. CASE i = 0
  BY <1>1, <1>2 DEF WrittenUpTo
<1>3. CASE i > 0
  <2>1. i - 1 \in 0..n /\ i - 1 \notin Bad
    BY <1>1, <1>3
  <2>2. i \in 1..n /\ i \in 0..m /\ s[i] = t[i]
    BY <1>1, <1>3
  <2>3. g[i] = IF Kept(s[i]) THEN Append(g[i - 1], s[i]) ELSE g[i - 1]
    BY <2>2, WrittenNext
  <2>4. h[i] = IF Kept(t[i]) THEN Append(h[i - 1], t[i]) ELSE h[i - 1]
    BY <2>2, WrittenNext
  <2> QED
    BY <1>1, <2>1, <2>2, <2>3, <2>4
<1> QED
  BY <1>1, <1>2, <1>3

\* writeKept has what is written after the last character.
LEMMA WrittenLast ==
    ASSUME NEW s \in Seq(Char)
    PROVE  \E g : WrittenUpTo(s, Len(s), g) /\ writeKept(s) = g[Len(s)]
<1> DEFINE g == CHOOSE g : WrittenUpTo(s, Len(s), g)
<1>1. WrittenUpTo(s, Len(s), g)
  <2>1. \E f : WrittenUpTo(s, Len(s), f)
    BY WrittenExists, LenProperties
  <2> QED
    BY <2>1, Zenon
<1>2. writeKept(s) = g[Len(s)]
  BY Zenon DEF writeKept, WrittenUpTo
<1> QED
  BY <1>1, <1>2

\* So each character kept is appended to what the text before it leaves.
LEMMA KeptAppend ==
    /\ writeKept(<<>>) = <<>>
    /\ \A s \in Seq(Char), c \in Char :
         writeKept(Append(s, c)) = IF Kept(c) THEN Append(writeKept(s), c)
                                   ELSE writeKept(s)
<1>1. writeKept(<<>>) = <<>>
  <2>1. PICK g : WrittenUpTo(<<>>, 0, g) /\ writeKept(<<>>) = g[0]
    BY WrittenLast, EmptySeq
  <2> QED
    BY <2>1 DEF WrittenUpTo
<1>2. ASSUME NEW s \in Seq(Char), NEW c \in Char
      PROVE  writeKept(Append(s, c)) = IF Kept(c) THEN Append(writeKept(s), c)
                                       ELSE writeKept(s)
  <2> DEFINE t == Append(s, c)
             n == Len(s)
  <2>1. /\ n \in Nat /\ t \in Seq(Char) /\ Len(t) = n + 1 /\ t[n + 1] = c
        /\ \A i \in 1..n : s[i] = t[i]
    BY AppendProperties, LenProperties
  <2> HIDE DEF t, n
  <2>2. PICK g : WrittenUpTo(s, n, g) /\ writeKept(s) = g[n]
    BY WrittenLast DEF n
  <2>3. PICK h : WrittenUpTo(t, n + 1, h) /\ writeKept(t) = h[n + 1]
    BY <2>1, WrittenLast
  <2>4. g[n] = h[n]
    BY <2>1, <2>2, <2>3, WrittenAlike
  <2>5. h[n + 1] = IF Kept(c) THEN Append(h[n], c) ELSE h[n]
    <3>1. \A i \in 1..(n + 1) :
            h[i] = IF Kept(t[i]) THEN Append(h[i - 1], t[i]) ELSE h[i - 1]
      BY <2>1, <2>3, WrittenNext
    <3>2. n + 1 \in 1..(n + 1) /\ (n + 1) - 1 = n
      BY <2>1
    <3> QED
      BY <2>1, <3>1, <3>2
  <2> QED
    BY <2>2, <2>3, <2>4, <2>5 DEF t
<1> QED
  BY <1>1, <1>2
-----------------------------------------------------------------------------
\* It writes characters of the text, and only such as are kept.
LEMMA KeptChars ==
    ASSUME NEW s \in Seq(Char)
    PROVE  /\ writeKept(s) \in Seq(Char)
           /\ \A i \in 1..Len(writeKept(s)) :
                /\ Kept(writeKept(s)[i])
                /\ \E j \in 1..Len(s) : writeKept(s)[i] = s[j]
<1> DEFINE Good(t) ==
             /\ writeKept(t) \in Seq(Char)
             /\ \A i \in 1..Len(writeKept(t)) :
                  /\ Kept(writeKept(t)[i])
                  /\ \E j \in 1..Len(t) : writeKept(t)[i] = t[j]
           Bad == {t \in Seq(Char) : ~ Good(t)}
<1> SUFFICES ASSUME Bad # {}
             PROVE  FALSE
  OBVIOUS
<1>1. Good(<<>>)
  <2>1. writeKept(<<>>) = <<>> /\ <<>> \in Seq(Char) /\ 1..Len(<<>>) = {}
    BY KeptAppend, EmptySeq
  <2> QED
    BY <2>1
<1>2. ASSUME NEW t \in Seq(Char), NEW c \in Char, Good(t)
      PROVE  Good(Append(t, c))
  <2>1. /\ Append(t, c) \in Seq(Char) /\ Len(t) \in Nat
        /\ Len(Append(t, c)) = Len(t) + 1 /\ Append(t, c)[Len(t) + 1] = c
        /\ \A i \in 1..Len(t) : Append(t, c)[i] = t[i]
    BY AppendProperties, LenProperties
  <2>2. CASE ~ Kept(c)
    BY <1>2, <2>1, <2>2, KeptAppend
  <2>3. CASE Kept(c)
    <3> DEFINE w == writeKept(t)
    <3>1. writeKept(Append(t, c)) = Append(w, c) /\ w \in Seq(Char)
      BY <1>2, <2>3, KeptAppend
    <3>2. /\ Append(w, c) \in Seq(Char) /\ Len(w) \in Nat
          /\ Len(Append(w, c)) = Len(w) + 1 /\ Append(w, c)[Len(w) + 1] = c
          /\ \A i \in 1..Len(w) : Append(w, c)[i] = w[i]
      BY <3>1, AppendProperties, LenProperties
    <3> HIDE DEF w
    <3>3. ASSUME NEW i \in 1..(Len(w) + 1)
          PROVE  /\ Kept(Append(w, c)[i])
                 /\ \E j \in 1..Len(Append(t, c)) : Append(w, c)[i] = Append(t, c)[j]
      <4>1. CASE i = Len(w) + 1
        BY <2>1, <2>3, <3>2, <4>1
      <4>2. CASE i \in 1..Len(w)
        BY <1>2, <2>1, <3>2, <4>2 DEF w
      <4>3. i = Len(w) + 1 \/ i \in 1..Len(w)
        BY <3>2
      <4> QED
        BY <4>1, <4>2, <4>3
    <3> QED
      BY <3>1, <3>2, <3>3
  <2> QED
    BY <2>2, <2>3
<1> HIDE DEF Good
<1> QED
  BY <1>1, <1>2, ShortestByOne

\* What follows a text is written after it.
LEMMA KeptConcat ==
    ASSUME NEW s \in Seq(Char), NEW t \in Seq(Char)
    PROVE  writeKept(s \o t) = writeKept(s) \o writeKept(t)
<1> DEFINE Good(u) == writeKept(s \o u) = writeKept(s) \o writeKept(u)
           Bad == {u \in Seq(Char) : ~ Good(u)}
<1> SUFFICES ASSUME Bad # {}
             PROVE  FALSE
  OBVIOUS
<1>1. Good(<<>>)
  BY KeptAppend, KeptChars, ConcatEmptySeq
<1>2. ASSUME NEW u \in Seq(Char), NEW c \in Char, Good(u)
      PROVE  Good(Append(u, c))
  <2>1. s \o u \in Seq(Char) /\ writeKept(s) \in Seq(Char) /\ writeKept(u) \in Seq(Char)
    BY ConcatProperties, KeptChars
  <2>2. s \o Append(u, c) = Append(s \o u, c)
    BY <2>1, AppendConcat
  <2>3. writeKept(s) \o Append(writeKept(u), c) = Append(writeKept(s) \o writeKept(u), c)
    BY <2>1, AppendConcat
  <2> QED
    BY <1>2, <2>1, <2>2, <2>3, KeptAppend
<1> HIDE DEF Good
<1> QED
  BY <1>1, <1>2, ShortestByOne

\* A text without symbols stays as it is, and of symbols nothing stays.
LEMMA KeptAll ==
    ASSUME NEW s \in Seq(Char), \A i \in 1..Len(s) : Kept(s[i])
    PROVE  writeKept(s) = s
<1> DEFINE Good(t) == (\A i \in 1..Len(t) : Kept(t[i])) => writeKept(t) = t
           Bad == {t \in Seq(Char) : ~ Good(t)}
<1> SUFFICES ASSUME Bad # {}
             PROVE  FALSE
  OBVIOUS
<1>1. Good(<<>>)
  BY KeptAppend
<1>2. ASSUME NEW t \in Seq(Char), NEW c \in Char, Good(t)
      PROVE  Good(Append(t, c))
  <2>1. /\ Len(t) \in Nat
        /\ Len(Append(t, c)) = Len(t) + 1 /\ Append(t, c)[Len(t) + 1] = c
        /\ \A i \in 1..Len(t) : Append(t, c)[i] = t[i]
    BY AppendProperties, LenProperties
  <2>2. ASSUME \A i \in 1..Len(Append(t, c)) : Kept(Append(t, c)[i])
        PROVE  writeKept(Append(t, c)) = Append(t, c)
    <3>1. /\ Len(t) + 1 \in 1..(Len(t) + 1)
          /\ \A i \in 1..Len(t) : i \in 1..(Len(t) + 1)
      BY <2>1
    <3>2. Kept(c) /\ \A i \in 1..Len(t) : Kept(t[i])
      BY <2>1, <2>2, <3>1, Zenon
    <3> QED
      BY <1>2, <3>2, KeptAppend
  <2> QED
    BY <2>2
<1> HIDE DEF Good
<1> QED
  BY <1>1, <1>2, ShortestByOne
-----------------------------------------------------------------------------
Spaces(s) == \A i \in 1..Len(s) : s[i] = " "

\* Neither begins nor ends with a space.
Solid(s) == s = <<>> \/ (s[1] # " " /\ s[Len(s)] # " ")

\* The characters of a text between two others.
LEMMA Between ==
    ASSUME NEW p \in Seq(Char), NEW u \in Seq(Char), NEW q \in Seq(Char),
           NEW s, s = (p \o u) \o q
    PROVE  /\ s \in Seq(Char) /\ DOMAIN s = 1..Len(s)
           /\ Len(p) \in Nat /\ Len(u) \in Nat /\ Len(q) \in Nat
           /\ Len(s) = Len(p) + Len(u) + Len(q)
           /\ \A i \in 1..Len(p) : s[i] = p[i]
           /\ \A i \in 1..Len(u) : s[Len(p) + i] = u[i]
           /\ \A i \in 1..Len(q) : s[Len(p) + Len(u) + i] = q[i]
<1>1. Len(p) \in Nat /\ Len(u) \in Nat /\ Len(q) \in Nat
  BY LenProperties
<1>2. /\ p \o u \in Seq(Char) /\ Len(p \o u) = Len(p) + Len(u)
      /\ \A i \in 1..(Len(p) + Len(u)) :
           (p \o u)[i] = IF i <= Len(p) THEN p[i] ELSE u[i - Len(p)]
  BY ConcatProperties
<1> DEFINE v == p \o u
<1> HIDE DEF v
<1>3. /\ s \in Seq(Char) /\ Len(s) = Len(v) + Len(q)
      /\ \A i \in 1..(Len(v) + Len(q)) :
           s[i] = IF i <= Len(v) THEN v[i] ELSE q[i - Len(v)]
  BY <1>2, ConcatProperties DEF v
<1>4. DOMAIN s = 1..Len(s)
  BY <1>3, LenProperties
<1>5. /\ Len(v) = Len(p) + Len(u)
      /\ \A i \in 1..(Len(p) + Len(u)) :
           v[i] = IF i <= Len(p) THEN p[i] ELSE u[i - Len(p)]
  BY <1>2 DEF v
<1>6. Len(s) = Len(p) + Len(u) + Len(q)
  BY <1>1, <1>3, <1>5
<1>7. ASSUME NEW i \in 1..Len(p)
      PROVE  s[i] = p[i]
  BY <1>1, <1>3, <1>5
<1>8. ASSUME NEW i \in 1..Len(u)
      PROVE  s[Len(p) + i] = u[i]
  <2>1. Len(p) + i \in 1..(Len(p) + Len(u)) /\ ~ (Len(p) + i <= Len(p))
        /\ (Len(p) + i) - Len(p) = i
    BY <1>1
  <2>2. v[Len(p) + i] = u[i]
    BY <1>5, <2>1
  <2>3. Len(p) + i \in 1..(Len(v) + Len(q)) /\ Len(p) + i <= Len(v)
    BY <1>1, <1>5, <2>1
  <2> QED
    BY <1>3, <2>2, <2>3
<1>9. ASSUME NEW i \in 1..Len(q)
      PROVE  s[Len(p) + Len(u) + i] = q[i]
  <2>1. /\ Len(p) + Len(u) + i \in 1..(Len(v) + Len(q))
        /\ ~ (Len(p) + Len(u) + i <= Len(v))
        /\ (Len(p) + Len(u) + i) - Len(v) = i
    BY <1>1, <1>5
  <2> QED
    BY <1>3, <2>1
<1> QED
  BY <1>1, <1>3, <1>4, <1>6, <1>7, <1>8, <1>9

\* Cutting out the text between.
LEMMA Middle ==
    ASSUME NEW p \in Seq(Char), NEW u \in Seq(Char), NEW q \in Seq(Char)
    PROVE  SubSeq((p \o u) \o q, Len(p) + 1, Len(p) + Len(u)) = u
<1> DEFINE s == (p \o u) \o q
           a == Len(p)
           n == Len(u)
           w == SubSeq(s, a + 1, a + n)
<1>1. /\ s \in Seq(Char) /\ Len(s) = a + n + Len(q)
      /\ a \in Nat /\ n \in Nat /\ Len(q) \in Nat
      /\ \A i \in 1..n : s[a + i] = u[i]
  BY Between
<1> HIDE DEF s, a, n
<1>2. \A i \in (a + 1)..(a + n) : s[i] \in Char
  <2>1. \A i \in (a + 1)..(a + n) : i \in 1..Len(s)
    BY <1>1
  <2> QED
    BY <1>1, <2>1, ElementOfSeq
<1>3. a + 1 \in Int /\ a + n \in Int
  BY <1>1
<1>4. /\ w \in Seq(Char)
      /\ Len(w) = IF a + 1 <= a + n THEN (a + n) - (a + 1) + 1 ELSE 0
      /\ \A i \in 1..((a + n) - (a + 1) + 1) : w[i] = s[(a + 1) + i - 1]
  BY <1>2, <1>3, SubSeqProperties
<1>5. /\ (IF a + 1 <= a + n THEN (a + n) - (a + 1) + 1 ELSE 0) = n
      /\ (a + n) - (a + 1) + 1 = n
      /\ \A i \in 1..n : (a + 1) + i - 1 = a + i
  BY <1>1
<1> HIDE DEF w
<1>6. \A i \in 1..Len(w) : w[i] = u[i]
  BY <1>1, <1>4, <1>5
<1>7. w = u
  BY <1>4, <1>5, <1>6, SeqEqual DEF n
<1> QED
  BY <1>7 DEF w, s, a, n

\* strings.TrimSpace takes the spaces around a text away and nothing else.
LEMMA TrimIs ==
    ASSUME NEW p \in Seq(Char), NEW u \in Seq(Char), NEW q \in Seq(Char),
           Spaces(p), Solid(u), Spaces(q)
    PROVE  TrimSpace((p \o u) \o q) = u
<1> DEFINE s == (p \o u) \o q
           a == Len(p)
           n == Len(u)
           b == Len(q)
           inner == {i \in DOMAIN s : s[i] # " "}
<1>1. /\ s \in Seq(Char) /\ DOMAIN s = 1..Len(s)
      /\ a \in Nat /\ n \in Nat /\ b \in Nat /\ Len(s) = a + n + b
      /\ \A i \in 1..a : s[i] = p[i]
      /\ \A i \in 1..n : s[a + i] = u[i]
      /\ \A i \in 1..b : s[a + n + i] = q[i]
  BY Between
<1>2. TrimSpace(s) = IF inner = {} THEN <<>> ELSE SubSeq(s, Min(inner), Max(inner))
  BY DEF TrimSpace
<1>3. \A i \in 1..a : s[i] = " "
  BY <1>1, Zenon DEF Spaces
<1>4. \A i \in 1..b : s[a + n + i] = " "
  BY <1>1, Zenon DEF Spaces
<1>5. n > 0 => u[1] # " " /\ u[n] # " "
  <2>1. n > 0 => u # <<>>
    BY EmptySeq
  <2> QED
    BY <2>1, Zenon DEF Solid
<1> HIDE DEF s, a, n, b
<1>6. \A i \in inner : i \in (a + 1)..(a + n)
  <2>1. a \in Nat /\ n \in Nat /\ b \in Nat
    BY <1>1
  <2>2. ASSUME NEW i \in 1..(a + n + b)
        PROVE  \/ i \in 1..a
               \/ i \in (a + 1)..(a + n)
               \/ \E j \in 1..b : i = a + n + j
    <3>1. a + n + (i - (a + n)) = i
      BY <2>1
    <3>2. i > a + n => i - (a + n) \in 1..b
      BY <2>1
    <3> QED
      BY <2>1, <3>1, <3>2
  <2>3. \A i \in inner : i \in 1..(a + n + b) /\ s[i] # " "
    BY <1>1, Zenon
  <2>4. ASSUME NEW i \in inner
        PROVE  i \in (a + 1)..(a + n)
    <3>1. i \in 1..(a + n + b) /\ s[i] # " "
      BY <2>3, Zenon
    <3>2. i \notin 1..a
      BY <1>3, <3>1, Zenon
    <3>3. ~ \E j \in 1..b : i = a + n + j
      BY <1>4, <3>1, Zenon
    <3> QED
      BY <2>2, <3>1, <3>2, <3>3, Zenon
  <2> QED
    BY <2>4, Zenon
<1>7. CASE n = 0
  <2>1. inner = {}
    <3>1. (a + 1)..(a + n) = {}
      BY <1>1, <1>7
    <3> HIDE DEF inner
    <3> QED
      BY <1>6, <3>1
  <2>2. u = <<>>
    BY <1>7, EmptySeq DEF n
  <2> QED
    BY <1>2, <2>1, <2>2, Zenon DEF s
<1>8. CASE n > 0
  <2>1. a + 1 \in inner /\ a + n \in inner
    <3>1. 1 \in 1..n /\ n \in 1..n /\ a + 1 \in 1..Len(s) /\ a + n \in 1..Len(s)
      BY <1>1, <1>8
    <3>2. s[a + 1] = u[1] /\ s[a + n] = u[n]
      BY <1>1, <3>1
    <3> QED
      BY <1>1, <1>5, <1>8, <3>1, <3>2, Zenon
  <2> HIDE DEF inner
  <2>2. Min(inner) = a + 1
    BY <1>1, <1>6, <2>1 DEF Min
  <2>3. Max(inner) = a + n
    BY <1>1, <1>6, <2>1 DEF Max
  <2>4. SubSeq(s, a + 1, a + n) = u
    BY Middle DEF s, a, n
  <2> QED
    BY <1>2, <2>1, <2>2, <2>3, <2>4 DEF s
<1> QED
  BY <1>1, <1>7, <1>8

\* Cutting out a part.
LEMMA Cut ==
    ASSUME NEW s \in Seq(Char), NEW i \in 1..(Len(s) + 1), NEW j \in (i - 1)..Len(s)
    PROVE  /\ SubSeq(s, i, j) \in Seq(Char)
           /\ Len(SubSeq(s, i, j)) = j - i + 1
           /\ \A k \in 1..(j - i + 1) : SubSeq(s, i, j)[k] = s[i + k - 1]
<1>1. Len(s) \in Nat /\ i \in Int /\ j \in Int
  BY LenProperties
<1>2. \A k \in i..j : s[k] \in Char
  <2>1. \A k \in i..j : k \in 1..Len(s)
    BY <1>1
  <2> QED
    BY <2>1, ElementOfSeq
<1>3. /\ SubSeq(s, i, j) \in Seq(Char)
      /\ Len(SubSeq(s, i, j)) = IF i <= j THEN j - i + 1 ELSE 0
      /\ \A k \in 1..(j - i + 1) : SubSeq(s, i, j)[k] = s[i + k - 1]
  BY <1>1, <1>2, SubSeqProperties
<1>4. (IF i <= j THEN j - i + 1 ELSE 0) = j - i + 1
  BY <1>1
<1> QED
  BY <1>3, <1>4

\* Cutting a text in three.
LEMMA ThreeParts ==
    ASSUME NEW s \in Seq(Char), NEW i \in 1..Len(s), NEW j \in 1..Len(s), i <= j
    PROVE  s = (SubSeq(s, 1, i - 1) \o SubSeq(s, i, j)) \o SubSeq(s, j + 1, Len(s))
<1>1. PICK n \in Nat : n = Len(s)
  BY LenProperties
<1>2. i \in 1..n /\ j \in 1..n
  BY <1>1
<1>3. SubSeq(s, 1, i - 1) \o SubSeq(s, (i - 1) + 1, j) = SubSeq(s, 1, j)
  <2>1. 1 \in 1..(n + 1) /\ i - 1 \in (1 - 1)..n /\ j \in (i - 1)..n
    BY <1>2
  <2> QED
    BY <1>1, <2>1, ConcatAdjacentSubSeq
<1>4. SubSeq(s, 1, j) \o SubSeq(s, j + 1, n) = SubSeq(s, 1, n)
  <2>1. 1 \in 1..(n + 1) /\ j \in (1 - 1)..n /\ n \in j..n
    BY <1>2
  <2> QED
    BY <1>1, <2>1, ConcatAdjacentSubSeq
<1>5. (i - 1) + 1 = i
  BY <1>2
<1> QED
  BY <1>1, <1>3, <1>4, <1>5, SubSeqFull

\* Every text is a solid one with spaces around it.
LEMMA SolidInside ==
    ASSUME NEW s \in Seq(Char)
    PROVE  \E p, u, q \in Seq(Char) :
             Spaces(p) /\ Solid(u) /\ Spaces(q) /\ s = (p \o u) \o q
<1>1. PICK n \in Nat : n = Len(s)
  BY LenProperties
<1> DEFINE inner == {i \in 1..n : s[i] # " "}
<1>2. CASE inner = {}
  <2>1. <<>> \in Seq(Char) /\ Spaces(<<>>) /\ Solid(<<>>)
    BY EmptySeq DEF Spaces, Solid
  <2>2. Spaces(s)
    BY <1>1, <1>2, Zenon DEF Spaces
  <2>3. s = (s \o <<>>) \o <<>>
    BY ConcatEmptySeq
  <2> QED
    BY <2>1, <2>2, <2>3
<1>3. CASE inner # {}
  <2>1. inner \in SUBSET Nat /\ inner \in SUBSET (0..n)
    <3>1. \A k \in 1..n : k \in Nat /\ k \in 0..n
      OBVIOUS
    <3> QED
      BY <3>1, Zenon
  <2>2. PICK i \in inner : \A k \in inner : i <= k
    <3> HIDE DEF inner
    <3> QED
      BY <1>3, <2>1, LeastNumber
  <2>3. PICK j \in inner : \A k \in inner : k <= j
    <3> HIDE DEF inner
    <3> QED
      BY <1>3, <2>1, GreatestNumber
  <2>4. i \in 1..n /\ j \in 1..n /\ i <= j
    BY <2>2, Zenon
  <2>5. s[i] # " " /\ s[j] # " "
    BY Zenon
  <2>6. \A k \in 1..n : s[k] # " " => i <= k /\ k <= j
    BY <2>2, <2>3, Zenon
  <2> HIDE DEF inner
  <2> DEFINE p == SubSeq(s, 1, i - 1)
             u == SubSeq(s, i, j)
             q == SubSeq(s, j + 1, n)
  <2>7. s = (p \o u) \o q
    BY <1>1, <2>4, ThreeParts
  <2>8. /\ p \in Seq(Char) /\ Len(p) = (i - 1) - 1 + 1
        /\ \A k \in 1..((i - 1) - 1 + 1) : p[k] = s[1 + k - 1]
    <3>1. 1 \in 1..(n + 1) /\ i - 1 \in (1 - 1)..n
      BY <2>4
    <3> QED
      BY <1>1, <3>1, Cut
  <2>9. /\ u \in Seq(Char) /\ Len(u) = j - i + 1
        /\ \A k \in 1..(j - i + 1) : u[k] = s[i + k - 1]
    <3>1. i \in 1..(n + 1) /\ j \in (i - 1)..n
      BY <2>4
    <3> QED
      BY <1>1, <3>1, Cut
  <2>10. /\ q \in Seq(Char) /\ Len(q) = n - (j + 1) + 1
         /\ \A k \in 1..(n - (j + 1) + 1) : q[k] = s[(j + 1) + k - 1]
    <3>1. j + 1 \in 1..(n + 1) /\ n \in ((j + 1) - 1)..n
      BY <2>4
    <3> QED
      BY <1>1, <3>1, Cut
  <2> HIDE DEF p, u, q
  <2>11. ASSUME NEW k \in 1..Len(p)
         PROVE  p[k] = " "
    <3>1. k \in 1..n /\ ~ (i <= k) /\ 1 + k - 1 = k /\ k \in 1..((i - 1) - 1 + 1)
      BY <2>4, <2>8
    <3> QED
      BY <2>6, <2>8, <3>1, Zenon
  <2>12. ASSUME NEW k \in 1..Len(q)
         PROVE  q[k] = " "
    <3>1. (j + 1) + k - 1 \in 1..n /\ ~ ((j + 1) + k - 1 <= j)
      BY <2>4, <2>10
    <3> QED
      BY <2>6, <2>10, <3>1, Zenon
  <2>13. u[1] = s[i] /\ u[Len(u)] = s[j]
    <3>1. /\ 1 \in 1..(j - i + 1) /\ i + 1 - 1 = i
          /\ j - i + 1 \in 1..(j - i + 1) /\ i + (j - i + 1) - 1 = j
      BY <2>4
    <3> QED
      BY <2>9, <3>1
  <2> QED
    BY <2>5, <2>7, <2>8, <2>9, <2>10, <2>11, <2>12, <2>13, Zenon DEF Spaces, Solid
<1> QED
  BY <1>2, <1>3, Zenon

\* TrimSpace finds it.
LEMMA Trimmed ==
    ASSUME NEW s \in Seq(Char)
    PROVE  /\ TrimSpace(s) \in Seq(Char) /\ Solid(TrimSpace(s))
           /\ \E p, q \in Seq(Char) :
                Spaces(p) /\ Spaces(q) /\ s = (p \o TrimSpace(s)) \o q
<1>1. PICK p \in Seq(Char), u \in Seq(Char), q \in Seq(Char) :
        Spaces(p) /\ Solid(u) /\ Spaces(q) /\ s = (p \o u) \o q
  BY SolidInside
<1>2. TrimSpace(s) = u
  BY <1>1, TrimIs
<1> QED
  BY <1>1, <1>2

\* Spaces and spaces are spaces.
LEMMA SpacesConcat ==
    ASSUME NEW p \in Seq(Char), NEW q \in Seq(Char), Spaces(p), Spaces(q)
    PROVE  p \o q \in Seq(Char) /\ Spaces(p \o q)
<1>1. Len(p) \in Nat /\ Len(q) \in Nat
  BY LenProperties
<1>2. /\ p \o q \in Seq(Char) /\ Len(p \o q) = Len(p) + Len(q)
      /\ \A i \in 1..(Len(p) + Len(q)) :
           (p \o q)[i] = IF i <= Len(p) THEN p[i] ELSE q[i - Len(p)]
  BY ConcatProperties
<1>3. ASSUME NEW i \in 1..(Len(p) + Len(q))
      PROVE  (i <= Len(p) /\ i \in 1..Len(p)) \/ (~ (i <= Len(p)) /\ i - Len(p) \in 1..Len(q))
  BY <1>1
<1> QED
  BY <1>2, <1>3, Zenon DEF Spaces

\* More spaces around a text change nothing.
LEMMA TrimPadded ==
    ASSUME NEW p \in Seq(Char), NEW s \in Seq(Char), NEW q \in Seq(Char),
           Spaces(p), Spaces(q)
    PROVE  TrimSpace((p \o s) \o q) = TrimSpace(s)
<1>1. PICK a \in Seq(Char), u \in Seq(Char), b \in Seq(Char) :
        Spaces(a) /\ Solid(u) /\ Spaces(b) /\ s = (a \o u) \o b
  BY SolidInside
<1>2. /\ p \o a \in Seq(Char) /\ Spaces(p \o a)
      /\ b \o q \in Seq(Char) /\ Spaces(b \o q)
  BY <1>1, SpacesConcat
<1>3. (p \o s) \o q = ((p \o a) \o u) \o (b \o q)
  <2>1. Cat(Cat(a, u), b) = Cat(a, Cat(u, b)) /\ Cat(u, b) \in Seq(Char)
    BY <1>1, CatText, CatAssoc
  <2>2. Cat(p, Cat(a, Cat(u, b))) = Cat(Cat(p, a), Cat(u, b))
        /\ Cat(p, a) \in Seq(Char)
    BY <1>1, <2>1, CatText, CatAssoc
  <2>3. Cat(Cat(p, a), Cat(u, b)) = Cat(Cat(Cat(p, a), u), b)
        /\ Cat(Cat(p, a), u) \in Seq(Char)
    BY <1>1, <2>2, CatAssoc, CatText
  <2>4. Cat(Cat(p, Cat(Cat(a, u), b)), q) = Cat(Cat(Cat(p, a), u), Cat(b, q))
    BY <1>1, <2>1, <2>2, <2>3, CatAssoc
  <2> QED
    BY <1>1, <2>4 DEF Cat
<1> DEFINE x == p \o a
           y == b \o q
<1> HIDE DEF x, y
<1>4. TrimSpace((x \o u) \o y) = u
  BY <1>1, <1>2, TrimIs DEF x, y
<1>5. TrimSpace((a \o u) \o b) = u
  BY <1>1, TrimIs
<1> QED
  BY <1>1, <1>3, <1>4, <1>5 DEF x, y
-----------------------------------------------------------------------------
\* The text without its symbols, in lower case.
Clean(s) == writeKept(Map(s, ToLower))

\* Lower case, character by character.
LEMMA LowerCase ==
    ASSUME NEW s \in Seq(Char)
    PROVE  /\ Map(s, ToLower) \in Seq(Char)
           /\ Len(Map(s, ToLower)) = Len(s)
           /\ \A i \in 1..Len(s) : Map(s, ToLower)[i] = ToLower(s[i])
<1>1. PICK n \in Nat : n = Len(s) /\ DOMAIN s = 1..n
  BY LenProperties
<1>2. \A i \in 1..n : ToLower(s[i]) \in Char
  <2>1. \A i \in 1..n : s[i] \in Char
    BY <1>1, ElementOfSeq
  <2>2. \A c \in Char : ToLower(c) \in Char
    BY Zenon DEF ToLower, Char
  <2> QED
    BY <2>1, <2>2
<1>3. Map(s, ToLower) = [i \in 1..n |-> ToLower(s[i])]
  BY <1>1 DEF Map
<1> DEFINE t == [i \in 1..n |-> ToLower(s[i])]
<1>4. t \in [1..n -> Char]
  BY <1>2
<1>5. t \in Seq(Char)
  BY <1>4, SeqDef
<1>6. DOMAIN t = 1..n /\ \A i \in 1..n : t[i] = ToLower(s[i])
  OBVIOUS
<1> HIDE DEF t
<1>7. Len(t) = n
  <2>1. Len(t) \in Nat /\ DOMAIN t = 1..Len(t)
    BY <1>5, LenProperties
  <2> QED
    BY <1>6, <2>1
<1> QED
  BY <1>1, <1>3, <1>5, <1>6, <1>7 DEF t

\* Lower case of one text after another.
LEMMA LowerConcat ==
    ASSUME NEW s \in Seq(Char), NEW t \in Seq(Char)
    PROVE  Map(s \o t, ToLower) = Map(s, ToLower) \o Map(t, ToLower)
<1>1. PICK n \in Nat, m \in Nat : n = Len(s) /\ m = Len(t)
  BY LenProperties
<1>2. /\ s \o t \in Seq(Char) /\ Len(s \o t) = n + m
      /\ \A i \in 1..(n + m) : (s \o t)[i] = IF i <= n THEN s[i] ELSE t[i - n]
  BY <1>1, ConcatProperties
<1> DEFINE st == s \o t
           x == Map(st, ToLower)
           a == Map(s, ToLower)
           b == Map(t, ToLower)
           y == a \o b
<1> HIDE DEF st
<1>3. /\ x \in Seq(Char) /\ Len(x) = n + m
      /\ \A i \in 1..(n + m) : x[i] = ToLower(st[i])
  BY <1>2, LowerCase DEF st
<1>4. /\ a \in Seq(Char) /\ Len(a) = n
      /\ \A i \in 1..n : a[i] = ToLower(s[i])
  BY <1>1, LowerCase
<1>5. /\ b \in Seq(Char) /\ Len(b) = m
      /\ \A i \in 1..m : b[i] = ToLower(t[i])
  BY <1>1, LowerCase
<1> HIDE DEF x, a, b
<1>6. /\ y \in Seq(Char) /\ Len(y) = n + m
      /\ \A i \in 1..(n + m) : y[i] = IF i <= n THEN a[i] ELSE b[i - n]
  BY <1>4, <1>5, ConcatProperties
<1> HIDE DEF y
<1>7. ASSUME NEW i \in 1..(n + m)
      PROVE  x[i] = y[i]
  <2>1. CASE i <= n
    <3>1. i \in 1..n
      BY <2>1
    <3>2. x[i] = ToLower(s[i]) /\ y[i] = a[i]
      BY <1>2, <1>3, <1>6, <2>1, Zenon DEF st
    <3> QED
      BY <1>4, <3>1, <3>2, Zenon
  <2>2. CASE ~ (i <= n)
    <3>1. i - n \in 1..m
      BY <2>2
    <3>2. x[i] = ToLower(t[i - n]) /\ y[i] = b[i - n]
      BY <1>2, <1>3, <1>6, <2>2, Zenon DEF st
    <3> QED
      BY <1>5, <3>1, <3>2, Zenon
  <2> QED
    BY <2>1, <2>2
<1>8. x = y
  BY <1>3, <1>6, <1>7, SeqEqual
<1> QED
  BY <1>8 DEF x, y, a, b, st

\* Texts that differ only in case have one lower case.
LEMMA LowerAlike ==
    ASSUME NEW s \in Seq(Char), NEW t, DOMAIN t = DOMAIN s,
           t = [i \in DOMAIN t |-> t[i]],
           \A i \in DOMAIN s : t[i] \in Char /\ ToLower(t[i]) = ToLower(s[i])
    PROVE  t \in Seq(Char) /\ Map(t, ToLower) = Map(s, ToLower)
<1>1. PICK n \in Nat : n = Len(s) /\ DOMAIN s = 1..n
  BY LenProperties
<1>2. t \in [1..n -> Char]
  BY <1>1
<1>3. t \in Seq(Char)
  BY <1>2, SeqDef
<1>4. Map(t, ToLower) = Map(s, ToLower)
  BY Zenon DEF Map
<1> QED
  BY <1>3, <1>4

\* The characters of the cleaned text.
LEMMA CleanChars ==
    ASSUME NEW s \in Seq(Char)
    PROVE  /\ Clean(s) \in Seq(Char)
           /\ \A i \in 1..Len(Clean(s)) :
                /\ Kept(Clean(s)[i]) /\ ToLower(Clean(s)[i]) = Clean(s)[i]
                /\ \E j \in 1..Len(s) : Clean(s)[i] = ToLower(s[j])
<1> DEFINE t == Map(s, ToLower)
           w == writeKept(t)
<1>1. /\ t \in Seq(Char) /\ Len(t) = Len(s)
      /\ \A i \in 1..Len(s) : t[i] = ToLower(s[i])
  BY LowerCase
<1>2. \A c \in Char : ToLower(ToLower(c)) = ToLower(c)
  BY Zenon DEF ToLower, Char
<1>3. \A j \in 1..Len(s) : s[j] \in Char
  BY ElementOfSeq
<1> HIDE DEF t
<1>4. /\ w \in Seq(Char)
      /\ \A i \in 1..Len(w) : Kept(w[i]) /\ \E j \in 1..Len(t) : w[i] = t[j]
  BY <1>1, KeptChars
<1> HIDE DEF w
<1>5. ASSUME NEW i \in 1..Len(w)
      PROVE  ToLower(w[i]) = w[i] /\ \E j \in 1..Len(s) : w[i] = ToLower(s[j])
  <2>1. PICK j \in 1..Len(s) : w[i] = ToLower(s[j])
    BY <1>1, <1>4
  <2> QED
    BY <1>2, <1>3, <2>1, Zenon
<1>6. Clean(s) = w
  BY DEF Clean, w, t
<1> QED
  BY <1>4, <1>5, <1>6

\* Cleaning goes piece by piece.
LEMMA CleanConcat ==
    ASSUME NEW s \in Seq(Char), NEW t \in Seq(Char)
    PROVE  Clean(s \o t) = Clean(s) \o Clean(t)
<1>1. Map(s, ToLower) \in Seq(Char) /\ Map(t, ToLower) \in Seq(Char)
  BY LowerCase
<1>2. Clean(s \o t) = writeKept(Map(s, ToLower) \o Map(t, ToLower))
  BY LowerConcat DEF Clean
<1> DEFINE a == Map(s, ToLower)
           b == Map(t, ToLower)
<1> HIDE DEF a, b
<1>3. writeKept(a \o b) = writeKept(a) \o writeKept(b)
  BY <1>1, KeptConcat DEF a, b
<1> QED
  BY <1>2, <1>3 DEF Clean, a, b

\* A text of lower case without symbols is clean.
LEMMA CleanStays ==
    ASSUME NEW s \in Seq(Char),
           \A i \in 1..Len(s) : Kept(s[i]) /\ ToLower(s[i]) = s[i]
    PROVE  Clean(s) = s
<1>1. /\ Map(s, ToLower) \in Seq(Char) /\ Len(Map(s, ToLower)) = Len(s)
      /\ \A i \in 1..Len(s) : Map(s, ToLower)[i] = ToLower(s[i])
  BY LowerCase
<1>2. Map(s, ToLower) = s
  <2> DEFINE t == Map(s, ToLower)
  <2>1. t \in Seq(Char) /\ Len(t) = Len(s) /\ \A i \in 1..Len(t) : t[i] = s[i]
    BY <1>1
  <2> HIDE DEF t
  <2>2. t = s
    BY <2>1, SeqEqual
  <2> QED
    BY <2>2 DEF t
<1>3. writeKept(s) = s
  BY KeptAll
<1> QED
  BY <1>2, <1>3 DEF Clean

\* Spaces are.
LEMMA CleanSpaces ==
    ASSUME NEW s \in Seq(Char), Spaces(s)
    PROVE  Clean(s) = s
<1>1. Kept(" ") /\ ToLower(" ") = " "
  BY DEF Kept, ToLower
<1>2. \A i \in 1..Len(s) : Kept(s[i]) /\ ToLower(s[i]) = s[i]
  BY <1>1, Zenon DEF Spaces
<1> QED
  BY <1>2, CleanStays

\* The first of normalizeQuery's two TrimSpace leaves nothing to do that the
\* second would not.
LEMMA NormalForm ==
    ASSUME NEW s \in Seq(Char)
    PROVE  normalizeQuery(s) = TrimSpace(Clean(s))
<1> DEFINE t == Map(s, ToLower)
           u == TrimSpace(t)
           w == writeKept(u)
<1>1. t \in Seq(Char)
  BY LowerCase
<1> HIDE DEF t
<1>2. u \in Seq(Char)
  BY <1>1, Trimmed
<1>3. PICK p \in Seq(Char), q \in Seq(Char) :
        Spaces(p) /\ Spaces(q) /\ t = (p \o u) \o q
  BY <1>1, Trimmed
<1> HIDE DEF u
<1>4. writeKept(p) = p /\ writeKept(q) = q
  <2>1. Kept(" ")
    BY DEF Kept
  <2>2. /\ \A i \in 1..Len(p) : Kept(p[i])
        /\ \A i \in 1..Len(q) : Kept(q[i])
    BY <1>3, <2>1, Zenon DEF Spaces
  <2> QED
    BY <2>2, KeptAll
<1>5. writeKept(t) = (p \o w) \o q
  <2>1. p \o u \in Seq(Char)
    BY <1>2, ConcatProperties
  <2>2. writeKept((p \o u) \o q) = writeKept(p \o u) \o writeKept(q)
    BY <2>1, KeptConcat
  <2>3. writeKept(p \o u) = writeKept(p) \o writeKept(u)
    BY <1>2, KeptConcat
  <2> QED
    BY <1>3, <1>4, <2>2, <2>3
<1>6. w \in Seq(Char)
  BY <1>2, KeptChars
<1> HIDE DEF w
<1>7. TrimSpace((p \o w) \o q) = TrimSpace(w)
  BY <1>3, <1>6, TrimPadded
<1>8. normalizeQuery(s) = TrimSpace(w)
  BY DEF normalizeQuery, w, u, t
<1> QED
  BY <1>5, <1>7, <1>8 DEF Clean, t

\* A text in normal form: clean and solid.
IsNormal(s) ==
    /\ s \in Seq(Char) /\ Solid(s)
    /\ \A i \in 1..Len(s) : Kept(s[i]) /\ ToLower(s[i]) = s[i]

\* normalizeQuery returns such a text,
LEMMA NormalIsNormal ==
    ASSUME NEW s \in Seq(Char)
    PROVE  IsNormal(normalizeQuery(s))
<1> DEFINE w == Clean(s)
           u == TrimSpace(w)
<1>1. /\ w \in Seq(Char)
      /\ \A i \in 1..Len(w) : Kept(w[i]) /\ ToLower(w[i]) = w[i]
  BY CleanChars
<1>2. normalizeQuery(s) = u
  BY NormalForm
<1> HIDE DEF w
<1>3. u \in Seq(Char) /\ Solid(u)
  BY <1>1, Trimmed
<1>4. PICK p \in Seq(Char), q \in Seq(Char) : w = (p \o u) \o q
  BY <1>1, Trimmed
<1> HIDE DEF u
<1>5. /\ Len(p) \in Nat /\ Len(u) \in Nat /\ Len(q) \in Nat
      /\ Len(w) = Len(p) + Len(u) + Len(q)
      /\ \A i \in 1..Len(u) : w[Len(p) + i] = u[i]
  BY <1>3, <1>4, Between
<1>6. \A i \in 1..Len(u) : Len(p) + i \in 1..Len(w)
  BY <1>5
<1>7. \A i \in 1..Len(u) : Kept(u[i]) /\ ToLower(u[i]) = u[i]
  BY <1>1, <1>5, <1>6, Zenon
<1> QED
  BY <1>2, <1>3, <1>7 DEF IsNormal

\* and changes none.
LEMMA NormalStays ==
    ASSUME NEW s, IsNormal(s)
    PROVE  normalizeQuery(s) = s
<1>1. /\ s \in Seq(Char) /\ Solid(s)
      /\ \A i \in 1..Len(s) : Kept(s[i]) /\ ToLower(s[i]) = s[i]
  BY DEF IsNormal
<1>2. Clean(s) = s
  BY <1>1, CleanStays
<1>3. <<>> \in Seq(Char) /\ Spaces(<<>>) /\ s = (<<>> \o s) \o <<>>
  BY <1>1, EmptySeq, ConcatEmptySeq DEF Spaces
<1>4. TrimSpace((<<>> \o s) \o <<>>) = s
  BY <1>1, <1>3, TrimIs
<1> QED
  BY <1>1, <1>2, <1>3, <1>4, NormalForm

\* A normal form is its own normal form.
LEMMA Idempotent ==
    ASSUME NEW s \in Seq(Char)
    PROVE  normalizeQuery(normalizeQuery(s)) = normalizeQuery(s)
BY NormalIsNormal, NormalStays

\* Of symbols nothing is left.
LEMMA CleanSymbols ==
    ASSUME NEW s \in Seq(Char), \A i \in 1..Len(s) : s[i] = "-"
    PROVE  Clean(s) = <<>>
<1> DEFINE w == Clean(s)
<1>1. /\ w \in Seq(Char)
      /\ \A i \in 1..Len(w) : Kept(w[i]) /\ \E j \in 1..Len(s) : w[i] = ToLower(s[j])
  BY CleanChars
<1> HIDE DEF w
<1>2. ~ Kept(ToLower("-"))
  BY DEF Kept, ToLower
<1>3. 1..Len(w) = {}
  BY <1>1, <1>2, Zenon
<1>4. Len(w) = 0
  BY <1>1, <1>3, LenProperties
<1>5. w = <<>>
  BY <1>1, <1>4, EmptySeq
<1> QED
  BY <1>5 DEF w

\* Equal but for case.
LEMMA CaseIsUndone ==
    ASSUME NEW s \in Seq(Char), NEW t, DOMAIN t = DOMAIN s,
           t = [i \in DOMAIN t |-> t[i]],
           \A i \in DOMAIN s : t[i] \in {s[i], upper(s[i]), lower(s[i])}
    PROVE  t \in Seq(Char) /\ normalizeQuery(t) = normalizeQuery(s)
<1>1. \A c \in Char :
        /\ upper(c) \in Char /\ ToLower(upper(c)) = ToLower(c)
        /\ lower(c) \in Char /\ ToLower(lower(c)) = ToLower(c)
  BY Zenon DEF Char, upper, lower, ToLower
<1>2. \A i \in DOMAIN s : s[i] \in Char
  BY ElementOfSeq, LenProperties
<1>3. \A i \in DOMAIN s : t[i] \in Char /\ ToLower(t[i]) = ToLower(s[i])
  <2> TAKE i \in DOMAIN s
  <2>1. t[i] = s[i] \/ t[i] = upper(s[i]) \/ t[i] = lower(s[i])
    OBVIOUS
  <2> QED
    BY <1>1, <1>2, <2>1
<1>4. t \in Seq(Char) /\ Map(t, ToLower) = Map(s, ToLower)
  BY <1>3, LowerAlike
<1> QED
  BY <1>4, NormalForm DEF Clean

\* strings.Repeat of one character.
LEMMA Repeated ==
    ASSUME NEW c \in Char, NEW n \in Nat
    PROVE  /\ [i \in 1..n |-> c] \in Seq(Char)
           /\ \A k \in 1..Len([i \in 1..n |-> c]) : [i \in 1..n |-> c][k] = c
<1> DEFINE s == [i \in 1..n |-> c]
<1>1. s \in [1..n -> Char]
  OBVIOUS
<1>2. s \in Seq(Char)
  BY <1>1, SeqDef
<1>3. DOMAIN s = 1..n /\ \A i \in 1..n : s[i] = c
  OBVIOUS
<1> HIDE DEF s
<1>4. DOMAIN s = 1..Len(s)
  BY <1>2, LenProperties
<1>5. \A i \in 1..Len(s) : s[i] = c
  BY <1>3, <1>4, Zenon
<1> QED
  BY <1>2, <1>5 DEF s

\* Spaces around the text.
LEMMA SpacesAreUndone ==
    ASSUME NEW s \in Seq(Char), NEW t \in addExtraSpaces(s)
    PROVE  t \in Seq(Char) /\ normalizeQuery(t) = normalizeQuery(s)
<1>1. PICK n \in 1..3 : t = [i \in 1..n |-> " "] \o s \o [i \in 1..n |-> " "]
  BY Zenon DEF addExtraSpaces
<1> DEFINE p == [i \in 1..n |-> " "]
<1>2. p \in Seq(Char) /\ Spaces(p)
  <2>1. " " \in Char
    BY Zenon DEF Char
  <2>2. n \in Nat
    OBVIOUS
  <2> QED
    BY <2>1, <2>2, Repeated, Zenon DEF Spaces
<1>3. t = (p \o s) \o p
  BY <1>1, Zenon
<1> HIDE DEF p
<1>4. p \o s \in Seq(Char) /\ t \in Seq(Char)
  <2>1. p \o s \in Seq(Char)
    BY <1>2, ConcatProperties
  <2> QED
    BY <1>2, <1>3, <2>1, ConcatProperties
<1>5. Clean(t) = (p \o Clean(s)) \o p
  <2>1. Clean(t) = Clean(p \o s) \o Clean(p)
    BY <1>2, <1>3, <1>4, CleanConcat
  <2>2. Clean(p \o s) = Clean(p) \o Clean(s)
    BY <1>2, CleanConcat
  <2> QED
    BY <1>2, <2>1, <2>2, CleanSpaces
<1>6. Clean(s) \in Seq(Char)
  BY CleanChars
<1>7. TrimSpace((p \o Clean(s)) \o p) = TrimSpace(Clean(s))
  BY <1>2, <1>6, TrimPadded
<1> QED
  BY <1>4, <1>5, <1>7, NormalForm

\* Punctuation after the text.
LEMMA PunctuationIsUndone ==
    ASSUME NEW s \in Seq(Char), NEW t \in Suffixed(s, punctuation)
    PROVE  t \in Seq(Char) /\ normalizeQuery(t) = normalizeQuery(s)
<1>1. PICK x \in punctuation : t = s \o x
  BY DEF Suffixed
<1>2. x \in Seq(Char) /\ \A i \in 1..Len(x) : x[i] = "-"
  <2>1. x = <<"-">> \/ x = <<"-", "-", "-">>
    BY DEF punctuation
  <2>2. "-" \in Char
    BY Zenon DEF Char
  <2>3. \A c : Len(<<c>>) = 1 /\ Len(<<c, c, c>>) = 3
    OBVIOUS
  <2>4. \A c : <<c>>[1] = c /\ <<c, c, c>>[1] = c /\ <<c, c, c>>[2] = c /\ <<c, c, c>>[3] = c
    OBVIOUS
  <2>5. \A c \in Char : <<c>> \in Seq(Char) /\ <<c, c, c>> \in Seq(Char)
    OBVIOUS
  <2>6. \A i \in 1..1 : i = 1
    OBVIOUS
  <2>7. \A i \in 1..3 : i = 1 \/ i = 2 \/ i = 3
    OBVIOUS
  <2> QED
    BY <2>1, <2>2, <2>3, <2>4, <2>5, <2>6, <2>7, Zenon
<1>3. Clean(x) = <<>>
  BY <1>2, CleanSymbols
<1>4. t \in Seq(Char)
  BY <1>1, <1>2, ConcatProperties
<1>5. Clean(t) = Clean(s)
  <2>1. Clean(t) = Clean(s) \o Clean(x)
    BY <1>1, <1>2, CleanConcat
  <2>2. Clean(s) \in Seq(Char)
    BY CleanChars
  <2> QED
    BY <1>3, <2>1, <2>2, ConcatEmptySeq
<1> QED
  BY <1>4, <1>5, NormalForm

\* What generateQuery does without adding a word, normalizeQuery undoes.
LEMMA DisguiseIsUndone ==
    ASSUME NEW s \in Seq(Char), NEW t \in Disguised(s)
    PROVE  t \in Seq(Char) /\ normalizeQuery(t) = normalizeQuery(s)
<1>1. CASE t = s
  BY <1>1
<1>2. CASE t = stringsToLower(s)
  <2>1. t = [i \in DOMAIN s |-> lower(s[i])]
    BY <1>2 DEF stringsToLower, Map
  <2> QED
    BY <2>1, CaseIsUndone
<1>3. CASE t = stringsToTitle(s)
  <2> DEFINE first(i) ==
               /\ isLetter(s[i])
               /\ \A j \in 1..(i - 1) : isLetter(s[j]) => \E k \in j..i : s[k] = " "
  <2>1. t = [i \in DOMAIN s |-> IF first(i) THEN upper(s[i]) ELSE lower(s[i])]
    BY <1>3, Zenon DEF stringsToTitle
  <2> HIDE DEF first
  <2> QED
    BY <2>1, CaseIsUndone
<1>4. CASE t \in stringsToUpper(s)
  <2>1. PICK S \in SUBSET DOMAIN s :
          t = [i \in DOMAIN s |-> IF i \in S THEN upper(s[i]) ELSE s[i]]
    BY <1>4 DEF stringsToUpper
  <2> QED
    BY <2>1, CaseIsUndone
<1>5. CASE t \in addExtraSpaces(s)
  BY <1>5, SpacesAreUndone
<1>6. CASE t \in Suffixed(s, punctuation)
  BY <1>6, PunctuationIsUndone
<1> QED
  BY <1>1, <1>2, <1>3, <1>4, <1>5, <1>6 DEF Disguised
-----------------------------------------------------------------------------
\* Named, because the string itself is one the SMT encoding cannot name.
Blank(c) == c = " "
Space == <<" ">>

\* The text of one space.
LEMMA SpaceIs ==
    Space \in Seq(Char) /\ Len(Space) = 1 /\ Blank(Space[1])
<1>1. \A c \in Char : <<c>> \in Seq(Char) /\ Len(<<c>>) = 1 /\ <<c>>[1] = c
  OBVIOUS
<1>2. " " \in Char
  BY Zenon DEF Char
<1> QED
  BY <1>1, <1>2, Zenon DEF Space, Blank

\* Where a word of a text begins and ends.
WordAt(s, i, j) ==
    /\ i <= j
    /\ \A k \in i..j : ~ Blank(s[k])
    /\ i = 1 \/ Blank(s[i - 1])
    /\ j = Len(s) \/ Blank(s[j + 1])

\* strings.Fields has the texts at such places.
LEMMA FieldsAre ==
    ASSUME NEW s, NEW f
    PROVE  f \in Fields(s) <=>
             \E i, j \in 1..Len(s) : WordAt(s, i, j) /\ f = SubSeq(s, i, j)
<1>1. ASSUME f \in Fields(s)
      PROVE  \E i, j \in 1..Len(s) : WordAt(s, i, j) /\ f = SubSeq(s, i, j)
  <2>1. PICK r \in (1..Len(s)) \X (1..Len(s)) :
          WordAt(s, r[1], r[2]) /\ f = SubSeq(s, r[1], r[2])
    BY <1>1, Zenon DEF Fields, WordAt, Blank
  <2> QED
    BY <2>1
<1>2. ASSUME NEW i \in 1..Len(s), NEW j \in 1..Len(s),
             WordAt(s, i, j), f = SubSeq(s, i, j)
      PROVE  f \in Fields(s)
  <2> DEFINE r == <<i, j>>
  <2>1. r \in (1..Len(s)) \X (1..Len(s)) /\ r[1] = i /\ r[2] = j
    OBVIOUS
  <2> HIDE DEF r
  <2>2. WordAt(s, r[1], r[2]) /\ f = SubSeq(s, r[1], r[2])
    BY <1>2, <2>1
  <2> QED
    BY <2>1, <2>2, Zenon DEF Fields, WordAt, Blank
<1> QED
  BY <1>1, <1>2

\* Equal parts of two texts.
LEMMA SameParts ==
    ASSUME NEW s \in Seq(Char), NEW i \in 1..Len(s), NEW j \in 1..Len(s), i <= j,
           NEW t \in Seq(Char), NEW a \in Int, i + a \in 1..Len(t), j + a \in 1..Len(t),
           \A k \in i..j : s[k] = t[k + a]
    PROVE  SubSeq(s, i, j) = SubSeq(t, i + a, j + a)
<1>1. PICK n \in Nat, m \in Nat : n = Len(s) /\ m = Len(t)
  BY LenProperties
<1> DEFINE x == SubSeq(s, i, j)
           y == SubSeq(t, i + a, j + a)
<1>2. /\ x \in Seq(Char) /\ Len(x) = j - i + 1
      /\ \A k \in 1..(j - i + 1) : x[k] = s[i + k - 1]
  <2>1. i \in 1..(n + 1) /\ j \in (i - 1)..n
    BY <1>1
  <2> QED
    BY <1>1, <2>1, Cut
<1>3. /\ y \in Seq(Char) /\ Len(y) = (j + a) - (i + a) + 1
      /\ \A k \in 1..((j + a) - (i + a) + 1) : y[k] = t[(i + a) + k - 1]
  <2>1. i + a \in 1..(m + 1) /\ j + a \in ((i + a) - 1)..m
    BY <1>1
  <2> QED
    BY <1>1, <2>1, Cut
<1>4. (j + a) - (i + a) + 1 = j - i + 1
  OBVIOUS
<1>5. \A k \in 1..(j - i + 1) : i + k - 1 \in i..j /\ (i + a) + k - 1 = (i + k - 1) + a
  OBVIOUS
<1> HIDE DEF x, y
<1>6. \A k \in 1..Len(x) : x[k] = y[k]
  BY <1>2, <1>3, <1>4, <1>5
<1>7. x = y
  BY <1>2, <1>3, <1>4, <1>6, SeqEqual
<1> QED
  BY <1>7 DEF x, y

\* A word of a text is one of any other text that has it between spaces.
LEMMA WordMoves ==
    ASSUME NEW s \in Seq(Char), NEW i \in 1..Len(s), NEW j \in 1..Len(s),
           WordAt(s, i, j),
           NEW t \in Seq(Char), NEW a \in Int, i + a \in 1..Len(t), j + a \in 1..Len(t),
           \A k \in i..j : s[k] = t[k + a],
           i + a = 1 \/ Blank(t[(i + a) - 1]),
           j + a = Len(t) \/ Blank(t[(j + a) + 1])
    PROVE  SubSeq(s, i, j) \in Fields(t)
<1>1. i <= j /\ \A k \in i..j : ~ Blank(s[k])
  BY DEF WordAt
<1>2. SubSeq(s, i, j) = SubSeq(t, i + a, j + a)
  BY <1>1, SameParts
<1>3. i + a <= j + a
  BY <1>1
<1>4. ASSUME NEW k \in (i + a)..(j + a)
      PROVE  ~ Blank(t[k])
  <2>1. k - a \in i..j /\ (k - a) + a = k
    BY SMT
  <2> QED
    BY <1>1, <2>1, Zenon
<1>5. WordAt(t, i + a, j + a)
  BY <1>3, <1>4, Zenon DEF WordAt
<1> QED
  BY <1>2, <1>5, FieldsAre

\* One character between two texts.
LEMMA OneBetween ==
    ASSUME NEW h \in Seq(Char), NEW u \in Seq(Char), NEW t \in Seq(Char)
    PROVE  LET s == (h \o u) \o t
           IN  Len(u) = 1 /\ Blank(u[1]) =>
                 /\ s \in Seq(Char) /\ Len(s) = Len(h) + 1 + Len(t)
                 /\ \A i \in 1..Len(h) : s[i] = h[i]
                 /\ Blank(s[Len(h) + 1])
                 /\ \A i \in 1..Len(t) : s[Len(h) + 1 + i] = t[i]
<1> DEFINE s == (h \o u) \o t
<1>1. /\ s \in Seq(Char) /\ DOMAIN s = 1..Len(s)
      /\ Len(h) \in Nat /\ Len(u) \in Nat /\ Len(t) \in Nat
      /\ Len(s) = Len(h) + Len(u) + Len(t)
      /\ \A i \in 1..Len(h) : s[i] = h[i]
      /\ \A i \in 1..Len(u) : s[Len(h) + i] = u[i]
      /\ \A i \in 1..Len(t) : s[Len(h) + Len(u) + i] = t[i]
  BY Between
<1>2. 1 \in 1..1
  OBVIOUS
<1> HIDE DEF s
<1>3. Len(u) = 1 /\ Blank(u[1]) =>
      /\ s \in Seq(Char) /\ Len(s) = Len(h) + 1 + Len(t)
      /\ \A i \in 1..Len(h) : s[i] = h[i]
      /\ Blank(s[Len(h) + 1])
      /\ \A i \in 1..Len(t) : s[Len(h) + 1 + i] = t[i]
  BY <1>1, <1>2
<1> QED
  BY <1>3 DEF s

\* The words of what follows a space, and of what is before it.
LEMMA FieldsSplit ==
    ASSUME NEW h \in Seq(Char), NEW t \in Seq(Char)
    PROVE  Fields((h \o Space) \o t) = Fields(h) \cup Fields(t)
<1>1. PICK a \in Nat, m \in Nat : a = Len(h) /\ m = Len(t)
  BY LenProperties
<1> DEFINE s == (h \o Space) \o t
<1>2. /\ s \in Seq(Char) /\ Len(s) = a + 1 + m
      /\ \A i \in 1..a : s[i] = h[i]
      /\ Blank(s[a + 1])
      /\ \A i \in 1..m : s[a + 1 + i] = t[i]
  <2>1. Space \in Seq(Char) /\ Len(Space) = 1 /\ Blank(Space[1])
    BY SpaceIs
  <2>2. /\ s \in Seq(Char) /\ Len(s) = Len(h) + 1 + Len(t)
        /\ \A i \in 1..Len(h) : s[i] = h[i]
        /\ Blank(s[Len(h) + 1])
        /\ \A i \in 1..Len(t) : s[Len(h) + 1 + i] = t[i]
    BY <2>1, OneBetween
  <2> HIDE DEF s
  <2> QED
    BY <1>1, <2>2
<1> HIDE DEF s
<1>3. ASSUME NEW i \in 1..Len(s), NEW j \in 1..Len(s), WordAt(s, i, j)
      PROVE  SubSeq(s, i, j) \in Fields(h) \/ SubSeq(s, i, j) \in Fields(t)
  <2>1. /\ i <= j /\ \A k \in i..j : ~ Blank(s[k])
        /\ i = 1 \/ Blank(s[i - 1])
        /\ j = Len(s) \/ Blank(s[j + 1])
    BY <1>3 DEF WordAt
  <2>2. a + 1 \notin i..j
    BY <1>2, <2>1, Zenon
  <2>3. i \in 1..(a + 1 + m) /\ j \in 1..(a + 1 + m)
    BY <1>2, Zenon
  <2>4. j <= a \/ i >= a + 2
    BY <2>2, <2>3
  <2>5. CASE j <= a
    <3>1. /\ i + 0 \in 1..a /\ j + 0 \in 1..a /\ i + 0 = i /\ j + 0 = j
          /\ \A k \in i..j : k \in 1..a /\ k + 0 = k
      BY <2>1, <2>3, <2>5
    <3>2. i - 1 \in 1..a \/ i + 0 = 1
      BY <2>1, <2>3, <2>5
    <3>3. j + 1 \in 1..a \/ j + 0 = a
      BY <2>1, <2>3, <2>5
    <3>4. j # Len(s) /\ (i + 0 # 1 => i # 1)
      BY <1>2, <2>3, <2>5
    <3>5. \A k \in i..j : s[k] = h[k + 0]
      BY <1>2, <3>1, Zenon
    <3>6. i + 0 = 1 \/ Blank(h[(i + 0) - 1])
      BY <1>2, <2>1, <3>1, <3>2, <3>4, Zenon
    <3>7. j + 0 = a \/ Blank(h[(j + 0) + 1])
      BY <1>2, <2>1, <3>1, <3>3, <3>4, Zenon
    <3>8. 0 \in Int
      OBVIOUS
    <3>9. SubSeq(s, i, j) \in Fields(h)
      BY <1>1, <1>2, <1>3, <3>1, <3>5, <3>6, <3>7, <3>8, WordMoves
    <3> QED
      BY <3>9
  <2>6. CASE i >= a + 2
    <3> DEFINE b == 0 - (a + 1)
    <3>1. /\ b \in Int /\ i + b \in 1..m /\ j + b \in 1..m
          /\ \A k \in i..j : k + b \in 1..m /\ a + 1 + (k + b) = k
      BY <2>1, <2>3, <2>6
    <3>2. i + b = 1 \/ ((i + b) - 1 \in 1..m /\ a + 1 + ((i + b) - 1) = i - 1)
      BY <2>1, <2>3, <2>6
    <3>3. j + b = m \/ ((j + b) + 1 \in 1..m /\ a + 1 + ((j + b) + 1) = j + 1)
      BY <2>1, <2>3, <2>6
    <3>4. i # 1 /\ (j = Len(s) => j + b = m)
      BY <1>2, <2>3, <2>6
    <3> HIDE DEF b
    <3>5. \A k \in i..j : s[k] = t[k + b]
      BY <1>2, <3>1, Zenon
    <3>6. i + b = 1 \/ Blank(t[(i + b) - 1])
      BY <1>2, <2>1, <3>2, <3>4, Zenon
    <3>7. j + b = m \/ Blank(t[(j + b) + 1])
      BY <1>2, <2>1, <3>3, <3>4, Zenon
    <3>8. SubSeq(s, i, j) \in Fields(t)
      BY <1>1, <1>2, <1>3, <3>1, <3>5, <3>6, <3>7, WordMoves
    <3> QED
      BY <3>8
  <2> QED
    BY <2>4, <2>5, <2>6
<1>4. ASSUME NEW i \in 1..Len(h), NEW j \in 1..Len(h), WordAt(h, i, j)
      PROVE  SubSeq(h, i, j) \in Fields(s)
  <2>1. /\ i <= j
        /\ i = 1 \/ Blank(h[i - 1])
        /\ j = a \/ Blank(h[j + 1])
    BY <1>1, <1>4 DEF WordAt
  <2>2. i \in 1..a /\ j \in 1..a
    BY <1>1, Zenon
  <2>3. /\ i + 0 \in 1..(a + 1 + m) /\ j + 0 \in 1..(a + 1 + m) /\ i + 0 = i /\ j + 0 = j
        /\ \A k \in i..j : k \in 1..a /\ k + 0 = k
    BY <2>1, <2>2
  <2>4. (i = 1 \/ i - 1 \in 1..a) /\ (j = a \/ j + 1 \in 1..a)
    BY <2>2
  <2>5. \A k \in i..j : h[k] = s[k + 0]
    BY <1>2, <2>3, Zenon
  <2>6. i + 0 = 1 \/ Blank(s[(i + 0) - 1])
    BY <1>2, <2>1, <2>3, <2>4, Zenon
  <2>7. Blank(s[(j + 0) + 1])
    BY <1>2, <2>1, <2>3, <2>4, Zenon
  <2>8. 0 \in Int
    OBVIOUS
  <2> QED
    BY <1>1, <1>2, <1>4, <2>3, <2>5, <2>6, <2>7, <2>8, WordMoves
<1>5. ASSUME NEW i \in 1..Len(t), NEW j \in 1..Len(t), WordAt(t, i, j)
      PROVE  SubSeq(t, i, j) \in Fields(s)
  <2>1. /\ i <= j
        /\ i = 1 \/ Blank(t[i - 1])
        /\ j = m \/ Blank(t[j + 1])
    BY <1>1, <1>5 DEF WordAt
  <2>2. i \in 1..m /\ j \in 1..m
    BY <1>1, Zenon
  <2> DEFINE b == a + 1
  <2>3. /\ b \in Int /\ i + b \in 1..(a + 1 + m) /\ j + b \in 1..(a + 1 + m)
        /\ \A k \in i..j : k \in 1..m /\ k + b = a + 1 + k
    BY <2>1, <2>2
  <2>4. i = 1 => (i + b) - 1 = a + 1
    OBVIOUS
  <2>5. i = 1 \/ (i - 1 \in 1..m /\ (i + b) - 1 = a + 1 + (i - 1))
    BY <2>2
  <2>6. j = m => j + b = a + 1 + m
    BY <2>2
  <2>7. j = m \/ (j + 1 \in 1..m /\ (j + b) + 1 = a + 1 + (j + 1))
    BY <2>2
  <2> HIDE DEF b
  <2>8. \A k \in i..j : t[k] = s[k + b]
    BY <1>2, <2>3, Zenon
  <2>9. Blank(s[(i + b) - 1])
    BY <1>2, <2>1, <2>4, <2>5, Zenon
  <2>10. j + b = a + 1 + m \/ Blank(s[(j + b) + 1])
    BY <1>2, <2>1, <2>6, <2>7, Zenon
  <2> QED
    BY <1>1, <1>2, <1>5, <2>3, <2>8, <2>9, <2>10, WordMoves
<1>6. Fields(s) = Fields(h) \cup Fields(t)
  <2>1. ASSUME NEW f \in Fields(s)
        PROVE  f \in Fields(h) \cup Fields(t)
    <3>1. PICK i \in 1..Len(s), j \in 1..Len(s) :
            WordAt(s, i, j) /\ f = SubSeq(s, i, j)
      BY FieldsAre, Zenon
    <3> QED
      BY <1>3, <3>1
  <2>2. ASSUME NEW f \in Fields(h)
        PROVE  f \in Fields(s)
    <3>1. PICK i \in 1..Len(h), j \in 1..Len(h) :
            WordAt(h, i, j) /\ f = SubSeq(h, i, j)
      BY FieldsAre, Zenon
    <3> QED
      BY <1>4, <3>1
  <2>3. ASSUME NEW f \in Fields(t)
        PROVE  f \in Fields(s)
    <3>1. PICK i \in 1..Len(t), j \in 1..Len(t) :
            WordAt(t, i, j) /\ f = SubSeq(t, i, j)
      BY FieldsAre, Zenon
    <3> QED
      BY <1>5, <3>1
  <2> QED
    BY <2>1, <2>2, <2>3, Zenon
<1> QED
  BY <1>6, Zenon DEF s

\* A text without a space has no word but itself.
LEMMA FieldsOne ==
    ASSUME NEW s \in Seq(Char), \A i \in 1..Len(s) : ~ Blank(s[i])
    PROVE  Fields(s) = {s} \ {<<>>}
<1>1. PICK n \in Nat : n = Len(s)
  BY LenProperties
<1>2. n = 0 <=> s = <<>>
  BY <1>1, EmptySeq
<1>3. SubSeq(s, 1, n) = s
  BY <1>1, SubSeqFull
<1>4. ASSUME NEW i \in 1..n, NEW j \in 1..n, WordAt(s, i, j)
      PROVE  i = 1 /\ j = n
  <2>1. (i = 1 \/ Blank(s[i - 1])) /\ (j = n \/ Blank(s[j + 1]))
    BY <1>1, <1>4 DEF WordAt
  <2>2. (i = 1 \/ i - 1 \in 1..n) /\ (j = n \/ j + 1 \in 1..n)
    OBVIOUS
  <2> QED
    BY <1>1, <2>1, <2>2
<1>5. ASSUME n > 0
      PROVE  1 \in 1..n /\ n \in 1..n /\ WordAt(s, 1, n)
  BY <1>1, <1>5 DEF WordAt
<1>6. ASSUME NEW f \in Fields(s)
      PROVE  f \in {s} \ {<<>>}
  <2>1. PICK i \in 1..n, j \in 1..n : WordAt(s, i, j) /\ f = SubSeq(s, i, j)
    BY <1>1, FieldsAre, Zenon
  <2>2. f = s
    BY <1>3, <1>4, <2>1
  <2>3. n # 0
    BY <1>1, <2>1
  <2> QED
    BY <1>2, <2>2, <2>3
<1>7. ASSUME s # <<>>
      PROVE  s \in Fields(s)
  BY <1>1, <1>2, <1>3, <1>5, <1>7, FieldsAre
<1> QED
  BY <1>6, <1>7

\* Spaces alone have none.
LEMMA FieldsNone ==
    ASSUME NEW s \in Seq(Char), Spaces(s)
    PROVE  Fields(s) = {}
<1>1. \A i \in 1..Len(s) : Blank(s[i])
  BY Zenon DEF Spaces, Blank
<1>2. ASSUME NEW f \in Fields(s)
      PROVE  FALSE
  <2>1. PICK i \in 1..Len(s), j \in 1..Len(s) : WordAt(s, i, j)
    BY FieldsAre, Zenon
  <2>2. i \in i..j
    BY <2>1 DEF WordAt
  <2> QED
    BY <1>1, <2>1, <2>2, Zenon DEF WordAt
<1> QED
  BY <1>2

\* A text is cut at one of its spaces.
LEMMA CutAtSpace ==
    ASSUME NEW s \in Seq(Char), NEW n \in 1..Len(s), Blank(s[n])
    PROVE  \E h, t \in Seq(Char) :
             /\ s = (h \o Space) \o t
             /\ Len(h) = n - 1 /\ Len(t) = Len(s) - n
             /\ \A i \in 1..Len(h) : h[i] = s[i]
             /\ \A i \in 1..Len(t) : t[i] = s[n + i]
<1> DEFINE h == SubSeq(s, 1, n - 1)
           u == SubSeq(s, n, n)
           t == SubSeq(s, n + 1, Len(s))
<1>1. PICK m \in Nat : m = Len(s)
  BY LenProperties
<1>2. n \in 1..m
  BY <1>1
<1>3. s = (h \o u) \o t
  <2>1. n <= n
    BY <1>2
  <2> QED
    BY <2>1, ThreeParts
<1>4. /\ h \in Seq(Char) /\ Len(h) = (n - 1) - 1 + 1
      /\ \A k \in 1..((n - 1) - 1 + 1) : h[k] = s[1 + k - 1]
  <2>1. 1 \in 1..(m + 1) /\ n - 1 \in (1 - 1)..m
    BY <1>2
  <2> QED
    BY <1>1, <2>1, Cut
<1>5. /\ u \in Seq(Char) /\ Len(u) = n - n + 1
      /\ \A k \in 1..(n - n + 1) : u[k] = s[n + k - 1]
  <2>1. n \in 1..(m + 1) /\ n \in (n - 1)..m
    BY <1>2
  <2> QED
    BY <1>1, <2>1, Cut
<1>6. /\ t \in Seq(Char) /\ Len(t) = m - (n + 1) + 1
      /\ \A k \in 1..(m - (n + 1) + 1) : t[k] = s[(n + 1) + k - 1]
  <2>1. n + 1 \in 1..(m + 1) /\ m \in ((n + 1) - 1)..m
    BY <1>2
  <2> QED
    BY <1>1, <2>1, Cut
<1> HIDE DEF h, u, t
<1>7. u = <<s[n]>>
  <2>1. Len(u) = 1 /\ u[1] = s[n]
    <3>1. n - n + 1 = 1 /\ 1 \in 1..1 /\ n + 1 - 1 = n
      BY <1>2
    <3> QED
      BY <1>5, <3>1
  <2>2. \A c \in Char : <<c>> \in Seq(Char) /\ Len(<<c>>) = 1 /\ <<c>>[1] = c
    OBVIOUS
  <2>3. s[n] \in Char
    BY ElementOfSeq
  <2> DEFINE v == <<s[n]>>
  <2>4. v \in Seq(Char) /\ Len(v) = 1 /\ v[1] = s[n]
    BY <2>2, <2>3
  <2> HIDE DEF v
  <2>5. \A i \in 1..1 : i = 1
    OBVIOUS
  <2>6. u = v
    BY <1>5, <2>1, <2>4, <2>5, SeqEqual
  <2> QED
    BY <2>6 DEF v
<1>8. Len(h) = n - 1 /\ \A i \in 1..Len(h) : h[i] = s[i]
  <2>1. (n - 1) - 1 + 1 = n - 1 /\ \A k \in 1..(n - 1) : 1 + k - 1 = k
    BY <1>2
  <2> QED
    BY <1>4, <2>1
<1>9. Len(t) = m - n /\ \A i \in 1..Len(t) : t[i] = s[n + i]
  <2>1. m - (n + 1) + 1 = m - n /\ \A k \in 1..(m - n) : (n + 1) + k - 1 = n + k
    BY <1>2
  <2> QED
    BY <1>6, <2>1
<1>10. s = (h \o Space) \o t
  BY <1>3, <1>7, Zenon DEF Blank, Space
<1> QED
  BY <1>1, <1>4, <1>6, <1>8, <1>9, <1>10, Zenon

\* Spaces before a text and after it add none.
LEMMA FieldsPadded ==
    ASSUME NEW p \in Seq(Char), NEW s \in Seq(Char), NEW q \in Seq(Char),
           Spaces(p), Spaces(q)
    PROVE  Fields((p \o s) \o q) = Fields(s)
<1>1. PICK n \in Nat, m \in Nat : n = Len(p) /\ m = Len(q)
  BY LenProperties
<1>2. (\A i \in 1..n : Blank(p[i])) /\ (\A i \in 1..m : Blank(q[i]))
  BY <1>1, Zenon DEF Spaces, Blank
<1>3. p \o s \in Seq(Char)
  BY ConcatProperties
<1>5. Fields(p \o s) = Fields(s)
  <2>1. CASE p = <<>>
    BY <2>1, ConcatEmptySeq
  <2>2. CASE p # <<>>
    <3>1. n \in 1..n
      BY <1>1, <2>2, EmptySeq
    <3>2. PICK h \in Seq(Char), t \in Seq(Char) :
            /\ p = (h \o Space) \o t
            /\ Len(h) = n - 1 /\ Len(t) = n - n
            /\ \A i \in 1..Len(h) : h[i] = p[i]
      <4>1. n \in 1..Len(p) /\ Blank(p[n])
        BY <1>1, <1>2, <3>1
      <4>2. \E h, t \in Seq(Char) :
              /\ p = (h \o Space) \o t
              /\ Len(h) = n - 1 /\ Len(t) = Len(p) - n
              /\ \A i \in 1..Len(h) : h[i] = p[i]
              /\ \A i \in 1..Len(t) : t[i] = p[n + i]
        BY <4>1, CutAtSpace
      <4> QED
        BY <1>1, <4>2, Zenon
    <3>3. t = <<>> /\ p = h \o Space
      <4>1. Len(t) = 0
        BY <3>2
      <4>2. t = <<>>
        BY <4>1, EmptySeq
      <4>3. h \o Space \in Seq(Char)
        BY SpaceIs, ConcatProperties
      <4> QED
        BY <3>2, <4>2, <4>3, ConcatEmptySeq
    <3>4. Fields(h) = {}
      <4>1. \A i \in 1..Len(h) : i \in 1..n
        BY <3>1, <3>2
      <4>2. \A i \in 1..Len(h) : Blank(h[i])
        BY <1>2, <3>2, <4>1
      <4> QED
        BY <4>2, FieldsNone, Zenon DEF Spaces, Blank
    <3>5. Fields((h \o Space) \o s) = Fields(h) \cup Fields(s)
      BY FieldsSplit
    <3> QED
      BY <3>3, <3>4, <3>5
  <2> QED
    BY <2>1, <2>2
<1> DEFINE v == p \o s
<1> HIDE DEF v
<1>6. Fields(v \o q) = Fields(v)
  <2>1. CASE q = <<>>
    BY <1>3, <2>1, ConcatEmptySeq DEF v
  <2>2. CASE q # <<>>
    <3>1. 1 \in 1..m
      BY <1>1, <2>2, EmptySeq
    <3>2. PICK h \in Seq(Char), t \in Seq(Char) :
            /\ q = (h \o Space) \o t
            /\ Len(h) = 1 - 1 /\ Len(t) = m - 1
            /\ \A i \in 1..Len(t) : t[i] = q[1 + i]
      BY <1>1, <1>2, <3>1, CutAtSpace
    <3>3. h = <<>> /\ q = Space \o t
      <4>1. Len(h) = 0
        BY <3>2
      <4>2. h = <<>>
        BY <4>1, EmptySeq
      <4> QED
        BY <3>2, <4>2, SpaceIs, ConcatEmptySeq
    <3>4. Fields(t) = {}
      <4>1. \A i \in 1..Len(t) : 1 + i \in 1..m
        BY <3>1, <3>2
      <4>2. \A i \in 1..Len(t) : Blank(t[i])
        BY <1>2, <3>2, <4>1
      <4> QED
        BY <4>2, FieldsNone, Zenon DEF Spaces, Blank
    <3>5. Fields((v \o Space) \o t) = Fields(v) \cup Fields(t)
      BY <1>3, FieldsSplit DEF v
    <3>6. (v \o Space) \o t = v \o q
      <4>1. v \in Seq(Char)
        BY <1>3 DEF v
      <4>2. Cat(Cat(v, Space), t) = Cat(v, Cat(Space, t))
        BY <4>1, SpaceIs, CatAssoc
      <4> QED
        BY <3>3, <4>2 DEF Cat
    <3> QED
      BY <3>4, <3>5, <3>6
  <2> QED
    BY <2>1, <2>2
<1> QED
  BY <1>5, <1>6 DEF v

\* Cleaning makes no spaces and takes none away.
LEMMA CleanBlanks ==
    /\ \A s \in Seq(Char) : (\A i \in 1..Len(s) : ~ Blank(s[i]))
                              => \A i \in 1..Len(Clean(s)) : ~ Blank(Clean(s)[i])
    /\ \A h, t \in Seq(Char) :
         Clean((h \o Space) \o t) = (Clean(h) \o Space) \o Clean(t)
<1>1. ASSUME NEW s \in Seq(Char), \A i \in 1..Len(s) : ~ Blank(s[i]),
             NEW i \in 1..Len(Clean(s))
      PROVE  ~ Blank(Clean(s)[i])
  <2>1. PICK j \in 1..Len(s) : Clean(s)[i] = ToLower(s[j])
    BY CleanChars
  <2>2. \A c : Blank(ToLower(c)) => Blank(c)
    BY Zenon DEF Blank, ToLower
  <2> QED
    BY <1>1, <2>1, <2>2
<1>2. ASSUME NEW h \in Seq(Char), NEW t \in Seq(Char)
      PROVE  Clean((h \o Space) \o t) = (Clean(h) \o Space) \o Clean(t)
  <2>1. h \o Space \in Seq(Char) /\ Space \in Seq(Char)
    BY SpaceIs, ConcatProperties
  <2>2. Clean((h \o Space) \o t) = Clean(h \o Space) \o Clean(t)
    BY <2>1, CleanConcat
  <2>3. Clean(h \o Space) = Clean(h) \o Clean(Space)
    BY <2>1, CleanConcat
  <2>4. Clean(Space) = Space
    <3>1. \A i \in 1..1 : i = 1
      OBVIOUS
    <3>2. \A i \in 1..Len(Space) : Blank(Space[i])
      BY <3>1, SpaceIs
    <3> QED
      BY <2>1, <3>2, CleanSpaces, Zenon DEF Spaces, Blank
  <2> QED
    BY <2>2, <2>3, <2>4
<1> QED
  BY <1>1, <1>2

\* So the words of a cleaned text are its words cleaned, but for those that
\* were symbols only.
LEMMA FieldsClean ==
    ASSUME NEW s \in Seq(Char)
    PROVE  Fields(Clean(s)) = {Clean(f) : f \in Fields(s)} \ {<<>>}
<1> DEFINE Good(x) == Fields(Clean(x)) = {Clean(f) : f \in Fields(x)} \ {<<>>}
           Bad == {x \in Seq(Char) : ~ Good(x)}
<1> SUFFICES ASSUME Bad # {}
             PROVE  FALSE
  OBVIOUS
<1>1. PICK x \in Bad : \A y \in Bad : Len(x) <= Len(y)
  BY ShortestText
<1>2. PICK m \in Nat : m = Len(x)
  BY LenProperties
<1>3. CASE \E n \in 1..m : Blank(x[n])
  <2>1. PICK n \in 1..m : Blank(x[n])
    BY <1>3
  <2>2. PICK h \in Seq(Char), t \in Seq(Char) :
          /\ x = (h \o Space) \o t
          /\ Len(h) = n - 1 /\ Len(t) = Len(x) - n
          /\ \A i \in 1..Len(h) : h[i] = x[i]
          /\ \A i \in 1..Len(t) : t[i] = x[n + i]
    <3>1. n \in 1..Len(x)
      BY <1>2
    <3> QED
      BY <2>1, <3>1, CutAtSpace
  <2>3. ~ (Len(x) <= Len(h)) /\ ~ (Len(x) <= Len(t))
    BY <1>2, <2>2
  <2>4. Good(h) /\ Good(t)
    <3> HIDE DEF Good
    <3> QED
      BY <1>1, <2>3, Zenon
  <2>5. Fields(x) = Fields(h) \cup Fields(t)
    BY <2>2, FieldsSplit
  <2>6. Clean(x) = (Clean(h) \o Space) \o Clean(t)
    BY <2>2, CleanBlanks
  <2>7. Fields(Clean(x)) = Fields(Clean(h)) \cup Fields(Clean(t))
    BY <2>6, CleanChars, FieldsSplit
  <2>8. {Clean(f) : f \in Fields(x)}
          = {Clean(f) : f \in Fields(h)} \cup {Clean(f) : f \in Fields(t)}
    BY <2>5
  <2>9. Good(x)
    <3>1. /\ Fields(Clean(h)) = {Clean(f) : f \in Fields(h)} \ {<<>>}
          /\ Fields(Clean(t)) = {Clean(f) : f \in Fields(t)} \ {<<>>}
      BY <2>4
    <3> QED
      BY <2>7, <2>8, <3>1
  <2> QED
    BY <1>1, <2>9
<1>4. CASE \A n \in 1..m : ~ Blank(x[n])
  <2>1. Fields(x) = {x} \ {<<>>}
    BY <1>2, <1>4, FieldsOne
  <2>2. Fields(Clean(x)) = {Clean(x)} \ {<<>>}
    BY <1>2, <1>4, CleanBlanks, CleanChars, FieldsOne
  <2>3. Clean(<<>>) = <<>>
    <3>1. 1..Len(<<>>) = {} /\ <<>> \in Seq(Char)
      OBVIOUS
    <3> QED
      BY <3>1, CleanStays
  <2> QED
    BY <1>1, <2>1, <2>2, <2>3
<1> QED
  BY <1>3, <1>4

\* The words of a normal form.
LEMMA FieldsNormal ==
    ASSUME NEW s \in Seq(Char)
    PROVE  /\ Fields(normalizeQuery(s)) = Fields(Clean(s))
           /\ Fields(normalizeQuery(s)) = {Clean(f) : f \in Fields(s)} \ {<<>>}
<1> DEFINE w == Clean(s)
           u == TrimSpace(w)
<1>1. w \in Seq(Char)
  BY CleanChars
<1> HIDE DEF w
<1>2. PICK p \in Seq(Char), q \in Seq(Char) :
        Spaces(p) /\ Spaces(q) /\ w = (p \o u) \o q
  BY <1>1, Trimmed
<1>3. u \in Seq(Char)
  BY <1>1, Trimmed
<1> HIDE DEF u
<1>4. Fields((p \o u) \o q) = Fields(u)
  BY <1>2, <1>3, FieldsPadded
<1>5. normalizeQuery(s) = u
  BY NormalForm DEF u, w
<1>6. Fields(normalizeQuery(s)) = Fields(Clean(s))
  BY <1>2, <1>4, <1>5 DEF w
<1> QED
  BY <1>6, FieldsClean

\* A word is trimmed by nothing, whatever is dropped in it.
LEMMA NormalWord ==
    ASSUME NEW s \in Seq(Char), NEW f \in Fields(s)
    PROVE  f \in Seq(Char) /\ normalizeQuery(f) = Clean(f)
<1>1. PICK n \in Nat : n = Len(s)
  BY LenProperties
<1>2. PICK i \in 1..n, j \in 1..n : WordAt(s, i, j) /\ f = SubSeq(s, i, j)
  BY <1>1, FieldsAre
<1>3. i <= j /\ \A k \in i..j : ~ Blank(s[k])
  BY <1>2 DEF WordAt
<1>4. /\ f \in Seq(Char) /\ Len(f) = j - i + 1
      /\ \A k \in 1..(j - i + 1) : f[k] = s[i + k - 1]
  <2>1. i \in 1..(n + 1) /\ j \in (i - 1)..n
    BY <1>3
  <2> QED
    BY <1>1, <1>2, <2>1, Cut
<1>5. \A k \in 1..Len(f) : ~ Blank(f[k])
  <2>1. \A k \in 1..(j - i + 1) : i + k - 1 \in i..j
    BY <1>3
  <2> QED
    BY <1>3, <1>4, <2>1
<1> DEFINE w == Clean(f)
<1>6. w \in Seq(Char) /\ \A k \in 1..Len(w) : ~ Blank(w[k])
  BY <1>4, <1>5, CleanChars, CleanBlanks
<1>7. normalizeQuery(f) = TrimSpace(w)
  BY <1>4, NormalForm
<1> HIDE DEF w
<1>8. Solid(w)
  <2>1. w # <<>> => 1 \in 1..Len(w) /\ Len(w) \in 1..Len(w)
    BY <1>6, EmptySeq, LenProperties
  <2>2. w # <<>> => ~ Blank(w[1]) /\ ~ Blank(w[Len(w)])
    BY <1>6, <2>1
  <2> QED
    BY <2>2, Zenon DEF Solid, Blank
<1>9. TrimSpace(w) = w
  <2>1. <<>> \in Seq(Char) /\ Spaces(<<>>) /\ w = (<<>> \o w) \o <<>>
    BY <1>6, EmptySeq, ConcatEmptySeq DEF Spaces
  <2> QED
    BY <1>6, <1>8, <2>1, TrimIs
<1> QED
  BY <1>4, <1>7, <1>9 DEF w

\* A stop word that is one word matches the texts that have it as a word.
LEMMA OneWordMatches ==
    ASSUME NEW s \in Seq(Char), NEW word, Fields(word) = {word}
    PROVE  matchesStopWord(normalizeQuery(s), {word}) <=>
             \E f \in Fields(s) : normalizeQuery(f) = word
<1>1. matchesStopWord(normalizeQuery(s), {word}) <=> word \in Fields(normalizeQuery(s))
  BY DEF matchesStopWord
<1>2. word # <<>>
  <2>1. <<>> \in Seq(Char) /\ Spaces(<<>>)
    BY EmptySeq DEF Spaces
  <2>2. Fields(<<>>) = {}
    BY <2>1, FieldsNone
  <2> QED
    BY <2>2
<1>3. word \in Fields(normalizeQuery(s)) <=> \E f \in Fields(s) : Clean(f) = word
  BY <1>2, FieldsNormal
<1>4. \A f \in Fields(s) : normalizeQuery(f) = Clean(f)
  BY NormalWord
<1> QED
  BY <1>1, <1>3, <1>4

\* The suffix words of generateQuery add themselves at most.
LEMMA ExtraWordOnly ==
    ASSUME NEW s \in Seq(Char), NEW t \in Suffixed(s, extraWords)
    PROVE  /\ t \in Seq(Char)
           /\ Fields(normalizeQuery(t)) \ Fields(normalizeQuery(s))
                \subseteq {<<"1">>, <<"a">>}
<1>1. PICK c \in {"1", "a"} : t = s \o <<" ", c>>
  BY Zenon DEF Suffixed, extraWords
<1>2. c \in Char
  BY Zenon DEF Char
<1> DEFINE x == <<c>>
<1>3. x \in Seq(Char) /\ Len(x) = 1 /\ x[1] = c
  BY <1>2
<1>4. \A i \in 1..Len(x) : ~ Blank(x[i]) /\ Kept(x[i]) /\ ToLower(x[i]) = x[i]
  <2>1. ~ Blank(c) /\ Kept(c) /\ ToLower(c) = c
    BY Zenon DEF Blank, Kept, ToLower
  <2>2. \A i \in 1..1 : i = 1
    OBVIOUS
  <2> QED
    BY <1>3, <2>1, <2>2, Zenon
<1>5. t = (s \o Space) \o x
  <2>1. \A b, d \in Char : <<b>> \o <<d>> = <<b, d>>
    <3> TAKE b, d \in Char
    <3>1. <<b>> \in Seq(Char)
      OBVIOUS
    <3>2. Append(<<b>>, d) = <<b>> \o <<d>>
      BY <3>1, AppendIsConcat
    <3> DEFINE y == Append(<<b>>, d)
               z == <<b, d>>
    <3>3. /\ y \in Seq(Char) /\ Len(y) = 2 /\ y[1] = b /\ y[2] = d
      <4>1. Len(<<b>>) = 1 /\ <<b>>[1] = b
        OBVIOUS
      <4> QED
        BY <3>1, <4>1, AppendProperties
    <3>4. z \in Seq(Char) /\ Len(z) = 2 /\ z[1] = b /\ z[2] = d
      OBVIOUS
    <3>5. \A i \in 1..2 : i = 1 \/ i = 2
      OBVIOUS
    <3> HIDE DEF y, z
    <3>6. y = z
      BY <3>3, <3>4, <3>5, SeqEqual
    <3> QED
      BY <3>2, <3>6 DEF y, z
  <2>2. Space \o x = <<" ", c>>
    BY <1>2, <2>1, Zenon DEF Char, Space
  <2>3. Cat(Cat(s, Space), x) = Cat(s, Cat(Space, x))
    BY <1>3, SpaceIs, CatAssoc
  <2> QED
    BY <1>1, <2>2, <2>3, Zenon DEF Cat
<1> HIDE DEF x
<1>6. t \in Seq(Char)
  <2>1. s \o Space \in Seq(Char)
    BY SpaceIs, ConcatProperties
  <2> QED
    BY <1>3, <1>5, <2>1, ConcatProperties
<1>7. Fields(Clean(t)) = Fields(Clean(s)) \cup Fields(x)
  <2>1. Clean(t) = (Clean(s) \o Space) \o Clean(x)
    BY <1>3, <1>5, CleanBlanks
  <2>2. Clean(x) = x
    BY <1>3, <1>4, CleanStays
  <2>3. Clean(s) \in Seq(Char)
    BY CleanChars
  <2> QED
    BY <1>3, <2>1, <2>2, <2>3, FieldsSplit
<1>8. Fields(x) \subseteq {x}
  BY <1>3, <1>4, FieldsOne
<1>9. Fields(normalizeQuery(t)) \ Fields(normalizeQuery(s)) \subseteq {x}
  BY <1>6, <1>7, <1>8, FieldsNormal
<1>10. x \in {<<"1">>, <<"a">>}
  BY Zenon DEF x
<1> QED
  BY <1>6, <1>9, <1>10, Zenon
=============================================================================
