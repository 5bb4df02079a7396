----------------------------- MODULE QueryText ------------------------------
(***************************************************************************)
(* What happens to the text of a query: generateQuery of the load producer *)
(* spoils it, normalizeQuery of the service restores it, and the service   *)
(* compares it with stop words, as a whole and word by word.               *)
(*                                                                         *)
(* A text is a sequence of characters, one or two of each kind the code    *)
(* tells apart: "a" and "A" stand for the letters the producer's upper and *)
(* lower know, "yo" and "YO" for letters only Unicode's tables know, "1"   *)
(* for digits and "-" for everything that is neither letter, digit nor     *)
(* space.  A random choice of the producer is the set of its outcomes.     *)
(***************************************************************************)
EXTENDS Naturals, Sequences, FiniteSetsExt

Char == {"a", "A", "yo", "YO", "1", "-", " "}

\* unicode.ToLower; and the letters, digits and spaces normalizeQuery keeps.
ToLower(c) == CASE c = "A" -> "a" [] c = "YO" -> "yo" [] OTHER -> c
Kept(c) == c # "-"

Map(s, Op(_)) == [i \in DOMAIN s |-> Op(s[i])]

TrimSpace(s) ==
    LET inner == {i \in DOMAIN s : s[i] # " "}
    IN IF inner = {} THEN <<>> ELSE SubSeq(s, Min(inner), Max(inner))

\* The builder's loop over the runes.
writeKept(s) ==
    LET written[i \in 0..Len(s)] ==
          IF i = 0 THEN <<>>
          ELSE IF Kept(s[i]) THEN Append(written[i - 1], s[i])
          ELSE written[i - 1]
    IN written[Len(s)]

\* Variants: trimmed only before or only after symbols are dropped, and in the
\* case it was typed in.
normalizeQueryTrimOnce(q) == writeKept(TrimSpace(Map(q, ToLower)))
normalizeQueryCased(q) == TrimSpace(writeKept(q))

normalizeQuery(q) == TrimSpace(writeKept(TrimSpace(Map(q, ToLower))))

\* strings.Fields: the maximal runs without a space.
Fields(s) ==
    {SubSeq(s, r[1], r[2]) : r \in
        {r \in (1..Len(s)) \X (1..Len(s)) :
           /\ r[1] <= r[2]
           /\ \A i \in r[1]..r[2] : s[i] # " "
           /\ r[1] = 1 \/ s[r[1] - 1] = " "
           /\ r[2] = Len(s) \/ s[r[2] + 1] = " "}}

\* A variant that looks for the stop word anywhere in the query.
matchesStopWordInside(query, words) ==
    \E i, j \in DOMAIN query : SubSeq(query, i, j) \in words

matchesStopWord(query, words) ==
    query \in words \/ Fields(query) \cap words # {}
-----------------------------------------------------------------------------
upper(c) == IF c = "a" THEN "A" ELSE c
lower(c) == IF c = "A" THEN "a" ELSE c
isLetter(c) == c \in {"a", "A"}

\* Every third letter or so goes to upper case.
stringsToUpper(s) ==
    {[i \in DOMAIN s |-> IF i \in S THEN upper(s[i]) ELSE s[i]] :
        S \in SUBSET DOMAIN s}

stringsToLower(s) == Map(s, lower)

\* The first letter after the beginning or a space, whatever is before it.
stringsToTitle(s) ==
    LET first(i) ==
          /\ isLetter(s[i])
          /\ \A j \in 1..(i - 1) : isLetter(s[j]) => \E k \in j..i : s[k] = " "
    IN [i \in DOMAIN s |-> IF first(i) THEN upper(s[i]) ELSE lower(s[i])]

addExtraSpaces(s) ==
    {[i \in 1..n |-> " "] \o s \o [i \in 1..n |-> " "] : n \in 1..3}

\* messySuffixes of punctuation, and those that add a word.
punctuation == {<<"-">>, <<"-", "-", "-">>}
extraWords == {<<" ", "1">>, <<" ", "a">>}

Suffixed(s, suffixes) == {s \o x : x \in suffixes}

\* generateQuery for the text it picked, without and with the word suffixes.
Disguised(q) ==
    {q, stringsToLower(q), stringsToTitle(q)} \cup stringsToUpper(q)
        \cup addExtraSpaces(q) \cup Suffixed(q, punctuation)

generateQuery(q) == Disguised(q) \cup Suffixed(q, extraWords)
=============================================================================
