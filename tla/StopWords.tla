----------------------------- MODULE StopWords ------------------------------
(***************************************************************************)
(* The stop words: the Redis set all instances share, each instance's own  *)
(* map, the AddStopWord and RemoveStopWord calls that change first one and *)
(* then the other, and LoadStopWords at start.  A word is the result of    *)
(* normalizeQuery; a call whose word normalises to nothing returns without *)
(* effect and is left out.                                                 *)
(*                                                                         *)
(* An instance serves nothing before its load has ended, so a load is one  *)
(* step; a call is two, and calls run concurrently in their gRPC handlers. *)
(***************************************************************************)
EXTENDS Naturals

CONSTANTS
    Instance,
    Call,           \* gRPC calls that may be under way at once
    Word,
    Query,
    Tokens,         \* the words of a query, and the query itself
    RedisFails,     \* whether Redis commands may fail
    Crashes         \* whether instances may crash

ASSUME StopWordsAssumption ==
    /\ Instance # {}
    /\ Tokens \in [Query -> SUBSET Word]
    /\ RedisFails \in BOOLEAN
    /\ Crashes \in BOOLEAN

VARIABLES
    stored,     \* the Redis set trend:stopwords
    up,         \* [Instance]: whether it serves
    stopWords,  \* [Instance]: its map
    phase,      \* [Call]: idle, about to write Redis, or the map
    op, word, at,   \* [Call]: what it does, to which word, on which instance
    alone,      \* history, [Call]: no other call on its word overlapped it
    inForce,    \* history, [Instance]: words it acknowledged an addition of,
                \*   made alone, that nobody has begun to remove since
    unsettled   \* history, [Instance]: words for which, since it loaded, a
                \*   call failed, overlapped another or ran elsewhere

callVars == <<phase, op, word, at>>
vars == <<stored, up, stopWords, callVars, alone, inForce, unsettled>>

\* Where a call that is not under way is, for the sake of a value.
Nowhere == CHOOSE i \in Instance : TRUE

TypeOK ==
    /\ stored \in SUBSET Word
    /\ up \in [Instance -> BOOLEAN]
    /\ stopWords \in [Instance -> SUBSET Word]
    /\ phase \in [Call -> {"idle", "redis", "local"}]
    /\ op \in [Call -> {"add", "remove"}]
    /\ word \in [Call -> Word]
    /\ at \in [Call -> Instance]
    /\ alone \in [Call -> BOOLEAN]
    /\ inForce \in [Instance -> SUBSET Word]
    /\ unsettled \in [Instance -> SUBSET Word]
    /\ \A c \in Call : phase[c] # "idle" => up[at[c]]
    /\ \A i \in Instance : ~ up[i] => stopWords[i] = {}

Init ==
    /\ stored = {}
    /\ up = [i \in Instance |-> FALSE]
    /\ stopWords = [i \in Instance |-> {}]
    /\ phase = [c \in Call |-> "idle"]
    /\ op = [c \in Call |-> "add"]
    /\ word \in {[c \in Call |-> w] : w \in Word}
    /\ at = [c \in Call |-> Nowhere]
    /\ alone = [c \in Call |-> FALSE]
    /\ inForce = [i \in Instance |-> {}]
    /\ unsettled = [i \in Instance |-> {}]

InFlight(w) == {c \in Call : phase[c] # "idle" /\ word[c] = w}

\* Call c returns; what it did is forgotten.
Return(c) ==
    /\ phase' = [phase EXCEPT ![c] = "idle"]
    /\ op' = [op EXCEPT ![c] = "add"]
    /\ at' = [at EXCEPT ![c] = Nowhere]
    /\ alone' = [alone EXCEPT ![c] = FALSE]

Apply(c, S) == IF op[c] = "add" THEN S \cup {word[c]} ELSE S \ {word[c]}

\* The whole query, or one of its tokens, is a stop word.
matchesStopWord(i, q) == Tokens[q] \cap stopWords[i] # {}
-----------------------------------------------------------------------------
\* SMEMBERS replaces the map; a failure is only logged and leaves it empty.
LoadStopWords(i) ==
    /\ ~ up[i]
    /\ up' = [up EXCEPT ![i] = TRUE]
    /\ \/ /\ stopWords' = [stopWords EXCEPT ![i] = stored]
          /\ unsettled' = [unsettled EXCEPT ![i] =
                             {w \in Word : InFlight(w) # {}}]
          /\ UNCHANGED inForce
       \/ /\ RedisFails
          /\ unsettled' = [unsettled EXCEPT ![i] = Word]
          /\ inForce' = [inForce EXCEPT ![i] = {}]
          /\ UNCHANGED stopWords
    /\ UNCHANGED <<stored, callVars, alone>>

\* A client calls AddStopWord or RemoveStopWord.
Invoke(c, i, o, w) ==
    /\ phase[c] = "idle"
    /\ up[i]
    /\ phase' = [phase EXCEPT ![c] = "redis"]
    /\ op' = [op EXCEPT ![c] = o]
    /\ word' = [word EXCEPT ![c] = w]
    /\ at' = [at EXCEPT ![c] = i]
    /\ alone' = [d \in Call |-> IF d = c THEN InFlight(w) = {}
                               ELSE alone[d] /\ d \notin InFlight(w)]
    /\ inForce' = [j \in Instance |-> IF o = "remove" THEN inForce[j] \ {w}
                                                      ELSE inForce[j]]
    /\ unsettled' = [j \in Instance |->
                       IF j # i \/ InFlight(w) # {} THEN unsettled[j] \cup {w}
                                                    ELSE unsettled[j]]
    /\ UNCHANGED <<stored, up, stopWords>>

\* SADD or SREM succeeds.
WriteRedis(c) ==
    /\ phase[c] = "redis"
    /\ stored' = Apply(c, stored)
    /\ phase' = [phase EXCEPT ![c] = "local"]
    /\ UNCHANGED <<up, stopWords, op, word, at, alone, inForce, unsettled>>

\* A variant that ignores the error and updates the map all the same.
WriteFailsUnchecked(c) ==
    /\ RedisFails
    /\ phase[c] = "redis"
    /\ stored' \in {stored, Apply(c, stored)}
    /\ phase' = [phase EXCEPT ![c] = "local"]
    /\ UNCHANGED <<up, stopWords, op, word, at, alone, inForce, unsettled>>

\* The command fails, executed or not, and the client gets the error.
WriteFails(c) ==
    /\ RedisFails
    /\ phase[c] = "redis"
    /\ stored' \in {stored, Apply(c, stored)}
    /\ Return(c)
    /\ unsettled' = [unsettled EXCEPT ![at[c]] = @ \cup {word[c]}]
    /\ UNCHANGED <<up, stopWords, word, inForce>>

\* A variant in which removing a word leaves it in the map.
UpdateMapAdding(c) ==
    /\ phase[c] = "local"
    /\ stopWords' = [stopWords EXCEPT ![at[c]] = @ \cup {word[c]}]
    /\ Return(c)
    /\ UNCHANGED <<stored, up, word, inForce, unsettled>>

\* The map changes under its lock and the call returns.
UpdateMap(c) ==
    /\ phase[c] = "local"
    /\ stopWords' = [stopWords EXCEPT ![at[c]] = Apply(c, @)]
    /\ Return(c)
    /\ inForce' =
         IF op[c] = "add" /\ alone[c]
           THEN [inForce EXCEPT ![at[c]] = @ \cup {word[c]}]
           ELSE inForce
    /\ UNCHANGED <<stored, up, word, unsettled>>

\* The map and the calls under way are lost; the Redis set is not.
Crash(i) ==
    /\ Crashes
    /\ up[i]
    /\ up' = [up EXCEPT ![i] = FALSE]
    /\ stopWords' = [stopWords EXCEPT ![i] = {}]
    /\ phase' = [c \in Call |-> IF at[c] = i THEN "idle" ELSE phase[c]]
    /\ op' = [c \in Call |-> IF at[c] = i THEN "add" ELSE op[c]]
    /\ at' = [c \in Call |-> IF at[c] = i THEN Nowhere ELSE at[c]]
    /\ alone' = [c \in Call |-> alone[c] /\ at[c] # i]
    /\ UNCHANGED <<stored, word, inForce, unsettled>>

Step(c) == WriteRedis(c) \/ WriteFails(c) \/ UpdateMap(c)

Next ==
    \/ \E i \in Instance : LoadStopWords(i) \/ Crash(i)
    \/ \E c \in Call : Step(c)
    \/ \E c \in Call, i \in Instance, o \in {"add", "remove"}, w \in Word :
         Invoke(c, i, o, w)

Spec == Init /\ [][Next]_vars
-----------------------------------------------------------------------------
(***************************************************************************)
(* An instance that acknowledged an addition blocks every query with that  *)
(* word, also after a restart, until somebody asks to remove it or a load  *)
(* fails: calls that fail, crash or concern other words do not undo it.    *)
(***************************************************************************)
AdditionsInForce ==
    \A i \in Instance :
        /\ inForce[i] \subseteq stored
        /\ up[i] => \A q \in Query : inForce[i] \cap Tokens[q] # {} =>
                                         matchesStopWord(i, q)

(***************************************************************************)
(* An instance's map agrees with Redis on every word for which no call is  *)
(* under way and, since it loaded, none failed, overlapped another or was  *)
(* made on another instance.                                               *)
(***************************************************************************)
MapAgrees ==
    \A i \in Instance, w \in Word :
        up[i] /\ w \notin unsettled[i] /\ InFlight(w) = {} =>
            (w \in stopWords[i] <=> w \in stored)

(***************************************************************************)
(* "Adding and removing writes to Redis and updates the in-memory cache":  *)
(* with a single instance and no failures, once all calls have returned    *)
(* the map and Redis hold the same words.                                  *)
(***************************************************************************)
QuietMapIsStored ==
    (\A c \in Call : phase[c] = "idle") =>
        \A i \in Instance : up[i] => stopWords[i] = stored
=============================================================================
