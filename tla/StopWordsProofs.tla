-------------------------- MODULE StopWordsProofs ---------------------------
(***************************************************************************)
(* Proofs about StopWords for any number of instances, concurrent calls    *)
(* and words: its type invariant, what an acknowledged addition is worth,  *)
(* and when an instance's map agrees with Redis.                           *)
(***************************************************************************)
EXTENDS StopWords, TLAPS

\* A call that is still alone is the only one on its word.
AloneMeansAlone ==
    \A c \in Call : phase[c] # "idle" /\ alone[c] => InFlight(word[c]) = {c}

\* Nobody is removing a word in force, and it is stored and in the map.
InForceKept ==
    \A i \in Instance :
        /\ inForce[i] \subseteq stored
        /\ up[i] => inForce[i] \subseteq stopWords[i]
        /\ \A c \in Call : phase[c] # "idle" /\ op[c] = "remove" =>
                               word[c] \notin inForce[i]

\* An addition made alone is in Redis when the map's turn comes.
AdditionWritten ==
    \A c \in Call : phase[c] = "local" /\ op[c] = "add" /\ alone[c] =>
                        word[c] \in stored

ForceInv == TypeOK /\ AloneMeansAlone /\ InForceKept /\ AdditionWritten

\* A word that is settled on an instance has at most one call under way, and
\* there; before it writes Redis both sides agree, after it only Redis knows.
SettledAgrees ==
    \A i \in Instance, w \in Word :
        up[i] /\ w \notin unsettled[i] =>
            /\ \A c, d \in InFlight(w) : c = d
            /\ \A c \in InFlight(w) :
                 /\ at[c] = i
                 /\ phase[c] = "local" => (w \in stored <=> op[c] = "add")
            /\ (\A c \in InFlight(w) : phase[c] = "redis") =>
                 (w \in stopWords[i] <=> w \in stored)

AgreeInv == TypeOK /\ SettledAgrees
-----------------------------------------------------------------------------
\* The choice finds an instance.
LEMMA NowhereType == Nowhere \in Instance
BY StopWordsAssumption DEF Nowhere

\* No instance serves yet, and no call is under way.
LEMMA TypeInit == Init => TypeOK
<1> SUFFICES ASSUME Init
             PROVE  TypeOK
  OBVIOUS
<1> QED
  BY NowhereType DEF Init, TypeOK

\* Every step keeps the types, and a crash ends the calls of its instance.
LEMMA TypeStep == TypeOK /\ [Next]_vars => TypeOK'
<1> SUFFICES ASSUME TypeOK, [Next]_vars
             PROVE  TypeOK'
  OBVIOUS
<1> USE DEF TypeOK
<1>1. ASSUME NEW i \in Instance, LoadStopWords(i)
      PROVE  TypeOK'
  BY <1>1 DEF LoadStopWords, callVars
<1>2. ASSUME NEW i \in Instance, Crash(i)
      PROVE  TypeOK'
  BY <1>2, NowhereType DEF Crash
<1>3. ASSUME NEW c \in Call, Step(c)
      PROVE  TypeOK'
  <2>1. \A S \in SUBSET Word : Apply(c, S) \in SUBSET Word
    BY DEF Apply
  <2>2. CASE WriteRedis(c)
    BY <2>1, <2>2 DEF WriteRedis
  <2>3. CASE WriteFails(c)
    BY <2>1, <2>3, NowhereType DEF WriteFails, Return
  <2>4. CASE UpdateMap(c)
    BY <2>1, <2>4, NowhereType DEF UpdateMap, Return
  <2> QED
    BY <1>3, <2>2, <2>3, <2>4 DEF Step
<1>4. ASSUME NEW c \in Call, NEW i \in Instance, NEW o \in {"add", "remove"},
             NEW w \in Word, Invoke(c, i, o, w)
      PROVE  TypeOK'
  BY <1>4 DEF Invoke, InFlight
<1>5. CASE UNCHANGED vars
  BY <1>5 DEF vars, callVars
<1> QED
  BY <1>1, <1>2, <1>3, <1>4, <1>5 DEF Next

\* No addition is in force yet.
LEMMA ForceInit == Init => ForceInv
BY TypeInit DEF Init, ForceInv, AloneMeansAlone, InForceKept, AdditionWritten

\* One step of a call on its own word leaves what the others rely on.
LEMMA ForceStep == ForceInv /\ [Next]_vars => ForceInv'
<1> SUFFICES ASSUME ForceInv, [Next]_vars
             PROVE  ForceInv'
  OBVIOUS
<1>1. TypeOK'
  BY TypeStep DEF ForceInv
<1>2. ASSUME NEW i \in Instance, LoadStopWords(i)
      PROVE  ForceInv'
  BY <1>1, <1>2 DEF LoadStopWords, callVars, ForceInv, TypeOK, AloneMeansAlone,
                    InFlight, InForceKept, AdditionWritten
<1>3. ASSUME NEW i \in Instance, Crash(i)
      PROVE  ForceInv'
  <2>1. \A c \in Call : phase'[c] # "idle" => phase'[c] = phase[c]
    BY <1>3 DEF Crash, ForceInv, TypeOK
  <2>2. AloneMeansAlone'
    BY <1>3, <2>1 DEF Crash, ForceInv, AloneMeansAlone, InFlight
  <2>3. InForceKept'
    BY <1>3, <2>1 DEF Crash, ForceInv, TypeOK, InForceKept
  <2>4. AdditionWritten'
    BY <1>3, <2>1 DEF Crash, ForceInv, AdditionWritten
  <2> QED
    BY <1>1, <2>2, <2>3, <2>4 DEF ForceInv
<1>4. ASSUME NEW c \in Call, NEW i \in Instance, NEW o \in {"add", "remove"},
             NEW w \in Word, Invoke(c, i, o, w)
      PROVE  ForceInv'
  <2> USE <1>4 DEF Invoke, ForceInv
  <2>1. /\ phase' = [phase EXCEPT ![c] = "redis"] /\ op' = [op EXCEPT ![c] = o]
        /\ word' = [word EXCEPT ![c] = w]
    OBVIOUS
  <2>2. \A d \in Call : d # c => /\ phase'[d] = phase[d] /\ op'[d] = op[d]
                                /\ word'[d] = word[d]
    BY <2>1 DEF TypeOK
  <2>3. phase'[c] = "redis" /\ op'[c] = o /\ word'[c] = w
    BY <2>1 DEF TypeOK
  <2>a. \A d \in Call : alone'[d] => IF d = c THEN InFlight(w) = {}
                                   ELSE alone[d] /\ d \notin InFlight(w)
    OBVIOUS
  <2>4. AloneMeansAlone'
    <3> SUFFICES ASSUME NEW d \in Call, phase'[d] # "idle", alone'[d],
                        NEW b \in Call, phase'[b] # "idle", word'[b] = word'[d]
                 PROVE  b = d
      BY DEF AloneMeansAlone, InFlight
    <3>1. CASE d = c
      BY <2>a, <2>2, <2>3, <3>1 DEF InFlight
    <3>2. CASE d # c /\ b = c
      BY <2>a, <2>2, <2>3, <3>2 DEF InFlight
    <3>3. CASE d # c /\ b # c
      <4>1. phase[d] # "idle" /\ alone[d] /\ b \in InFlight(word[d])
        BY <2>a, <2>2, <3>3 DEF InFlight
      <4>2. InFlight(word[d]) = {d}
        BY <4>1 DEF AloneMeansAlone
      <4> QED
        BY <4>1, <4>2
    <3> QED
      BY <3>1, <3>2, <3>3
  <2>5. InForceKept'
    <3>1. \A j \in Instance : inForce'[j] \subseteq inForce[j]
      OBVIOUS
    <3>2. o = "remove" => \A j \in Instance : w \notin inForce'[j]
      OBVIOUS
    <3> QED
      BY <2>2, <2>3, <3>1, <3>2 DEF InForceKept
  <2>6. AdditionWritten'
    BY <2>a, <2>2, <2>3 DEF AdditionWritten
  <2> QED
    BY <1>1, <2>4, <2>5, <2>6
<1>5. ASSUME NEW c \in Call, phase[c] = "redis",
             stored' \in {stored, Apply(c, stored)},
             phase' \in {[phase EXCEPT ![c] = "idle"], [phase EXCEPT ![c] = "local"]},
             phase'[c] = "local" => stored' = Apply(c, stored),
             \A d \in Call : phase'[d] # "idle" =>
                                op'[d] = op[d] /\ alone'[d] = alone[d],
             UNCHANGED <<up, stopWords, word, inForce>>
      PROVE  ForceInv'
  <2> USE <1>5 DEF ForceInv, Apply
  <2>1. \A d \in Call : phase'[d] # "idle" =>
           phase[d] # "idle" /\ (d # c => phase'[d] = phase[d])
    BY DEF TypeOK
  <2>2. AloneMeansAlone'
    BY <2>1 DEF AloneMeansAlone, InFlight
  <2>3. InForceKept'
    <3>1. op[c] = "remove" => \A i \in Instance : word[c] \notin inForce[i]
      BY DEF InForceKept
    <3>2. \A i \in Instance : inForce[i] \subseteq stored'
      BY <3>1 DEF InForceKept, TypeOK
    <3> QED
      BY <2>1, <3>2 DEF InForceKept
  <2>4. AdditionWritten'
    <3> SUFFICES ASSUME NEW d \in Call, phase'[d] = "local", op[d] = "add", alone[d]
                 PROVE  word[d] \in stored'
      BY <2>1 DEF AdditionWritten
    <3>1. CASE d = c
      BY <3>1
    <3>2. CASE d # c
      <4>1. word[d] # word[c] /\ word[d] \in stored
        BY <2>1, <3>2 DEF AloneMeansAlone, InFlight, AdditionWritten
      <4> QED
        BY <4>1
    <3> QED
      BY <3>1, <3>2
  <2> QED
    BY <1>1, <2>2, <2>3, <2>4
<1>6. ASSUME NEW c \in Call, UpdateMap(c)
      PROVE  ForceInv'
  <2> USE <1>6 DEF UpdateMap, Return, ForceInv
  <2>1. \A d \in Call : phase'[d] # "idle" => d # c /\ phase'[d] = phase[d]
    BY DEF TypeOK
  <2>2. AloneMeansAlone'
    BY <2>1 DEF AloneMeansAlone, InFlight
  <2>3. at[c] \in Instance
    BY DEF TypeOK
  <2>4. \A i \in Instance :
           stopWords'[i] = IF i = at[c] THEN Apply(c, stopWords[i]) ELSE stopWords[i]
    BY DEF TypeOK
  <2>5. InForceKept'
    <3>1. CASE op[c] = "add" /\ alone[c]
      <4>1. \A i \in Instance :
               inForce'[i] = IF i = at[c] THEN inForce[i] \cup {word[c]} ELSE inForce[i]
        BY <3>1 DEF TypeOK
      <4>2. word[c] \in stored
        BY <3>1 DEF AdditionWritten
      <4>3. \A d \in Call : phase'[d] # "idle" => word[d] # word[c]
        BY <2>1, <3>1 DEF AloneMeansAlone, InFlight
      <4>4. \A d \in Call : phase'[d] # "idle" =>
               phase[d] # "idle" /\ op'[d] = op[d] /\ word'[d] = word[d]
        BY <2>1 DEF TypeOK
      <4>5. \A i \in Instance : /\ inForce'[i] \subseteq stored'
                                /\ up'[i] => inForce'[i] \subseteq stopWords'[i]
        <5>1. stored' = stored /\ up' = up
          OBVIOUS
        <5>2. \A i \in Instance : stopWords'[i] = IF i = at[c]
                THEN stopWords[i] \cup {word[c]} ELSE stopWords[i]
          BY <2>4, <3>1 DEF Apply
        <5>3. \A i \in Instance : /\ inForce[i] \subseteq stored
                                  /\ up[i] => inForce[i] \subseteq stopWords[i]
          BY DEF InForceKept
        <5> TAKE i \in Instance
        <5>4. inForce'[i] \subseteq stored /\ inForce[i] \subseteq stored
          BY <4>1, <4>2, <5>3
        <5>5. CASE i = at[c]
          <6>1. inForce'[i] = inForce[i] \cup {word[c]}
            BY <4>1, <5>5
          <6>2. stopWords'[i] = stopWords[i] \cup {word[c]}
            BY <5>2, <5>5
          <6>3. up[i] => inForce[i] \subseteq stopWords[i]
            BY <5>3
          <6>4. up'[i] => inForce'[i] \subseteq stopWords'[i]
            BY ONLY <5>1, <6>1, <6>2, <6>3
          <6> QED
            BY ONLY <5>1, <5>4, <6>4
        <5>6. CASE i # at[c]
          BY <4>1, <5>1, <5>2, <5>3, <5>4, <5>6
        <5> QED
          BY <5>5, <5>6
      <4>6. \A i \in Instance, d \in Call :
               phase'[d] # "idle" /\ op'[d] = "remove" => word'[d] \notin inForce'[i]
        BY <4>1, <4>3, <4>4 DEF InForceKept
      <4> QED
        BY <4>5, <4>6 DEF InForceKept
    <3>2. CASE ~ (op[c] = "add" /\ alone[c])
      <4>1. inForce' = inForce
        BY <3>2
      <4>2. op[c] = "remove" => \A i \in Instance : word[c] \notin inForce[i]
        BY DEF InForceKept
      <4>3. op[c] \in {"add", "remove"}
        BY DEF TypeOK
      <4> QED
        BY <2>1, <2>4, <4>1, <4>2, <4>3 DEF InForceKept, Apply
    <3> QED
      BY <3>1, <3>2
  <2>6. AdditionWritten'
    BY <2>1 DEF AdditionWritten
  <2> QED
    BY <1>1, <2>2, <2>5, <2>6
<1>7. ASSUME NEW c \in Call, Step(c)
      PROVE  ForceInv'
  <2>1. CASE WriteRedis(c)
    BY <1>5, <2>1 DEF WriteRedis
  <2>2. CASE WriteFails(c)
    <3>1. /\ phase' = [phase EXCEPT ![c] = "idle"] /\ phase[c] = "redis"
          /\ stored' \in {stored, Apply(c, stored)}
          /\ UNCHANGED <<up, stopWords, word, inForce>>
      BY <2>2 DEF WriteFails, Return
    <3>2. \A d \in Call : phase'[d] # "idle" =>
                             op'[d] = op[d] /\ alone'[d] = alone[d]
      BY <2>2 DEF WriteFails, Return, ForceInv, TypeOK
    <3>3. phase'[c] = "idle"
      BY <3>1 DEF ForceInv, TypeOK
    <3> QED
      BY <1>5, <3>1, <3>2, <3>3
  <2> QED
    BY <1>6, <1>7, <2>1, <2>2 DEF Step
<1>8. CASE UNCHANGED vars
  BY <1>1, <1>8 DEF vars, callVars, ForceInv, AloneMeansAlone, InFlight,
                    InForceKept, AdditionWritten
<1> QED
  BY <1>2, <1>3, <1>4, <1>7, <1>8 DEF Next

(***************************************************************************)
(* A word whose addition an instance acknowledged blocks queries there     *)
(* through restarts, failures and calls on other words, until somebody     *)
(* asks to remove it or a load fails: AddStopWord writes Redis before the  *)
(* map, and LoadStopWords replaces the map by the whole set.               *)
(***************************************************************************)
THEOREM AdditionsStay == Spec => []AdditionsInForce
<1>1. Spec => []ForceInv
  BY ForceInit, ForceStep, PTL DEF Spec
<1>2. ForceInv => AdditionsInForce
  BY DEF ForceInv, InForceKept, AdditionsInForce, matchesStopWord
<1> QED
  BY <1>1, <1>2, PTL
-----------------------------------------------------------------------------
\* SettledAgrees for one instance and one word.
SettledOn(i, w) ==
    /\ \A c, d \in InFlight(w) : c = d
    /\ \A c \in InFlight(w) : /\ at[c] = i
                              /\ phase[c] = "local" =>
                                   (w \in stored <=> op[c] = "add")
    /\ (\A c \in InFlight(w) : phase[c] = "redis") =>
         (w \in stopWords[i] <=> w \in stored)

\* SettledAgrees, one instance and word at a time.
LEMMA SettledEach ==
    SettledAgrees <=> \A i \in Instance, w \in Word :
                          up[i] /\ w \notin unsettled[i] => SettledOn(i, w)
BY DEF SettledAgrees, SettledOn

\* No instance serves yet.
LEMMA AgreeInit == Init => AgreeInv
BY TypeInit DEF Init, AgreeInv, SettledAgrees, InFlight

\* A call that returns or dies leaves its word settled or marks it unsettled.
LEMMA AgreeStep == AgreeInv /\ [Next]_vars => AgreeInv'
<1> SUFFICES ASSUME AgreeInv, [Next]_vars
             PROVE  SettledAgrees'
  BY TypeStep DEF AgreeInv
<1> USE DEF AgreeInv
<1>0. SUFFICES ASSUME NEW i \in Instance, NEW w \in Word, up'[i], w \notin unsettled'[i]
               PROVE  SettledOn(i, w)'
  BY DEF SettledAgrees, SettledOn
<1>1. ASSUME up[i], w \notin unsettled[i]
      PROVE  SettledOn(i, w)
  BY <1>1, SettledEach
<1>2. ASSUME NEW j \in Instance, LoadStopWords(j)
      PROVE  SettledOn(i, w)'
  <2> USE <1>2 DEF LoadStopWords, callVars
  <2>1. CASE i = j
    <3>1. unsettled' = [unsettled EXCEPT ![i] = Word]
            \/ /\ stopWords' = [stopWords EXCEPT ![i] = stored]
               /\ unsettled' = [unsettled EXCEPT ![i] = {v \in Word : InFlight(v) # {}}]
      BY <2>1
    <3>2. stopWords'[i] = stored /\ InFlight(w) = {}
      BY <1>0, <3>1 DEF TypeOK
    <3> QED
      BY <3>2 DEF SettledOn, InFlight
  <2>2. CASE i # j
    <3>1. up[i] /\ w \notin unsettled[i] /\ stopWords'[i] = stopWords[i]
      BY <1>0, <2>2 DEF TypeOK
    <3> QED
      BY <1>1, <3>1 DEF SettledOn, InFlight
  <2> QED
    BY <2>1, <2>2
<1>3. ASSUME NEW j \in Instance, Crash(j)
      PROVE  SettledOn(i, w)'
  <2> USE <1>3 DEF Crash
  <2>1. i # j /\ up[i] /\ stopWords'[i] = stopWords[i]
    BY <1>0 DEF TypeOK
  <2>2. SettledOn(i, w)
    BY <1>0, <1>1, <2>1
  <2>3. \A c \in InFlight(w) : /\ phase'[c] = phase[c] /\ op'[c] = op[c]
                             /\ at'[c] = at[c]
    BY <2>1, <2>2 DEF SettledOn, InFlight, TypeOK
  <2>4. InFlight(w)' = InFlight(w)
    <3>1. \A c \in Call : phase'[c] # "idle" => phase[c] # "idle"
      BY DEF TypeOK
    <3>2. \A c \in Call : phase[c] # "idle" /\ word[c] = w => phase'[c] = phase[c]
      BY <2>3 DEF InFlight
    <3>3. word' = word
      OBVIOUS
    <3> QED
      BY ONLY <3>1, <3>2, <3>3 DEF InFlight
  <2>5. UNCHANGED stored
    OBVIOUS
  <2> QED
    BY ONLY <2>1, <2>2, <2>3, <2>4, <2>5 DEF SettledOn
<1>4. ASSUME NEW c \in Call, NEW j \in Instance, NEW o \in {"add", "remove"},
             NEW v \in Word, Invoke(c, j, o, v)
      PROVE  SettledOn(i, w)'
  <2> USE <1>4 DEF Invoke
  <2>1. /\ phase' = [phase EXCEPT ![c] = "redis"] /\ op' = [op EXCEPT ![c] = o]
        /\ word' = [word EXCEPT ![c] = v] /\ at' = [at EXCEPT ![c] = j]
        /\ phase[c] = "idle"
    OBVIOUS
  <2>2. /\ phase'[c] = "redis" /\ word'[c] = v /\ at'[c] = j
        /\ \A d \in Call : d # c => /\ phase'[d] = phase[d] /\ op'[d] = op[d]
                                   /\ word'[d] = word[d] /\ at'[d] = at[d]
    BY <2>1 DEF TypeOK
  <2>3. up[i] /\ stopWords' = stopWords /\ stored' = stored
    BY <1>0
  <2>4. unsettled'[i] = IF i # j \/ InFlight(v) # {} THEN unsettled[i] \cup {v}
                                                     ELSE unsettled[i]
    OBVIOUS
  <2>5. w \notin unsettled[i]
    BY <1>0, <2>4
  <2>6. SettledOn(i, w)
    BY <1>1, <2>3, <2>5
  <2>7. CASE w # v
    <3>1. InFlight(w)' = InFlight(w) /\ c \notin InFlight(w)
      BY <2>1, <2>2, <2>7 DEF InFlight
    <3>2. \A d \in InFlight(w) : phase'[d] = phase[d] /\ op'[d] = op[d] /\ at'[d] = at[d]
      BY <2>2, <3>1 DEF InFlight
    <3> QED
      BY <2>3, <2>6, <3>1, <3>2 DEF SettledOn
  <2>8. CASE w = v
    <3>1. i = j /\ InFlight(w) = {}
      BY <1>0, <2>4, <2>8
    <3>2. InFlight(w)' = {c}
      BY <2>2, <2>8, <3>1 DEF InFlight
    <3>3. w \in stopWords[i] <=> w \in stored
      BY <2>6, <3>1 DEF SettledOn
    <3> QED
      BY <2>2, <2>3, <3>1, <3>2, <3>3 DEF SettledOn
  <2> QED
    BY <2>7, <2>8
<1>5. ASSUME NEW c \in Call, Step(c), w = word[c]
      PROVE  SettledOn(i, w)'
  <2>0. /\ at[c] \in Instance /\ c \in InFlight(w) /\ up' = up
        /\ word' = word /\ op[c] \in {"add", "remove"}
        /\ phase \in [Call -> {"idle", "redis", "local"}]
    BY <1>5 DEF Step, WriteRedis, WriteFails, UpdateMap, Return, InFlight, TypeOK
  <2>1. w \notin unsettled[i]
    BY <1>0, <1>5 DEF Step, WriteRedis, WriteFails, UpdateMap, Return, TypeOK
  <2>2. SettledOn(i, w)
    BY <1>0, <1>1, <2>0, <2>1
  <2>3. at[c] = i /\ InFlight(w) = {c}
    BY <2>0, <2>2 DEF SettledOn
  <2>4. CASE WriteRedis(c)
    <3>1. InFlight(w)' = {c} /\ phase'[c] = "local"
      BY <2>0, <2>3, <2>4 DEF WriteRedis, InFlight, TypeOK
    <3>2. w \in stored' <=> op[c] = "add"
      BY <1>5, <2>0, <2>4 DEF WriteRedis, Apply
    <3>3. op' = op /\ at' = at
      BY <2>4 DEF WriteRedis
    <3> QED
      BY <2>0, <2>3, <3>1, <3>2, <3>3 DEF SettledOn
  <2>5. CASE WriteFails(c)
    BY <1>0, <1>5, <2>0, <2>3, <2>5 DEF WriteFails, Return, TypeOK
  <2>6. CASE UpdateMap(c)
    <3>1. InFlight(w)' = {}
      BY <2>0, <2>3, <2>6 DEF UpdateMap, Return, InFlight
    <3>2. stopWords'[i] = Apply(c, stopWords[i]) /\ stored' = stored
      BY <2>3, <2>6 DEF UpdateMap, Return, TypeOK
    <3>3. w \in stored <=> op[c] = "add"
      BY <2>2, <2>3, <2>6 DEF UpdateMap, Return, SettledOn
    <3> QED
      BY <1>5, <2>0, <3>1, <3>2, <3>3 DEF SettledOn, Apply
  <2> QED
    BY <1>5, <2>4, <2>5, <2>6 DEF Step
<1>6. ASSUME NEW c \in Call, Step(c), w # word[c]
      PROVE  SettledOn(i, w)'
  <2>1. /\ w \in stored' <=> w \in stored
        /\ w \in stopWords'[i] <=> w \in stopWords[i]
    BY <1>6 DEF Step, WriteRedis, WriteFails, UpdateMap, Return, Apply, TypeOK
  <2>2. /\ up' = up /\ word' = word
        /\ \A d \in Call : d # c => /\ phase'[d] = phase[d] /\ op'[d] = op[d]
                                   /\ at'[d] = at[d]
    BY <1>6 DEF Step, WriteRedis, WriteFails, UpdateMap, Return, TypeOK
  <2>3. w \notin unsettled[i]
    BY <1>0, <1>6 DEF Step, WriteRedis, WriteFails, UpdateMap, Return, TypeOK
  <2>4. SettledOn(i, w)
    BY <1>0, <1>1, <2>2, <2>3
  <2>5. InFlight(w)' = InFlight(w) /\ c \notin InFlight(w)
    BY <1>6, <2>2 DEF InFlight, TypeOK
  <2>6. \A d \in InFlight(w) : /\ phase'[d] = phase[d] /\ op'[d] = op[d]
                             /\ at'[d] = at[d]
    BY <2>2, <2>5 DEF InFlight
  <2> QED
    BY <2>1, <2>2, <2>4, <2>5, <2>6 DEF SettledOn
<1>7. CASE UNCHANGED vars
  BY <1>0, <1>1, <1>7 DEF vars, callVars, SettledOn, InFlight
<1> QED
  BY <1>2, <1>3, <1>4, <1>5, <1>6, <1>7 DEF Next

(***************************************************************************)
(* Redis first, the map second, and no call that fails or overlaps: then   *)
(* the map is never left behind.  What unsettles a word is exactly what    *)
(* AddStopWord and RemoveStopWord do not guard against.                    *)
(***************************************************************************)
THEOREM MapsAgree == Spec => []MapAgrees
<1>1. Spec => []AgreeInv
  BY AgreeInit, AgreeStep, PTL DEF Spec
<1>2. AgreeInv => MapAgrees
  BY DEF AgreeInv, SettledAgrees, MapAgrees
<1> QED
  BY <1>1, <1>2, PTL

\* Calls are under way only on instances that serve, and a map that is gone
\* is empty until the next load.
THEOREM StopWordTypes == Spec => []TypeOK
BY TypeInit, TypeStep, PTL DEF Spec
=============================================================================
