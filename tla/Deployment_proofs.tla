--------------------------- MODULE Deployment_proofs ---------------------------
(***************************************************************************)
(* A deployment, for any number of indexes and of Cypher statements, and   *)
(* any turns of scripts that fail, are interrupted and are run again:      *)
(* exit code 0 means a usable store.                                       *)
(***************************************************************************)
EXTENDS Deployment, SequenceTheorems, TLAPS

-----------------------------------------------------------------------------
(* What a script has before it.  A call is a sequence: its name, and the   *)
(* number of its index or statement.                                       *)

Names == {"connect", "verify", "test", "dropTables", "createTables", "dropCollection",
          "createCollection", "decideIndexes", "createIndex", "drop", "clear", "execute"}
CallsOfScripts == {<<c>> : c \in Names} \union {<<c, n>> : c \in Names, n \in Nat}

\* A call that changes a store belongs to a script of that store.
Owned(c, s) ==
    /\ c[1] \in {"dropTables", "createTables"} => s = "postgres"
    /\ c[1] \in {"dropCollection", "createCollection", "decideIndexes", "createIndex"} =>
          s = "milvus"
    /\ c[1] \in {"drop", "clear", "execute"} => s = "neo4j"
    /\ c[1] = "execute" => c[2] \in 1..Statements

Checks(c) == c[1] \in {"verify", "test"}

\* Verification comes last, of PostgreSQL, or next to last, before the test.
EndsChecked(q, s, loads) ==
    IF s = "postgres"
    THEN /\ Len(q) >= 1 /\ q[Len(q)][1] = "verify"
         /\ \A i \in 1 .. (Len(q) - 1) : ~Checks(q[i])
    ELSE \/ Len(q) = 1 /\ q[1][1] = "test" /\ (s = "milvus" => loads)
         \/ /\ Len(q) >= 2 /\ q[Len(q) - 1][1] = "verify" /\ q[Len(q)][1] = "test"
            /\ \A i \in 1 .. (Len(q) - 2) : ~Checks(q[i])

\* What is dropped is made again: a statement without its constraint or
\* index is still to be executed, and so is one that is still to be dropped.
Executes(q, i, n) == q[i][1] = "execute" /\ q[i][2] = n
MadeAgain(q, there) ==
    /\ \A n \in 1..Statements : n \in there \/ \E i \in 1..Len(q) : Executes(q, i, n)
    /\ \A i \in 1..Len(q) :
          q[i][1] = "drop" => \E j \in (i + 1) .. Len(q) : Executes(q, j, q[i][2])

Running ==
    /\ script \in [store : Stores, reset : BOOLEAN, verify : BOOLEAN]
    /\ todo \in Seq(CallsOfScripts)
    /\ script.store \notin done
    /\ queue.running => ~script.verify
    /\ \A i \in 1..Len(todo) : Owned(todo[i], script.store)
    /\ ~script.verify => /\ EndsChecked(todo, script.store, Loads)
                         /\ script.store = "neo4j" => MadeAgain(todo, schema)

\* init_all: a store it was asked for is still to come, is being set up, or
\* can be used, unless something failed.
Ready ==
    queue.running /\ ~queue.failed =>
        \A s \in queue.asked : \/ \E i \in 1..Len(queue.left) : queue.left[i] = s
                               \/ script # NoScript /\ script.store = s
                               \/ Usable(s)

QueueTypeOK == queue \in [asked : SUBSET Stores, left : Seq(Stores), failed : BOOLEAN,
                          running : BOOLEAN, reset : BOOLEAN]

SetUpInv ==
    /\ schema \subseteq 1..Statements
    /\ QueueTypeOK
    /\ done \subseteq Stores
    /\ SuccessMeansUsable
    /\ Ready
    /\ script # NoScript => Running

-----------------------------------------------------------------------------
(* Stores, and the calls before a script.                                  *)

LEMMA UsableIs ==
    /\ Usable("postgres") <=> tables
    /\ Usable("milvus") <=> Loads
    /\ Usable("neo4j") <=> schema = 1..Statements
  BY DEF Usable

LEMMA UsableStays ==
  ASSUME UNCHANGED storeVars, NEW s \in Stores
  PROVE  /\ Usable(s)' <=> Usable(s)
         /\ Loads' <=> Loads
  BY DEF storeVars, Usable, Loads, Stores

LEMMA TodoHead ==
  ASSUME Running, todo # <<>>
  PROVE  /\ Len(todo) \in Nat \ {0} /\ Head(todo) = todo[1]
         /\ Tail(todo) \in Seq(CallsOfScripts) /\ Len(Tail(todo)) = Len(todo) - 1
         /\ \A i \in 1..Len(Tail(todo)) : Tail(todo)[i] = todo[i + 1]
         /\ Owned(todo[1], script.store)
<1>1. todo \in Seq(CallsOfScripts)
  BY DEF Running
<1>2. Len(todo) \in Nat \ {0}
  BY <1>1, EmptySeq
<1>3. 1 \in 1..Len(todo)
  BY <1>2
<1>4. Owned(todo[1], script.store)
  BY <1>3 DEF Running
<1> QED BY <1>1, <1>2, <1>4, HeadTailProperties

\* A call that is done leaves the rest of the plan in order.
LEMMA GoOnEnds ==
  ASSUME Running, todo # <<>>, ~script.verify,
         Checks(todo[1]) => /\ todo[1][1] = "verify" /\ Tail(todo) # <<>>
                            /\ script.store = "milvus" => Loads'
  PROVE  EndsChecked(Tail(todo), script.store, Loads')
<1> DEFINE q == Tail(todo)
           s == script.store
<1>1. /\ Len(todo) \in Nat \ {0} /\ Len(q) = Len(todo) - 1 /\ q \in Seq(CallsOfScripts)
      /\ \A i \in 1..Len(q) : q[i] = todo[i + 1]
  BY TodoHead
<1>2. EndsChecked(todo, s, Loads)
  BY DEF Running
<1> SUFFICES EndsChecked(q, s, Loads')
  OBVIOUS
<1>3. CASE s = "postgres"
  <2>1. /\ todo[Len(todo)][1] = "verify"
        /\ \A i \in 1 .. (Len(todo) - 1) : ~Checks(todo[i])
    BY <1>2, <1>3 DEF EndsChecked
  <2>2. Len(todo) # 1
    <3>1. SUFFICES ASSUME Len(todo) = 1 PROVE FALSE
      OBVIOUS
    <3>2. Checks(todo[1]) /\ Len(q) = 0
      BY <1>1, <2>1, <3>1 DEF Checks
    <3> QED BY <1>1, <3>2, EmptySeq
  <2>3. Len(q) >= 1 /\ q[Len(q)] = todo[Len(todo)]
    BY <1>1, <2>2
  <2>4. \A i \in 1 .. (Len(q) - 1) : q[i] = todo[i + 1] /\ i + 1 \in 1 .. (Len(todo) - 1)
    BY <1>1
  <2>5. Len(q) >= 1 /\ q[Len(q)][1] = "verify" /\ \A i \in 1 .. (Len(q) - 1) : ~Checks(q[i])
    BY <2>1, <2>3, <2>4
  <2> QED BY <1>3, <2>5 DEF EndsChecked
<1>4. CASE s # "postgres"
  <2>1. \/ Len(todo) = 1 /\ todo[1][1] = "test"
        \/ /\ Len(todo) >= 2 /\ todo[Len(todo) - 1][1] = "verify" /\ todo[Len(todo)][1] = "test"
           /\ \A i \in 1 .. (Len(todo) - 2) : ~Checks(todo[i])
    BY <1>2, <1>4 DEF EndsChecked
  <2>2. Len(todo) # 1
    BY <2>1 DEF Checks
  <2>3. Len(todo) >= 2
    BY <1>1, <2>2
  <2>4. q[Len(q)] = todo[Len(todo)] /\ q[Len(q)][1] = "test"
    BY <1>1, <2>1, <2>2, <2>3
  <2>5. CASE Len(todo) = 2
    <3>1. Len(q) = 1 /\ q[1][1] = "test"
      BY <1>1, <2>4, <2>5
    <3>2. Checks(todo[1])
      BY <2>1, <2>5 DEF Checks
    <3>3. s = "milvus" => Loads'
      BY <3>2
    <3> QED BY <1>4, <3>1, <3>3 DEF EndsChecked
  <2>6. CASE Len(todo) # 2
    <3>1. Len(q) >= 2 /\ q[Len(q) - 1] = todo[Len(todo) - 1]
      BY <1>1, <2>3, <2>6
    <3>2. \A i \in 1 .. (Len(q) - 2) : q[i] = todo[i + 1] /\ i + 1 \in 1 .. (Len(todo) - 2)
      BY <1>1
    <3>3. /\ q[Len(q) - 1][1] = "verify"
          /\ \A i \in 1 .. (Len(q) - 2) : ~Checks(q[i])
      BY <2>1, <2>2, <3>1, <3>2
    <3> QED BY <1>4, <2>4, <3>1, <3>3 DEF EndsChecked
  <2> QED BY <2>5, <2>6
<1> QED BY <1>3, <1>4

LEMMA GoOnMakes ==
  ASSUME Running, todo # <<>>, MadeAgain(todo, schema),
         \A n \in 1..Statements :
            n \in schema \/ Executes(todo, 1, n) =>
                n \in schema' \/ (todo[1][1] = "drop" /\ todo[1][2] = n)
  PROVE  MadeAgain(Tail(todo), schema')
<1> DEFINE q == Tail(todo)
<1>1. /\ Len(todo) \in Nat \ {0} /\ Len(q) = Len(todo) - 1
      /\ \A i \in 1..Len(q) : q[i] = todo[i + 1]
  BY TodoHead
<1>2. \A i \in 2..Len(todo) : i - 1 \in 1..Len(q) /\ q[i - 1] = todo[i]
  BY <1>1
<1>3. ASSUME NEW i \in 2..Len(todo), NEW n, Executes(todo, i, n)
      PROVE  \E j \in 1..Len(q) : Executes(q, j, n)
  <2>1. i - 1 \in 1..Len(q) /\ Executes(q, i - 1, n)
    BY <1>2, <1>3 DEF Executes
  <2> QED BY <2>1
<1>4. ASSUME NEW n \in 1..Statements
      PROVE  n \in schema' \/ \E i \in 1..Len(q) : Executes(q, i, n)
  <2>1. CASE n \in schema \/ Executes(todo, 1, n)
    <3>1. CASE todo[1][1] = "drop" /\ todo[1][2] = n
      <4>1. 1 \in 1..Len(todo)
        BY <1>1
      <4>2. PICK j \in 2..Len(todo) : Executes(todo, j, n)
        BY <3>1, <4>1 DEF MadeAgain
      <4> QED BY <1>3, <4>2
    <3> QED BY <2>1, <3>1
  <2>2. CASE n \notin schema /\ ~Executes(todo, 1, n)
    <3>1. PICK i \in 1..Len(todo) : Executes(todo, i, n)
      BY <2>2 DEF MadeAgain
    <3>2. i # 1
      BY <2>2, <3>1
    <3>3. i \in 2..Len(todo)
      BY <1>1, <3>2
    <3> QED BY <1>3, <3>1, <3>3
  <2> QED BY <2>1, <2>2
<1>5. ASSUME NEW i \in 1..Len(q), q[i][1] = "drop"
      PROVE  \E j \in (i + 1) .. Len(q) : Executes(q, j, q[i][2])
  <2>1. q[i] = todo[i + 1] /\ i + 1 \in 1..Len(todo)
    BY <1>1
  <2>2. PICK j \in (i + 1 + 1) .. Len(todo) : Executes(todo, j, q[i][2])
    BY <1>5, <2>1 DEF MadeAgain
  <2>3. j - 1 \in (i + 1) .. Len(q) /\ q[j - 1] = todo[j]
    BY <1>1, <2>2
  <2>4. Executes(q, j - 1, q[i][2])
    BY <2>2, <2>3 DEF Executes
  <2> QED BY <2>3, <2>4
<1> QED BY <1>4, <1>5 DEF MadeAgain

LEMMA GoOnRuns ==
  ASSUME Running, todo # <<>>, GoOn,
         Checks(todo[1]) => /\ todo[1][1] = "verify" /\ Tail(todo) # <<>>
                            /\ script.store = "milvus" => Loads',
         \A n \in 1..Statements :
            n \in schema \/ Executes(todo, 1, n) =>
                n \in schema' \/ (todo[1][1] = "drop" /\ todo[1][2] = n)
  PROVE  Running'
<1>1. todo' = Tail(todo) /\ script' = script /\ queue' = queue /\ done' = done
  BY DEF GoOn
<1>2. /\ Tail(todo) \in Seq(CallsOfScripts) /\ Len(Tail(todo)) = Len(todo) - 1
      /\ \A i \in 1..Len(Tail(todo)) : Tail(todo)[i] = todo[i + 1]
      /\ Len(todo) \in Nat \ {0}
  BY TodoHead
<1>3. ASSUME NEW i \in 1..Len(Tail(todo)) PROVE Owned(Tail(todo)[i], script.store)
  <2>1. i + 1 \in 1..Len(todo) /\ Tail(todo)[i] = todo[i + 1]
    BY <1>2
  <2>2. Owned(todo[i + 1], script.store)
    BY <2>1 DEF Running
  <2> QED BY <2>1, <2>2
<1>4. \A i \in 1..Len(todo') : Owned(todo'[i], script'.store)
  BY <1>1, <1>3
<1>5. ~script'.verify => EndsChecked(todo', script'.store, Loads')
  <2>1. SUFFICES ASSUME ~script.verify PROVE EndsChecked(Tail(todo), script.store, Loads')
    BY <1>1
  <2> QED BY <2>1, GoOnEnds
<1>6. ~script'.verify /\ script'.store = "neo4j" => MadeAgain(todo', schema')
  <2>1. SUFFICES ASSUME ~script.verify, script.store = "neo4j" PROVE MadeAgain(Tail(todo), schema')
    BY <1>1
  <2>2. MadeAgain(todo, schema)
    BY <2>1 DEF Running
  <2> QED BY <2>2, GoOnMakes
<1> QED BY <1>1, <1>2, <1>4, <1>5, <1>6 DEF Running, Owned

-----------------------------------------------------------------------------
(* Calls that return, and scripts that end.                                *)

\* A script's call leaves the stores of the other scripts usable.
LEMMA CallKeeps ==
  ASSUME SetUpInv, script # NoScript, Running', UNCHANGED <<script, queue, done>>,
         schema' \subseteq 1..Statements,
         \A s \in Stores \ {script.store} : Usable(s) => Usable(s)'
  PROVE  SetUpInv'
<1>1. Running /\ script.store \notin done /\ done \subseteq Stores
  BY DEF SetUpInv, Running
<1>2. SuccessMeansUsable'
  BY <1>1 DEF SetUpInv, SuccessMeansUsable
<1>3. Ready'
  <2>1. QueueTypeOK /\ Ready
    BY DEF SetUpInv
  <2>2. SUFFICES ASSUME queue.running, ~queue.failed, NEW s \in queue.asked,
                        ~\E i \in 1..Len(queue.left) : queue.left[i] = s,
                        script.store # s
                 PROVE  Usable(s)'
    BY DEF Ready
  <2>3. s \in Stores
    BY <2>1, <2>2 DEF QueueTypeOK
  <2>4. Usable(s)
    BY <2>1, <2>2 DEF Ready
  <2> QED BY <2>2, <2>3, <2>4
<1>4. QueueTypeOK'
  BY DEF SetUpInv, QueueTypeOK
<1> QED BY <1>1, <1>2, <1>3, <1>4 DEF SetUpInv

LEMMA ExitKeeps ==
  ASSUME SetUpInv, script # NoScript, NEW code, Exit(code), UNCHANGED storeVars,
         code = 0 /\ ~script.verify => Usable(script.store)
  PROVE  SetUpInv'
<1>0. /\ Running /\ QueueTypeOK /\ Ready /\ SuccessMeansUsable
      /\ script.store \in Stores /\ done \subseteq Stores /\ schema \subseteq 1..Statements
  BY DEF SetUpInv, Running
<1>1. /\ script' = NoScript
      /\ queue' = [queue EXCEPT !.failed = @ \/ (queue.running /\ code # 0)]
      /\ done' = IF code = 0 /\ ~script.verify /\ ~queue.running
                 THEN done \union {script.store} ELSE done
  BY DEF Exit
<1>2. \A s \in Stores : Usable(s)' <=> Usable(s)
  BY UsableStays
<1>3. /\ queue'.asked = queue.asked /\ queue'.left = queue.left
      /\ queue'.running = queue.running /\ queue'.reset = queue.reset
      /\ queue'.failed = (queue.failed \/ (queue.running /\ code # 0))
  BY <1>0, <1>1 DEF QueueTypeOK
<1>4. QueueTypeOK'
  <2>1. (queue.failed \/ (queue.running /\ code # 0)) \in BOOLEAN
    OBVIOUS
  <2> QED BY <1>0, <1>1, <2>1 DEF QueueTypeOK
<1>5. done' \subseteq Stores /\ SuccessMeansUsable'
  BY <1>0, <1>1, <1>2 DEF SuccessMeansUsable
<1>6. Ready'
  <2>1. SUFFICES ASSUME queue.running, ~queue.failed, code = 0, NEW s \in queue.asked,
                        ~\E i \in 1..Len(queue.left) : queue.left[i] = s
                 PROVE  Usable(s)'
    BY <1>3 DEF Ready
  <2>2. s \in Stores
    BY <1>0, <2>1 DEF QueueTypeOK
  <2>3. CASE s = script.store
    <3>1. ~script.verify
      BY <1>0, <2>1 DEF Running
    <3> QED BY <1>2, <2>1, <2>2, <2>3, <3>1
  <2>4. CASE s # script.store
    BY <1>0, <1>2, <2>1, <2>2, <2>4 DEF Ready
  <2> QED BY <2>3, <2>4
<1>7. schema' \subseteq 1..Statements
  BY <1>0 DEF storeVars
<1> QED BY <1>1, <1>4, <1>5, <1>6, <1>7 DEF SetUpInv

\* A script whose last check passes has a store that can be used.
LEMMA LastCheck ==
  ASSUME SetUpInv, script # NoScript, todo # <<>>, ~script.verify,
         \/ todo[1][1] = "verify" /\ Tail(todo) = <<>> /\ VerifyOk
         \/ todo[1][1] = "test"
  PROVE  Usable(script.store)
<1> DEFINE s == script.store
<1>0. /\ Running /\ s \in Stores /\ EndsChecked(todo, s, Loads)
      /\ schema \subseteq 1..Statements
      /\ s = "neo4j" => MadeAgain(todo, schema)
  BY DEF SetUpInv, Running
<1>1. /\ Len(todo) \in Nat \ {0} /\ Len(Tail(todo)) = Len(todo) - 1 /\ Checks(todo[1])
  BY <1>0, TodoHead DEF Checks
<1>2. todo[1][1] = "verify" => Len(todo) = 1
  <2>1. SUFFICES ASSUME todo[1][1] = "verify" PROVE Len(todo) = 1
    OBVIOUS
  <2>2. Len(Tail(todo)) = 0
    BY <2>1, EmptySeq
  <2>3. \A n \in Nat : n - 1 = 0 => n = 1
    OBVIOUS
  <2>4. Len(todo) \in Nat /\ Len(todo) - 1 = 0
    BY <1>1, <2>2
  <2> QED BY <2>3, <2>4
<1>3. CASE s = "postgres"
  <2>1. todo[Len(todo)][1] = "verify" /\ \A i \in 1 .. (Len(todo) - 1) : ~Checks(todo[i])
    BY <1>0, <1>3 DEF EndsChecked
  <2>2. todo[1][1] = "verify"
    <3>1. CASE Len(todo) = 1
      BY <2>1, <3>1
    <3>2. CASE Len(todo) # 1
      <4>1. 1 \in 1 .. (Len(todo) - 1)
        BY <1>1, <3>2
      <4> QED BY <1>1, <2>1, <4>1
    <3> QED BY <3>1, <3>2
  <2>3. VerifyOk
    BY <2>2
  <2>4. VerifyOk => tables
    BY <1>3 DEF VerifyOk, Of
  <2> QED BY <1>3, <2>3, <2>4, UsableIs
<1>4. CASE s # "postgres"
  <2>1. \/ Len(todo) = 1 /\ todo[1][1] = "test" /\ (s = "milvus" => Loads)
        \/ /\ Len(todo) >= 2 /\ todo[Len(todo) - 1][1] = "verify" /\ todo[Len(todo)][1] = "test"
           /\ \A i \in 1 .. (Len(todo) - 2) : ~Checks(todo[i])
    BY <1>0, <1>4 DEF EndsChecked
  <2>2. Len(todo) = 1 /\ todo[1][1] = "test" /\ (s = "milvus" => Loads)
    <3>1. SUFFICES ASSUME Len(todo) >= 2, todo[Len(todo) - 1][1] = "verify",
                          \A i \in 1 .. (Len(todo) - 2) : ~Checks(todo[i])
                   PROVE  FALSE
      BY <2>1
    <3>2. CASE Len(todo) = 2
      <4>1. todo[1][1] = "verify"
        BY <3>1, <3>2
      <4> QED BY <1>2, <3>2, <4>1
    <3>3. CASE Len(todo) # 2
      <4>1. 1 \in 1 .. (Len(todo) - 2)
        BY <1>1, <3>1, <3>3
      <4> QED BY <1>1, <3>1, <4>1
    <3> QED BY <3>2, <3>3
  <2>3. CASE s = "milvus"
    BY <2>2, <2>3, UsableIs
  <2>4. CASE s = "neo4j"
    <3>1. \A i \in 1..Len(todo) : \A n : ~Executes(todo, i, n)
      BY <2>2 DEF Executes
    <3>2. \A n \in 1..Statements : n \in schema
      BY <1>0, <2>4, <3>1 DEF MadeAgain
    <3>3. schema = 1..Statements
      BY <1>0, <3>2
    <3> QED BY <2>4, <3>3, UsableIs
  <2> QED BY <1>0, <1>4, <2>3, <2>4 DEF Stores
<1> QED BY <1>3, <1>4

-----------------------------------------------------------------------------
(* The plans.                                                              *)

LEMMA CallNames ==
    /\ \A c \in Names : <<c>> \in CallsOfScripts
    /\ \A c \in Names, n \in Nat : <<c, n>> \in CallsOfScripts
    /\ \A c, n : <<c>>[1] = c /\ <<c, n>>[1] = c /\ <<c, n>>[2] = n
  BY DEF CallsOfScripts

PlanFits(q, s, verify) ==
    /\ q \in Seq(CallsOfScripts) /\ q # <<>>
    /\ \A i \in 1..Len(q) : Owned(q[i], s)
    /\ ~verify => \A loads, there : /\ EndsChecked(q, s, loads)
                                    /\ s = "neo4j" => MadeAgain(q, there)


\* Calls that come before the checks, and calls that end with verification.
Steady(a, s) ==
    /\ a \in Seq(CallsOfScripts)
    /\ \A i \in 1..Len(a) : Owned(a[i], s) /\ ~Checks(a[i])
Closing(m, s) ==
    /\ m \in Seq(CallsOfScripts) /\ Len(m) >= 1
    /\ \A i \in 1..Len(m) : Owned(m[i], s)
    /\ m[Len(m)][1] = "verify"
    /\ \A i \in 1 .. (Len(m) - 1) : ~Checks(m[i])

LEMMA SteadyNone == ASSUME NEW s PROVE Steady(<<>>, s)
  BY DEF Steady

LEMMA SteadyOne ==
  ASSUME NEW s, NEW c \in CallsOfScripts, Owned(c, s), ~Checks(c)
  PROVE  Steady(<<c>>, s)
<1>1. <<c>> \in Seq(CallsOfScripts) /\ Len(<<c>>) = 1 /\ <<c>>[1] = c
  OBVIOUS
<1>2. \A i \in 1..1 : i = 1
  OBVIOUS
<1> QED BY <1>1, <1>2 DEF Steady

LEMMA SteadyConcat ==
  ASSUME NEW s, NEW a, NEW b, Steady(a, s), Steady(b, s)
  PROVE  Steady(a \o b, s)
<1>1. a \in Seq(CallsOfScripts) /\ b \in Seq(CallsOfScripts)
  BY DEF Steady
<1>2. /\ a \o b \in Seq(CallsOfScripts) /\ Len(a \o b) = Len(a) + Len(b)
      /\ \A i \in 1 .. (Len(a) + Len(b)) :
            (a \o b)[i] = IF i <= Len(a) THEN a[i] ELSE b[i - Len(a)]
      /\ Len(a) \in Nat /\ Len(b) \in Nat
  BY <1>1, ConcatProperties, LenProperties
<1>3. ASSUME NEW i \in 1..Len(a \o b)
      PROVE  Owned((a \o b)[i], s) /\ ~Checks((a \o b)[i])
  <2>1. CASE i <= Len(a)
    <3>1. i \in 1..Len(a) /\ (a \o b)[i] = a[i]
      BY <1>2, <2>1
    <3> QED BY <3>1 DEF Steady
  <2>2. CASE ~(i <= Len(a))
    <3>1. i - Len(a) \in 1..Len(b) /\ (a \o b)[i] = b[i - Len(a)]
      BY <1>2, <2>2
    <3> QED BY <3>1 DEF Steady
  <2> QED BY <2>1, <2>2
<1> QED BY <1>2, <1>3 DEF Steady

LEMMA ClosingConcat ==
  ASSUME NEW s, NEW a, NEW b, Steady(a, s), Closing(b, s)
  PROVE  Closing(a \o b, s)
<1>1. a \in Seq(CallsOfScripts) /\ b \in Seq(CallsOfScripts)
  BY DEF Steady, Closing
<1>2. /\ a \o b \in Seq(CallsOfScripts) /\ Len(a \o b) = Len(a) + Len(b)
      /\ \A i \in 1 .. (Len(a) + Len(b)) :
            (a \o b)[i] = IF i <= Len(a) THEN a[i] ELSE b[i - Len(a)]
      /\ Len(a) \in Nat /\ Len(b) \in Nat
  BY <1>1, ConcatProperties, LenProperties
<1>3. Len(b) >= 1
  BY DEF Closing
<1>4. ASSUME NEW i \in 1..Len(a \o b)
      PROVE  Owned((a \o b)[i], s) /\ (i # Len(a \o b) => ~Checks((a \o b)[i]))
  <2>1. CASE i <= Len(a)
    <3>1. i \in 1..Len(a) /\ (a \o b)[i] = a[i]
      BY <1>2, <2>1
    <3> QED BY <3>1 DEF Steady
  <2>2. CASE ~(i <= Len(a))
    <3>1. /\ i - Len(a) \in 1..Len(b) /\ (a \o b)[i] = b[i - Len(a)]
          /\ i # Len(a \o b) => i - Len(a) \in 1 .. (Len(b) - 1)
      BY <1>2, <2>2
    <3> QED BY <3>1 DEF Closing
  <2> QED BY <2>1, <2>2
<1>5. (a \o b)[Len(a \o b)] = b[Len(b)] /\ Len(a \o b) >= 1
  BY <1>2, <1>3
<1>6. (a \o b)[Len(a \o b)][1] = "verify"
  BY <1>5 DEF Closing
<1>7. \A i \in 1 .. (Len(a \o b) - 1) : i \in 1..Len(a \o b) /\ i # Len(a \o b)
  BY <1>2
<1> QED BY <1>2, <1>4, <1>5, <1>6, <1>7 DEF Closing

LEMMA ClosingVerify ==
  ASSUME NEW s PROVE Closing(<<<<"verify">>>>, s)
<1> DEFINE c == <<"verify">>
<1>1. c \in CallsOfScripts /\ c[1] = "verify"
  BY CallNames DEF Names
<1>2. Owned(c, s)
  BY <1>1 DEF Owned
<1> HIDE DEF c
<1>3. <<c>> \in Seq(CallsOfScripts) /\ Len(<<c>>) = 1 /\ <<c>>[1] = c
  BY <1>1
<1>4. \A i \in 1..1 : i = 1
  OBVIOUS
<1>5. Closing(<<c>>, s)
  BY <1>1, <1>2, <1>3, <1>4 DEF Closing
<1> QED BY <1>5 DEF c

LEMMA PostgresEnds ==
  ASSUME NEW m, Closing(m, "postgres"), NEW loads
  PROVE  EndsChecked(m, "postgres", loads)
  BY DEF Closing, EndsChecked

LEMMA TestEnds ==
  ASSUME NEW s, NEW m, Closing(m, s), s # "postgres"
  PROVE  /\ m \o <<<<"test">>>> \in Seq(CallsOfScripts) /\ m \o <<<<"test">>>> # <<>>
         /\ \A i \in 1..Len(m \o <<<<"test">>>>) : Owned((m \o <<<<"test">>>>)[i], s)
         /\ \A loads : EndsChecked(m \o <<<<"test">>>>, s, loads)
<1> DEFINE c == <<"test">>
           q == m \o <<c>>
<1>1. c \in CallsOfScripts /\ c[1] = "test"
  BY CallNames DEF Names
<1>2. Owned(c, s)
  BY <1>1 DEF Owned
<1> HIDE DEF c
<1>3. <<c>> \in Seq(CallsOfScripts) /\ Len(<<c>>) = 1 /\ <<c>>[1] = c
  BY <1>1
<1>4. m \in Seq(CallsOfScripts) /\ Len(m) \in Nat /\ Len(m) >= 1
  BY LenProperties DEF Closing
<1>5. /\ q \in Seq(CallsOfScripts) /\ Len(q) = Len(m) + 1
      /\ \A i \in 1 .. (Len(m) + 1) : q[i] = IF i <= Len(m) THEN m[i] ELSE <<c>>[i - Len(m)]
  BY <1>3, <1>4, ConcatProperties
<1>6. \A i \in 1..Len(m) : q[i] = m[i]
  BY <1>4, <1>5
<1>7. q[Len(q)] = c
  BY <1>3, <1>4, <1>5
<1> HIDE DEF q
<1>8. q # <<>>
  BY <1>4, <1>5
<1>9. ASSUME NEW i \in 1..Len(q) PROVE Owned(q[i], s)
  <2>1. i = Len(q) \/ i \in 1..Len(m)
    BY <1>4, <1>5
  <2> QED BY <1>2, <1>6, <1>7, <2>1 DEF Closing
<1>10. ASSUME NEW loads PROVE EndsChecked(q, s, loads)
  <2>1. Len(q) >= 2 /\ Len(q) - 1 = Len(m) /\ q[Len(m)] = m[Len(m)]
    BY <1>4, <1>5, <1>6
  <2>2. q[Len(q) - 1][1] = "verify" /\ q[Len(q)][1] = "test"
    BY <1>1, <1>7, <2>1 DEF Closing
  <2>3. \A i \in 1 .. (Len(q) - 2) : i \in 1 .. (Len(m) - 1) /\ q[i] = m[i]
    BY <1>4, <1>5, <1>6
  <2>4. \A i \in 1 .. (Len(q) - 2) : ~Checks(q[i])
    BY <2>3 DEF Closing
  <2> QED BY <2>1, <2>2, <2>4 DEF EndsChecked
<1> QED BY <1>5, <1>8, <1>9, <1>10 DEF q, c

LEMMA ClosingLists ==
  ASSUME NEW s, NEW c \in CallsOfScripts, NEW d \in CallsOfScripts, NEW v \in CallsOfScripts,
         Owned(c, s), Owned(d, s), Owned(v, s), ~Checks(c), ~Checks(d), v[1] = "verify"
  PROVE  Closing(<<c, v>>, s) /\ Closing(<<c, d, v>>, s)
<1>1. \A i \in 1..1 : i = 1
  OBVIOUS
<1>2. \A i \in 1..2 : i = 1 \/ i = 2
  OBVIOUS
<1>3. \A i \in 1..3 : i = 1 \/ i = 2 \/ i = 3
  OBVIOUS
<1>4. Closing(<<c, v>>, s)
  <2> DEFINE m == <<c, v>>
  <2>1. m \in Seq(CallsOfScripts) /\ Len(m) = 2 /\ m[1] = c /\ m[2] = v
    OBVIOUS
  <2> HIDE DEF m
  <2>2. Len(m) - 1 = 1
    BY <2>1
  <2>3. Closing(m, s)
    BY <1>1, <1>2, <2>1, <2>2 DEF Closing
  <2> QED BY <2>3 DEF m
<1>5. Closing(<<c, d, v>>, s)
  <2> DEFINE m == <<c, d, v>>
  <2>1. m \in Seq(CallsOfScripts) /\ Len(m) = 3 /\ m[1] = c /\ m[2] = d /\ m[3] = v
    OBVIOUS
  <2> HIDE DEF m
  <2>2. Len(m) - 1 = 2
    BY <2>1
  <2>3. Closing(m, s)
    BY <1>2, <1>3, <2>1, <2>2 DEF Closing
  <2> QED BY <2>3 DEF m
<1> QED BY <1>4, <1>5

LEMMA VerifyPlan ==
  ASSUME NEW s \in Stores, NEW reset
  PROVE  PlanFits(Plan(s, reset, TRUE), s, TRUE)
<1> DEFINE c == <<"connect">>
           v == <<"verify">>
<1>1. Plan(s, reset, TRUE) = <<c, v>>
  BY DEF Plan
<1>2. c \in CallsOfScripts /\ v \in CallsOfScripts /\ c[1] = "connect" /\ v[1] = "verify"
  BY CallNames DEF Names
<1> HIDE DEF c, v
<1>3. Owned(c, s) /\ Owned(v, s) /\ ~Checks(c)
  BY <1>2 DEF Owned, Checks
<1>4. Closing(<<c, v>>, s)
  BY <1>2, <1>3, ClosingLists
<1> DEFINE q == <<c, v>>
<1>5. q # <<>>
  OBVIOUS
<1> HIDE DEF q
<1>6. Closing(q, s)
  BY <1>4 DEF q
<1>7. PlanFits(q, s, TRUE)
  BY <1>5, <1>6 DEF PlanFits, Closing
<1> QED BY <1>1, <1>7 DEF q

\* The first call, and what --reset adds to it.
LEMMA FirstCalls ==
  ASSUME NEW s, NEW d, Steady(d, s), NEW reset \in BOOLEAN
  PROVE  Steady(<<<<"connect">>>> \o (IF reset THEN d ELSE <<>>), s)
<1> DEFINE c == <<"connect">>
<1>1. c \in CallsOfScripts /\ c[1] = "connect"
  BY CallNames DEF Names
<1> HIDE DEF c
<1>2. Owned(c, s) /\ ~Checks(c)
  BY <1>1 DEF Owned, Checks
<1>3. Steady(<<c>>, s)
  BY <1>1, <1>2, SteadyOne
<1>4. Steady(IF reset THEN d ELSE <<>>, s)
  BY SteadyNone
<1>5. Steady(<<c>> \o (IF reset THEN d ELSE <<>>), s)
  BY <1>3, <1>4, SteadyConcat
<1> QED BY <1>5 DEF c

LEMMA PostgresPlan ==
  ASSUME NEW reset \in BOOLEAN
  PROVE  PlanFits(Plan("postgres", reset, FALSE), "postgres", FALSE)
<1> DEFINE s == "postgres"
           d == <<"dropTables">>
           c == <<"createTables">>
           v == <<"verify">>
           a == <<<<"connect">>>> \o (IF reset THEN <<d>> ELSE <<>>)
           q == a \o <<c, v>>
<1>1. Plan(s, reset, FALSE) = q
  BY DEF Plan
<1>2. /\ c \in CallsOfScripts /\ d \in CallsOfScripts /\ v \in CallsOfScripts
      /\ c[1] = "createTables" /\ d[1] = "dropTables" /\ v[1] = "verify"
  BY CallNames DEF Names
<1> HIDE DEF c, d, v
<1>3. Owned(c, s) /\ Owned(d, s) /\ Owned(v, s) /\ ~Checks(c) /\ ~Checks(d)
  BY <1>2 DEF Owned, Checks
<1>4. Steady(<<d>>, s)
  BY <1>2, <1>3, SteadyOne
<1>5. Steady(a, s)
  BY <1>4, FirstCalls
<1>6. Closing(<<c, v>>, s)
  BY <1>2, <1>3, ClosingLists
<1> HIDE DEF a
<1>7. Closing(q, s)
  BY <1>5, <1>6, ClosingConcat
<1> HIDE DEF q
<1>8. q \in Seq(CallsOfScripts) /\ q # <<>> /\ \A i \in 1..Len(q) : Owned(q[i], s)
  BY <1>7 DEF Closing
<1>9. \A loads : EndsChecked(q, s, loads)
  BY <1>7, PostgresEnds
<1>10. s # "neo4j"
  OBVIOUS
<1> HIDE DEF s
<1>11. PlanFits(q, s, FALSE)
  BY <1>8, <1>9, <1>10 DEF PlanFits
<1> QED BY <1>1, <1>11 DEF s

LEMMA MilvusPlan ==
  ASSUME NEW reset \in BOOLEAN
  PROVE  PlanFits(Plan("milvus", reset, FALSE), "milvus", FALSE)
<1> DEFINE s == "milvus"
           d == <<"dropCollection">>
           c == <<"createCollection">>
           i == <<"decideIndexes">>
           v == <<"verify">>
           a == <<<<"connect">>>> \o (IF reset THEN <<d>> ELSE <<>>)
           m == a \o <<c, i, v>>
           q == m \o <<<<"test">>>>
<1>1. Plan(s, reset, FALSE) = q
  BY DEF Plan
<1>2. /\ c \in CallsOfScripts /\ d \in CallsOfScripts /\ i \in CallsOfScripts
      /\ v \in CallsOfScripts /\ v[1] = "verify"
      /\ c[1] = "createCollection" /\ d[1] = "dropCollection" /\ i[1] = "decideIndexes"
  BY CallNames DEF Names
<1> HIDE DEF c, d, i, v
<1>3. /\ Owned(c, s) /\ Owned(d, s) /\ Owned(i, s) /\ Owned(v, s)
      /\ ~Checks(c) /\ ~Checks(d) /\ ~Checks(i)
  BY <1>2 DEF Owned, Checks
<1>4. Steady(<<d>>, s)
  BY <1>2, <1>3, SteadyOne
<1>5. Steady(a, s)
  BY <1>4, FirstCalls
<1>6. Closing(<<c, i, v>>, s)
  BY <1>2, <1>3, ClosingLists
<1> HIDE DEF a
<1>7. Closing(m, s)
  BY <1>5, <1>6, ClosingConcat
<1> HIDE DEF m
<1>8. s # "postgres" /\ s # "neo4j"
  OBVIOUS
<1> HIDE DEF s
<1>9. /\ q \in Seq(CallsOfScripts) /\ q # <<>> /\ \A j \in 1..Len(q) : Owned(q[j], s)
      /\ \A loads : EndsChecked(q, s, loads)
  BY <1>7, <1>8, TestEnds
<1> HIDE DEF q
<1>10. PlanFits(q, s, FALSE)
  BY <1>8, <1>9 DEF PlanFits
<1> QED BY <1>1, <1>10 DEF s

DropCalls == [n \in 1..Statements |-> <<"drop", n>>]
RunCalls == [n \in 1..Statements |-> <<"execute", n>>]

LEMMA StatementCalls ==
    /\ Steady(DropCalls, "neo4j") /\ Steady(RunCalls, "neo4j")
    /\ Len(DropCalls) = Statements /\ Len(RunCalls) = Statements
    /\ \A n \in 1..Statements : /\ DropCalls[n][1] = "drop" /\ DropCalls[n][2] = n
                                /\ RunCalls[n][1] = "execute" /\ RunCalls[n][2] = n
<1>1. Statements \in Nat
  BY SetUpAssumption
<1>2. "drop" \in Names /\ "execute" \in Names
  BY DEF Names
<1>3. \A n \in 1..Statements : <<"drop", n>> \in CallsOfScripts /\ <<"execute", n>> \in CallsOfScripts
  BY <1>1, <1>2, CallNames
<1>4. /\ DropCalls \in [1..Statements -> CallsOfScripts]
      /\ RunCalls \in [1..Statements -> CallsOfScripts]
  BY <1>3 DEF DropCalls, RunCalls
<1>5. DOMAIN DropCalls = 1..Statements /\ DOMAIN RunCalls = 1..Statements
  BY <1>4
<1>6. DropCalls \in Seq(CallsOfScripts) /\ RunCalls \in Seq(CallsOfScripts)
  BY <1>1, <1>4
<1>7. Len(DropCalls) = Statements /\ Len(RunCalls) = Statements
  <2>1. DOMAIN DropCalls = 1..Len(DropCalls) /\ DOMAIN RunCalls = 1..Len(RunCalls)
        /\ Len(DropCalls) \in Nat /\ Len(RunCalls) \in Nat
    BY <1>6, LenProperties
  <2>2. 1..Len(DropCalls) = 1..Statements /\ 1..Len(RunCalls) = 1..Statements
    BY <1>5, <2>1
  <2> HIDE DEF DropCalls, RunCalls
  <2>3. ASSUME NEW x \in Nat, 1..x = 1..Statements PROVE x = Statements
    <3>1. x \in 1..x <=> x \in 1..Statements
      BY <2>3
    <3>2. Statements \in 1..x <=> Statements \in 1..Statements
      BY <2>3
    <3> QED BY <1>1, <3>1, <3>2
  <2> QED BY <2>1, <2>2, <2>3
<1>8. \A n \in 1..Statements : DropCalls[n] = <<"drop", n>> /\ RunCalls[n] = <<"execute", n>>
  BY DEF DropCalls, RunCalls
<1>9. \A n \in 1..Statements : /\ DropCalls[n][1] = "drop" /\ DropCalls[n][2] = n
                               /\ RunCalls[n][1] = "execute" /\ RunCalls[n][2] = n
  BY <1>8, CallNames
<1>10. \A n \in 1..Statements : /\ Owned(DropCalls[n], "neo4j") /\ ~Checks(DropCalls[n])
                                /\ Owned(RunCalls[n], "neo4j") /\ ~Checks(RunCalls[n])
  BY <1>9 DEF Owned, Checks
<1>11. Steady(DropCalls, "neo4j") /\ Steady(RunCalls, "neo4j")
  BY <1>6, <1>7, <1>10 DEF Steady
<1> QED BY <1>7, <1>9, <1>11

\* The calls of `a` drop statements that exist only.
DropsExist(a) == \A i \in 1..Len(a) : a[i][1] = "drop" => a[i][2] \in 1..Statements

LEMMA RunsMakeAgain ==
  ASSUME NEW a \in Seq(CallsOfScripts), DropsExist(a), NEW there
  PROVE  MadeAgain(a \o RunCalls, there)
<1> DEFINE q == a \o RunCalls
<1>1. RunCalls \in Seq(CallsOfScripts) /\ Len(RunCalls) = Statements /\ Statements \in Nat
  BY StatementCalls, SetUpAssumption DEF Steady
<1>2. /\ Len(q) = Len(a) + Statements /\ Len(a) \in Nat
      /\ \A i \in 1 .. (Len(a) + Statements) :
            q[i] = IF i <= Len(a) THEN a[i] ELSE RunCalls[i - Len(a)]
  BY <1>1, ConcatProperties, LenProperties
<1> HIDE DEF q
<1>3. ASSUME NEW n \in 1..Statements
      PROVE  Len(a) + n \in 1..Len(q) /\ Executes(q, Len(a) + n, n)
  <2>1. Len(a) + n \in 1..Len(q) /\ Len(a) + n > Len(a) /\ Len(a) + n - Len(a) = n
    BY <1>1, <1>2
  <2>2. q[Len(a) + n] = RunCalls[n]
    BY <1>2, <2>1
  <2> QED BY <2>1, <2>2, StatementCalls DEF Executes
<1>4. ASSUME NEW i \in 1..Len(q), q[i][1] = "drop"
      PROVE  \E j \in (i + 1) .. Len(q) : Executes(q, j, q[i][2])
  <2>1. i <= Len(a)
    <3>1. SUFFICES ASSUME ~(i <= Len(a)) PROVE FALSE
      OBVIOUS
    <3>2. i - Len(a) \in 1..Statements /\ q[i] = RunCalls[i - Len(a)]
      BY <1>1, <1>2, <3>1
    <3>3. q[i][1] = "execute"
      BY <3>2, StatementCalls
    <3> QED BY <1>4, <3>3
  <2>2. i \in 1..Len(a) /\ q[i] = a[i]
    BY <1>2, <2>1
  <2>3. PICK n \in 1..Statements : n = q[i][2]
    BY <1>4, <2>2 DEF DropsExist
  <2>4. Len(a) + n \in (i + 1) .. Len(q)
    BY <1>1, <1>2, <2>1
  <2> QED BY <1>3, <2>3, <2>4
<1>5. MadeAgain(q, there)
  BY <1>3, <1>4 DEF MadeAgain
<1> QED BY <1>5 DEF q

LEMMA MadeAgainConcat ==
  ASSUME NEW a \in Seq(CallsOfScripts), NEW c \in CallsOfScripts, NEW there,
         MadeAgain(a, there), c[1] # "drop"
  PROVE  MadeAgain(a \o <<c>>, there)
<1> DEFINE q == a \o <<c>>
<1>1. <<c>> \in Seq(CallsOfScripts) /\ Len(<<c>>) = 1 /\ <<c>>[1] = c
  OBVIOUS
<1>2. /\ Len(q) = Len(a) + 1 /\ Len(a) \in Nat
      /\ \A i \in 1 .. (Len(a) + 1) : q[i] = IF i <= Len(a) THEN a[i] ELSE <<c>>[i - Len(a)]
  BY <1>1, ConcatProperties, LenProperties
<1>3. \A i \in 1..Len(a) : i \in 1..Len(q) /\ q[i] = a[i]
  BY <1>2
<1>4. q[Len(q)] = c
  BY <1>1, <1>2
<1> HIDE DEF q
<1>5. ASSUME NEW n \in 1..Statements
      PROVE  n \in there \/ \E i \in 1..Len(q) : Executes(q, i, n)
  <2>1. n \in there \/ \E i \in 1..Len(a) : Executes(a, i, n)
    BY DEF MadeAgain
  <2> QED BY <1>3, <2>1 DEF Executes
<1>6. ASSUME NEW i \in 1..Len(q), q[i][1] = "drop"
      PROVE  \E j \in (i + 1) .. Len(q) : Executes(q, j, q[i][2])
  <2>1. i # Len(q)
    BY <1>4, <1>6
  <2>2. i \in 1..Len(a) /\ q[i] = a[i]
    BY <1>2, <1>3, <2>1
  <2>3. PICK j \in (i + 1) .. Len(a) : Executes(a, j, a[i][2])
    BY <1>6, <2>2 DEF MadeAgain
  <2>4. j \in (i + 1) .. Len(q) /\ q[j] = a[j]
    BY <1>2, <1>3, <2>3
  <2> QED BY <2>2, <2>3, <2>4 DEF Executes
<1>7. MadeAgain(q, there)
  BY <1>5, <1>6 DEF MadeAgain
<1> QED BY <1>7 DEF q

LEMMA DropsConcat ==
  ASSUME NEW a \in Seq(CallsOfScripts), NEW b \in Seq(CallsOfScripts),
         DropsExist(a), DropsExist(b)
  PROVE  DropsExist(a \o b)
<1>1. /\ Len(a \o b) = Len(a) + Len(b) /\ Len(a) \in Nat /\ Len(b) \in Nat
      /\ \A i \in 1 .. (Len(a) + Len(b)) :
            (a \o b)[i] = IF i <= Len(a) THEN a[i] ELSE b[i - Len(a)]
  BY ConcatProperties, LenProperties
<1>2. ASSUME NEW i \in 1..Len(a \o b)
      PROVE  (a \o b)[i][1] = "drop" => (a \o b)[i][2] \in 1..Statements
  <2>1. CASE i <= Len(a)
    <3>1. i \in 1..Len(a) /\ (a \o b)[i] = a[i]
      BY <1>1, <2>1
    <3> QED BY <3>1 DEF DropsExist
  <2>2. CASE ~(i <= Len(a))
    <3>1. i - Len(a) \in 1..Len(b) /\ (a \o b)[i] = b[i - Len(a)]
      BY <1>1, <2>2
    <3> QED BY <3>1 DEF DropsExist
  <2> QED BY <2>1, <2>2
<1> QED BY <1>2 DEF DropsExist

LEMMA Neo4jPlan ==
  ASSUME NEW reset \in BOOLEAN
  PROVE  PlanFits(Plan("neo4j", reset, FALSE), "neo4j", FALSE)
<1> DEFINE s == "neo4j"
           b == <<"connect">>
           d == <<"clear">>
           v == <<"verify">>
           t == <<"test">>
           x == IF reset THEN DropCalls \o <<d>> ELSE <<>>
           a == <<b>> \o x
           r == a \o RunCalls
           m == r \o <<v>>
           q == m \o <<t>>
<1>1. Plan(s, reset, FALSE) = q
  BY DEF Plan, DropCalls, RunCalls
<1>2. /\ b \in CallsOfScripts /\ d \in CallsOfScripts /\ v \in CallsOfScripts
      /\ t \in CallsOfScripts
      /\ b[1] = "connect" /\ d[1] = "clear" /\ v[1] = "verify" /\ t[1] = "test"
  BY CallNames DEF Names
<1>3. Closing(<<v>>, s)
  BY ClosingVerify
<1>4. Steady(DropCalls, s) /\ Steady(RunCalls, s)
  BY StatementCalls
<1>5. Owned(d, s) /\ ~Checks(d)
  BY <1>2 DEF Owned, Checks
<1>6. b[1] # "drop" /\ d[1] # "drop" /\ v[1] # "drop" /\ t[1] # "drop"
  BY <1>2
<1>7. Steady(a, s)
  <2>1. Steady(DropCalls \o <<d>>, s)
    BY <1>2, <1>4, <1>5, SteadyOne, SteadyConcat
  <2> QED BY <2>1, FirstCalls
<1>8. s # "postgres"
  OBVIOUS
<1>9. Steady(r, s)
  BY <1>4, <1>7, SteadyConcat
<1>10. Closing(m, s)
  BY <1>3, <1>9, ClosingConcat
<1>11. /\ q \in Seq(CallsOfScripts) /\ q # <<>> /\ \A j \in 1..Len(q) : Owned(q[j], s)
       /\ \A loads : EndsChecked(q, s, loads)
  <2> HIDE DEF m, s
  <2> QED BY <1>8, <1>10, TestEnds
<1> HIDE DEF b, d, v, t
<1>12. DropsExist(a)
  <2>1. ASSUME NEW c \in CallsOfScripts, c[1] # "drop" PROVE DropsExist(<<c>>)
    <3>1. Len(<<c>>) = 1 /\ <<c>>[1] = c
      OBVIOUS
    <3>2. \A i \in 1..1 : i = 1
      OBVIOUS
    <3> QED BY <2>1, <3>1, <3>2 DEF DropsExist
  <2>2. DropsExist(DropCalls) /\ DropCalls \in Seq(CallsOfScripts)
    BY StatementCalls DEF DropsExist, Steady
  <2>3. DropsExist(<<b>>) /\ DropsExist(<<d>>)
    BY <1>2, <1>6, <2>1
  <2>4. <<b>> \in Seq(CallsOfScripts) /\ <<d>> \in Seq(CallsOfScripts)
    BY <1>2
  <2>5. DropsExist(DropCalls \o <<d>>) /\ DropCalls \o <<d>> \in Seq(CallsOfScripts)
    BY <2>2, <2>3, <2>4, DropsConcat, ConcatProperties
  <2>6. DropsExist(<<>>) /\ <<>> \in Seq(CallsOfScripts)
    BY DEF DropsExist
  <2>7. DropsExist(x) /\ x \in Seq(CallsOfScripts)
    BY <2>5, <2>6
  <2> HIDE DEF x
  <2> QED BY <2>3, <2>4, <2>7, DropsConcat
<1> HIDE DEF a
<1>13. \A there : MadeAgain(q, there)
  <2> TAKE there
  <2>1. a \in Seq(CallsOfScripts) /\ r \in Seq(CallsOfScripts) /\ m \in Seq(CallsOfScripts)
    BY <1>7, <1>9, <1>10 DEF Steady, Closing
  <2>2. MadeAgain(r, there)
    BY <1>12, <2>1, RunsMakeAgain
  <2> HIDE DEF r
  <2>3. MadeAgain(m, there)
    BY <1>2, <1>6, <2>1, <2>2, MadeAgainConcat
  <2> HIDE DEF m
  <2> QED BY <1>2, <1>6, <2>1, <2>3, MadeAgainConcat
<1> HIDE DEF q, s
<1>14. PlanFits(q, s, FALSE)
  BY <1>11, <1>13 DEF PlanFits
<1> QED BY <1>1, <1>14 DEF s

LEMMA AllPlans ==
  ASSUME NEW s \in Stores, NEW reset \in BOOLEAN, NEW verify \in BOOLEAN
  PROVE  PlanFits(Plan(s, reset, verify), s, verify)
<1>1. CASE verify
  <2>1. verify = TRUE
    BY <1>1
  <2> QED BY <2>1, VerifyPlan
<1>2. CASE ~verify
  <2>1. verify = FALSE
    BY <1>2
  <2>2. s = "postgres" \/ s = "milvus" \/ s = "neo4j"
    BY DEF Stores
  <2> QED BY <2>1, <2>2, PostgresPlan, MilvusPlan, Neo4jPlan
<1> QED BY <1>1, <1>2

LEMMA BeginRuns ==
  ASSUME NEW s \in Stores, NEW reset \in BOOLEAN, NEW verify \in BOOLEAN,
         Begin(s, reset, verify), queue'.running => ~verify
  PROVE  Running' /\ script'.store = s /\ script' # NoScript
<1>1. /\ script' = [store |-> s, reset |-> reset, verify |-> verify]
      /\ todo' = Plan(s, reset, verify) /\ done' = done \ {s}
  BY DEF Begin
<1>2. /\ script' \in [store : Stores, reset : BOOLEAN, verify : BOOLEAN]
      /\ script'.store = s /\ script'.verify = verify /\ s \notin done'
  BY <1>1
<1>3. PlanFits(todo', s, verify)
  BY <1>1, AllPlans
<1>4. todo' \in Seq(CallsOfScripts) /\ \A i \in 1..Len(todo') : Owned(todo'[i], s)
  BY <1>3 DEF PlanFits
<1>5. ~verify => EndsChecked(todo', s, Loads') /\ (s = "neo4j" => MadeAgain(todo', schema'))
  BY <1>3 DEF PlanFits
<1>6. Running'
  BY <1>2, <1>4, <1>5 DEF Running, Owned
<1>7. script' # NoScript
  BY <1>2, SetUpAssumption
<1> QED BY <1>2, <1>6, <1>7

LEMMA IndexCallsAre ==
  ASSUME NEW s, s = "milvus"
  PROVE  Steady(IndexCalls, s)
<1>1. Indexes \in Nat
  BY SetUpAssumption
<1>2. "createIndex" \in Names
  BY DEF Names
<1> DEFINE d == [n \in 1..Indexes |-> <<"createIndex", n>>]
<1>3. \A n \in 1..Indexes : <<"createIndex", n>> \in CallsOfScripts
  BY <1>1, <1>2, CallNames
<1>4. d \in [1..Indexes -> CallsOfScripts]
  BY <1>3
<1>5. d \in Seq(CallsOfScripts) /\ DOMAIN d = 1..Indexes
  BY <1>1, <1>4
<1>6. \A n \in 1..Indexes : d[n] = <<"createIndex", n>>
  OBVIOUS
<1>7. \A n \in 1..Indexes : d[n][1] = "createIndex"
  BY <1>6, CallNames
<1>8. IndexCalls = IF script.reset \/ indexed = 0 THEN d ELSE <<>>
  BY DEF IndexCalls
<1> HIDE DEF d
<1>9. DOMAIN d = 1..Len(d)
  BY <1>5, LenProperties
<1>10. \A n \in 1..Len(d) : d[n][1] = "createIndex"
  BY <1>5, <1>7, <1>9
<1>11. \A n \in 1..Len(d) : Owned(d[n], s) /\ ~Checks(d[n])
  BY <1>10 DEF Owned, Checks
<1>12. Steady(d, s)
  BY <1>5, <1>11 DEF Steady
<1> QED BY <1>8, <1>12, SteadyNone

\* The indexes come before what is left of the plan.
LEMMA DecideRuns ==
  ASSUME Running, DecideIndexes
  PROVE  Running'
<1>1. /\ script # NoScript /\ todo # <<>> /\ Head(todo)[1] = "decideIndexes"
      /\ todo' = IndexCalls \o Tail(todo)
      /\ script' = script /\ queue' = queue /\ done' = done
      /\ tables' = tables /\ collection' = collection /\ indexed' = indexed /\ schema' = schema
  BY DEF DecideIndexes, Calls, storeVars
<1> DEFINE a == IndexCalls
           b == Tail(todo)
           q == a \o b
           s == script.store
<1>2. /\ Len(todo) \in Nat \ {0} /\ Len(b) = Len(todo) - 1 /\ b \in Seq(CallsOfScripts)
      /\ \A i \in 1..Len(b) : b[i] = todo[i + 1]
      /\ Owned(todo[1], s) /\ todo[1][1] = "decideIndexes"
  BY <1>1, TodoHead
<1>3. s = "milvus"
  BY <1>2 DEF Owned
<1>4. Steady(a, s)
  BY <1>3, IndexCallsAre
<1>5. a \in Seq(CallsOfScripts) /\ \A i \in 1..Len(a) : Owned(a[i], s) /\ ~Checks(a[i])
  BY <1>4 DEF Steady
<1> HIDE DEF a, b
<1>6. /\ q \in Seq(CallsOfScripts) /\ Len(q) = Len(a) + Len(b)
      /\ \A i \in 1 .. (Len(a) + Len(b)) : q[i] = IF i <= Len(a) THEN a[i] ELSE b[i - Len(a)]
      /\ Len(a) \in Nat /\ Len(b) \in Nat
  BY <1>2, <1>5, ConcatProperties, LenProperties
<1> HIDE DEF q
<1>7. ASSUME NEW i \in 1..Len(b) PROVE Owned(b[i], s)
  <2>1. i + 1 \in 1..Len(todo) /\ b[i] = todo[i + 1]
    BY <1>2
  <2> QED BY <2>1 DEF Running
<1>8. ASSUME NEW i \in 1..Len(q) PROVE Owned(q[i], s)
  <2>1. CASE i <= Len(a)
    <3>1. i \in 1..Len(a) /\ q[i] = a[i]
      BY <1>6, <2>1
    <3> QED BY <1>5, <3>1
  <2>2. CASE ~(i <= Len(a))
    <3>1. i - Len(a) \in 1..Len(b) /\ q[i] = b[i - Len(a)]
      BY <1>6, <2>2
    <3> QED BY <1>7, <3>1
  <2> QED BY <2>1, <2>2
<1>9. ASSUME ~script.verify PROVE EndsChecked(q, s, Loads')
  <2>1. EndsChecked(todo, s, Loads)
    BY <1>9 DEF Running
  <2>2. s # "postgres" /\ ~Checks(todo[1]) /\ todo[1][1] # "test"
    BY <1>2, <1>3 DEF Checks
  <2>3. /\ Len(todo) >= 2 /\ todo[Len(todo) - 1][1] = "verify" /\ todo[Len(todo)][1] = "test"
        /\ \A i \in 1 .. (Len(todo) - 2) : ~Checks(todo[i])
    BY <2>1, <2>2 DEF EndsChecked
  <2>4. Len(todo) # 2
    <3>1. SUFFICES ASSUME Len(todo) = 2 PROVE FALSE
      OBVIOUS
    <3>2. todo[1][1] = "verify"
      BY <2>3, <3>1
    <3> QED BY <1>2, <3>2
  <2>5. Len(b) >= 2 /\ b[Len(b) - 1] = todo[Len(todo) - 1] /\ b[Len(b)] = todo[Len(todo)]
    BY <1>2, <2>3, <2>4
  <2>6. Len(q) >= 2 /\ q[Len(q) - 1] = b[Len(b) - 1] /\ q[Len(q)] = b[Len(b)]
    <3>1. /\ Len(b) - 1 \in 1..Len(b) /\ Len(b) \in 1..Len(b) /\ Len(q) >= 2
          /\ Len(q) - 1 = Len(a) + (Len(b) - 1)
      BY <1>6, <2>5
    <3>2. \A j \in 1..Len(b) : /\ Len(a) + j \in 1 .. (Len(a) + Len(b))
                               /\ ~(Len(a) + j <= Len(a)) /\ Len(a) + j - Len(a) = j
      BY <1>6
    <3>3. \A j \in 1..Len(b) : q[Len(a) + j] = b[j]
      BY <1>6, <3>2
    <3> QED BY <1>6, <3>1, <3>3
  <2>7. ASSUME NEW i \in 1 .. (Len(q) - 2) PROVE ~Checks(q[i])
    <3>1. CASE i <= Len(a)
      <4>1. i \in 1..Len(a) /\ q[i] = a[i]
        BY <1>6, <3>1
      <4> QED BY <1>5, <4>1
    <3>2. CASE ~(i <= Len(a))
      <4>1. i \in 1 .. (Len(a) + Len(b)) /\ i - Len(a) \in 1 .. (Len(b) - 2)
        BY <1>6, <3>2
      <4>2. q[i] = b[i - Len(a)]
        BY <1>6, <3>2, <4>1
      <4>3. /\ i - Len(a) + 1 \in 1 .. (Len(todo) - 2)
            /\ b[i - Len(a)] = todo[i - Len(a) + 1]
        BY <1>2, <1>6, <4>1
      <4> QED BY <2>3, <4>2, <4>3
    <3> QED BY <3>1, <3>2
  <2> QED BY <2>2, <2>3, <2>5, <2>6, <2>7 DEF EndsChecked
<1>10. s # "neo4j"
  BY <1>3
<1>11. todo' = q
  BY <1>1 DEF q, a, b
<1>12. \A i \in 1..Len(todo') : Owned(todo'[i], script'.store)
  BY <1>1, <1>8, <1>11
<1>13. ~script'.verify => EndsChecked(todo', script'.store, Loads')
  BY <1>1, <1>9, <1>11
<1>14. todo' \in Seq(CallsOfScripts) /\ script'.store # "neo4j"
  BY <1>1, <1>6, <1>10, <1>11
<1> HIDE DEF s
<1> QED BY <1>1, <1>12, <1>13, <1>14 DEF Running, Owned

-----------------------------------------------------------------------------
(* Every step.                                                             *)

LEMMA OthersStay ==
  ASSUME NEW s \in Stores,
         s = "postgres" => tables' = tables,
         s = "milvus" => collection' = collection /\ indexed' = indexed,
         s = "neo4j" => schema' = schema
  PROVE  Usable(s)' <=> Usable(s)
<1>1. s = "postgres" \/ s = "milvus" \/ s = "neo4j"
  BY DEF Stores
<1>2. CASE s = "postgres"
  BY <1>2 DEF Usable
<1>3. CASE s = "milvus"
  BY <1>3 DEF Usable, Loads
<1>4. CASE s = "neo4j"
  BY <1>4 DEF Usable
<1> QED BY <1>1, <1>2, <1>3, <1>4

LEMMA CallIs ==
  ASSUME SetUpInv, NEW name, Calls(name)
  PROVE  /\ script # NoScript /\ todo # <<>> /\ Running
         /\ Head(todo) = todo[1] /\ todo[1][1] = name
         /\ Owned(todo[1], script.store)
         /\ schema \subseteq 1..Statements /\ script.store \in Stores
<1>1. script # NoScript /\ todo # <<>> /\ Head(todo)[1] = name
  BY DEF Calls
<1>2. Running /\ schema \subseteq 1..Statements
  BY <1>1 DEF SetUpInv
<1>3. Head(todo) = todo[1] /\ Owned(todo[1], script.store)
  BY <1>1, <1>2, TodoHead
<1>4. script.store \in Stores
  BY <1>2 DEF Running
<1> QED BY <1>1, <1>2, <1>3, <1>4

\* A call that is no check and leaves the graph's schema alone.
LEMMA PlainCall ==
  ASSUME SetUpInv, NEW name, Calls(name), GoOn,
         name \notin {"verify", "test", "execute"}, schema' = schema,
         \A s \in Stores \ {script.store} : Usable(s) => Usable(s)'
  PROVE  SetUpInv'
<1>1. /\ script # NoScript /\ todo # <<>> /\ Running /\ todo[1][1] = name
      /\ schema \subseteq 1..Statements
  BY CallIs
<1>2. ~Checks(todo[1]) /\ \A n : ~Executes(todo, 1, n)
  BY <1>1 DEF Checks, Executes
<1>3. Running'
  BY <1>1, <1>2, GoOnRuns
<1>4. UNCHANGED <<script, queue, done>>
  BY DEF GoOn
<1> QED BY <1>1, <1>3, <1>4, CallKeeps

LEMMA TableCalls ==
  ASSUME SetUpInv, DropTables \/ CreateTables
  PROVE  SetUpInv'
<1>1. PICK name \in {"dropTables", "createTables"} : Calls(name)
  BY DEF DropTables, CreateTables
<1>2. GoOn /\ collection' = collection /\ indexed' = indexed /\ schema' = schema
  BY DEF DropTables, CreateTables
<1>3. script.store = "postgres"
  BY <1>1, CallIs DEF Owned
<1>4. \A s \in Stores \ {script.store} : Usable(s)' <=> Usable(s)
  BY <1>2, <1>3, OthersStay
<1>5. name \notin {"verify", "test", "execute"}
  BY <1>1
<1> QED BY <1>1, <1>2, <1>4, <1>5, PlainCall

LEMMA CollectionCalls ==
  ASSUME SetUpInv, DropCollection \/ CreateCollection \/ CreateIndex
  PROVE  SetUpInv'
<1>1. PICK name \in {"dropCollection", "createCollection", "createIndex"} : Calls(name)
  BY DEF DropCollection, CreateCollection, CreateIndex
<1>2. GoOn /\ tables' = tables /\ schema' = schema
  BY DEF DropCollection, CreateCollection, CreateIndex
<1>3. script.store = "milvus"
  BY <1>1, CallIs DEF Owned
<1>4. \A s \in Stores \ {script.store} : Usable(s)' <=> Usable(s)
  BY <1>2, <1>3, OthersStay
<1>5. name \notin {"verify", "test", "execute"}
  BY <1>1
<1> QED BY <1>1, <1>2, <1>4, <1>5, PlainCall

LEMMA IdleCalls ==
  ASSUME SetUpInv, Connect \/ ClearGraph
  PROVE  SetUpInv'
<1>1. PICK name \in {"connect", "clear"} : Calls(name)
  BY DEF Connect, ClearGraph
<1>2. GoOn /\ UNCHANGED storeVars
  BY DEF Connect, ClearGraph
<1>3. \A s \in Stores : Usable(s)' <=> Usable(s)
  BY <1>2, UsableStays
<1>4. name \notin {"verify", "test", "execute"}
  BY <1>1
<1>5. schema' = schema
  BY <1>2 DEF storeVars
<1> QED BY <1>1, <1>2, <1>3, <1>4, <1>5, PlainCall

LEMMA DecideKeeps ==
  ASSUME SetUpInv, DecideIndexes
  PROVE  SetUpInv'
<1>1. Calls("decideIndexes") /\ UNCHANGED storeVars /\ UNCHANGED <<script, queue, done>>
  BY DEF DecideIndexes, storeVars
<1>2. Running /\ script # NoScript /\ schema \subseteq 1..Statements
  BY <1>1, CallIs
<1>3. Running'
  BY <1>2, DecideRuns
<1>4. \A s \in Stores : Usable(s)' <=> Usable(s)
  BY <1>1, UsableStays
<1>5. schema' = schema
  BY <1>1 DEF storeVars
<1> QED BY <1>1, <1>2, <1>3, <1>4, <1>5, CallKeeps

LEMMA StatementKeeps ==
  ASSUME SetUpInv, DropStatement \/ ExecuteStatement
  PROVE  SetUpInv'
<1>1. /\ \/ /\ Calls("drop")
            /\ schema' \in {schema, schema \ {Head(todo)[2]}}
         \/ Calls("execute") /\ schema' = schema \union {Head(todo)[2]}
      /\ GoOn /\ tables' = tables /\ collection' = collection /\ indexed' = indexed
  BY DEF DropStatement, ExecuteStatement
<1>2. PICK name \in {"drop", "execute"} : Calls(name)
  BY <1>1
<1>3. /\ script # NoScript /\ todo # <<>> /\ Running
      /\ Head(todo) = todo[1] /\ todo[1][1] = name
      /\ schema \subseteq 1..Statements /\ script.store \in Stores
      /\ Owned(todo[1], script.store)
  BY <1>2, CallIs
<1>4. script.store = "neo4j" /\ (name = "execute" => todo[1][2] \in 1..Statements)
  BY <1>2, <1>3 DEF Owned
<1>5. \/ name = "drop" /\ schema' \in {schema, schema \ {todo[1][2]}}
      \/ name = "execute" /\ schema' = schema \union {todo[1][2]}
  <2>1. CASE Calls("drop") /\ schema' \in {schema, schema \ {Head(todo)[2]}}
    <3>1. todo[1][1] = "drop"
      BY <2>1, CallIs
    <3> QED BY <1>3, <2>1, <3>1
  <2>2. CASE Calls("execute") /\ schema' = schema \union {Head(todo)[2]}
    <3>1. todo[1][1] = "execute"
      BY <2>2, CallIs
    <3> QED BY <1>3, <2>2, <3>1
  <2> QED BY <1>1, <2>1, <2>2
<1>6. schema' \subseteq 1..Statements
  BY <1>3, <1>4, <1>5
<1>7. ASSUME NEW n \in 1..Statements, n \in schema \/ Executes(todo, 1, n)
      PROVE  n \in schema' \/ (todo[1][1] = "drop" /\ todo[1][2] = n)
  <2>1. CASE name = "drop"
    <3>1. n \in schema
      BY <1>3, <1>7, <2>1 DEF Executes
    <3> QED BY <1>3, <1>5, <2>1, <3>1
  <2>2. CASE name = "execute"
    BY <1>3, <1>5, <1>7, <2>2 DEF Executes
  <2> QED BY <1>2, <2>1, <2>2
<1>8. ~Checks(todo[1])
  BY <1>2, <1>3 DEF Checks
<1>9. Running'
  BY <1>1, <1>3, <1>7, <1>8, GoOnRuns
<1>10. \A s \in Stores \ {script.store} : Usable(s)' <=> Usable(s)
  BY <1>1, <1>4, OthersStay
<1>11. UNCHANGED <<script, queue, done>>
  BY <1>1 DEF GoOn
<1> QED BY <1>3, <1>6, <1>9, <1>10, <1>11, CallKeeps

LEMMA VerifyKeeps ==
  ASSUME SetUpInv, Verify
  PROVE  SetUpInv'
<1>1. /\ Calls("verify") /\ UNCHANGED storeVars
      /\ \/ ~VerifyOk /\ Exit(1)
         \/ VerifyOk /\ Tail(todo) = <<>> /\ Exit(0)
         \/ VerifyOk /\ Tail(todo) # <<>> /\ GoOn
  BY DEF Verify
<1>2. /\ script # NoScript /\ todo # <<>> /\ Running /\ todo[1][1] = "verify"
      /\ schema \subseteq 1..Statements
  BY <1>1, CallIs
<1>3. CASE Exit(1)
  <2>1. 1 # 0
    OBVIOUS
  <2> QED BY <1>1, <1>2, <1>3, <2>1, ExitKeeps
<1>4. CASE VerifyOk /\ Tail(todo) = <<>> /\ Exit(0)
  <2>1. ~script.verify => Usable(script.store)
    BY <1>2, <1>4, LastCheck
  <2> QED BY <1>1, <1>2, <1>4, <2>1, ExitKeeps
<1>5. CASE VerifyOk /\ Tail(todo) # <<>> /\ GoOn
  <2>1. script.store = "milvus" => Loads'
    <3>1. script.store = "milvus" => Loads
      BY <1>5 DEF VerifyOk, Of
    <3> QED BY <1>1, <3>1 DEF storeVars, Loads
  <2>2. schema' = schema /\ UNCHANGED <<script, queue, done>>
    BY <1>1, <1>5 DEF GoOn, storeVars
  <2>3. \A n : ~Executes(todo, 1, n)
    BY <1>2 DEF Executes
  <2>4. Running'
    BY <1>2, <1>5, <2>1, <2>2, <2>3, GoOnRuns
  <2>5. \A s \in Stores : Usable(s)' <=> Usable(s)
    BY <1>1, UsableStays
  <2> QED BY <1>2, <2>2, <2>4, <2>5, CallKeeps
<1> QED BY <1>1, <1>3, <1>4, <1>5

LEMMA TestAndRaiseKeep ==
  ASSUME SetUpInv, FunctionalTest \/ Raises
  PROVE  SetUpInv'
<1>1. 1 # 0
  OBVIOUS
<1>2. CASE Raises
  BY <1>1, <1>2, ExitKeeps DEF Raises
<1>3. CASE FunctionalTest
  <2>1. Calls("test") /\ UNCHANGED storeVars /\ (Exit(0) \/ Exit(1))
    BY <1>3 DEF FunctionalTest
  <2>2. script # NoScript /\ todo # <<>> /\ todo[1][1] = "test"
    BY <2>1, CallIs
  <2>3. ~script.verify => Usable(script.store)
    BY <2>2, LastCheck
  <2> QED BY <1>1, <2>1, <2>2, <2>3, ExitKeeps
<1> QED BY <1>2, <1>3

LEMMA InterruptKeeps ==
  ASSUME SetUpInv, Interrupt
  PROVE  SetUpInv'
<1>1. /\ script # NoScript /\ script' = NoScript /\ done' = done /\ UNCHANGED storeVars
      /\ queue' = NoQueue \/ queue' = [queue EXCEPT !.failed = TRUE]
  BY DEF Interrupt
<1>2. QueueTypeOK /\ done \subseteq Stores /\ schema \subseteq 1..Statements /\ SuccessMeansUsable
  BY DEF SetUpInv
<1>3. \A s \in Stores : Usable(s)' <=> Usable(s)
  BY <1>1, UsableStays
<1>4. QueueTypeOK' /\ (~queue'.running \/ queue'.failed)
  <2>1. CASE queue' = NoQueue
    BY <2>1 DEF NoQueue, QueueTypeOK
  <2>2. CASE queue' = [queue EXCEPT !.failed = TRUE]
    BY <1>2, <2>2 DEF QueueTypeOK
  <2> QED BY <1>1, <2>1, <2>2
<1>5. Ready'
  BY <1>4 DEF Ready
<1>6. SuccessMeansUsable'
  BY <1>1, <1>2, <1>3 DEF SuccessMeansUsable
<1>7. schema' = schema
  BY <1>1 DEF storeVars
<1> QED BY <1>1, <1>2, <1>4, <1>5, <1>6, <1>7 DEF SetUpInv

LEMMA OperatorKeeps ==
  ASSUME SetUpInv, Operator
  PROVE  SetUpInv'
<1>0. QueueTypeOK /\ done \subseteq Stores /\ schema \subseteq 1..Statements /\ SuccessMeansUsable
  BY DEF SetUpInv
<1>1. ASSUME NEW s \in Stores, NEW reset \in BOOLEAN, NEW verify \in BOOLEAN,
             RunScript(s, reset, verify)
      PROVE  SetUpInv'
  <2>1. /\ ~queue.running /\ Begin(s, reset, verify)
        /\ UNCHANGED storeVars /\ queue' = queue
    BY <1>1 DEF RunScript, storeVars
  <2>2. Running' /\ done' = done \ {s}
    BY <2>1, BeginRuns DEF Begin
  <2>3. \A x \in Stores : Usable(x)' <=> Usable(x)
    BY <2>1, UsableStays
  <2>4. QueueTypeOK' /\ Ready'
    BY <1>0, <2>1 DEF QueueTypeOK, Ready
  <2>5. SuccessMeansUsable' /\ done' \subseteq Stores
    BY <1>0, <2>2, <2>3 DEF SuccessMeansUsable
  <2>6. schema' = schema
    BY <2>1 DEF storeVars
  <2> QED BY <1>0, <2>2, <2>4, <2>5, <2>6 DEF SetUpInv
<1>2. ASSUME NEW which \in Seq(Stores), NEW reset \in BOOLEAN, RunAll(which, reset)
      PROVE  SetUpInv'
  <2>1. /\ script' = NoScript /\ script = NoScript /\ done' = done /\ UNCHANGED storeVars
        /\ queue' = [asked |-> Range(which), left |-> which, failed |-> FALSE,
                     running |-> TRUE, reset |-> reset]
    BY <1>2 DEF RunAll
  <2>2. DOMAIN which = 1..Len(which) /\ \A i \in 1..Len(which) : which[i] \in Stores
    BY LenProperties
  <2>3. Range(which) \subseteq Stores
    BY <2>2 DEF Range
  <2>4. QueueTypeOK'
    BY <2>1, <2>3 DEF QueueTypeOK
  <2>5. \A s \in Range(which) : \E i \in 1..Len(which) : which[i] = s
    BY <2>2 DEF Range
  <2>6. Ready'
    BY <2>1, <2>5 DEF Ready
  <2>7. \A x \in Stores : Usable(x)' <=> Usable(x)
    BY <2>1, UsableStays
  <2>8. SuccessMeansUsable'
    BY <1>0, <2>1, <2>7 DEF SuccessMeansUsable
  <2>9. schema' = schema
    BY <2>1 DEF storeVars
  <2> QED BY <1>0, <2>1, <2>4, <2>6, <2>8, <2>9 DEF SetUpInv
<1>3. /\ <<"postgres", "milvus", "neo4j">> \in Seq(Stores)
      /\ \A s \in Stores : <<s>> \in Seq(Stores)
  <2>1. "postgres" \in Stores /\ "milvus" \in Stores /\ "neo4j" \in Stores
    BY DEF Stores
  <2>2. ASSUME NEW a \in Stores, NEW b \in Stores, NEW c \in Stores
        PROVE  <<a, b, c>> \in Seq(Stores) /\ <<a>> \in Seq(Stores)
    OBVIOUS
  <2> QED BY <2>1, <2>2
<1> QED BY <1>1, <1>2, <1>3 DEF Operator

LEMMA NextOfAllKeeps ==
  ASSUME SetUpInv, NextOfAll
  PROVE  SetUpInv'
<1>0. /\ QueueTypeOK /\ done \subseteq Stores /\ schema \subseteq 1..Statements
      /\ SuccessMeansUsable /\ Ready
  BY DEF SetUpInv
<1> DEFINE s == Head(queue.left)
<1>1. /\ queue.running /\ script = NoScript /\ queue.left # <<>> /\ UNCHANGED storeVars
      /\ Begin(s, queue.reset, FALSE)
      /\ queue' = [queue EXCEPT !.left = Tail(@)]
  BY DEF NextOfAll
<1>2. queue.left \in Seq(Stores) /\ queue.reset \in BOOLEAN /\ queue.asked \subseteq Stores
  BY <1>0 DEF QueueTypeOK
<1>3. /\ Tail(queue.left) \in Seq(Stores) /\ s \in Stores /\ s = queue.left[1]
      /\ Len(Tail(queue.left)) = Len(queue.left) - 1 /\ Len(queue.left) \in Nat
      /\ \A i \in 1..Len(Tail(queue.left)) : Tail(queue.left)[i] = queue.left[i + 1]
  BY <1>1, <1>2, HeadTailProperties, LenProperties
<1>4. /\ queue'.asked = queue.asked /\ queue'.left = Tail(queue.left)
      /\ queue'.running = queue.running /\ queue'.failed = queue.failed
  BY <1>0, <1>1 DEF QueueTypeOK
<1>5. QueueTypeOK'
  BY <1>0, <1>1, <1>3 DEF QueueTypeOK
<1>6. Running' /\ script'.store = s /\ script' # NoScript /\ done' = done \ {s}
  <2>1. FALSE \in BOOLEAN /\ (queue'.running => ~FALSE)
    OBVIOUS
  <2> HIDE DEF s
  <2> QED BY <1>1, <1>2, <1>3, <2>1, BeginRuns DEF Begin
<1>7. \A x \in Stores : Usable(x)' <=> Usable(x)
  BY <1>1, UsableStays
<1>8. SuccessMeansUsable' /\ done' \subseteq Stores
  BY <1>0, <1>6, <1>7 DEF SuccessMeansUsable
<1>9. Ready'
  <2>1. SUFFICES ASSUME ~queue.failed, NEW x \in queue.asked, x # s,
                        ~\E i \in 1..Len(Tail(queue.left)) : Tail(queue.left)[i] = x
                 PROVE  Usable(x)'
    BY <1>4, <1>6 DEF Ready
  <2>2. ~\E i \in 1..Len(queue.left) : queue.left[i] = x
    <3>1. SUFFICES ASSUME NEW i \in 1..Len(queue.left), queue.left[i] = x PROVE FALSE
      OBVIOUS
    <3>2. i # 1
      BY <1>3, <2>1, <3>1
    <3>3. i - 1 \in 1..Len(Tail(queue.left)) /\ i - 1 + 1 = i
      BY <1>3, <3>2
    <3>4. Tail(queue.left)[i - 1] = queue.left[i]
      BY <1>3, <3>3
    <3> QED BY <2>1, <3>1, <3>3, <3>4
  <2>3. Usable(x)
    BY <1>0, <1>1, <2>1, <2>2 DEF Ready
  <2> QED BY <1>2, <1>7, <2>1, <2>3
<1>10. schema' = schema
  BY <1>1 DEF storeVars
<1> QED BY <1>0, <1>5, <1>6, <1>8, <1>9, <1>10 DEF SetUpInv

LEMMA EndOfAllKeeps ==
  ASSUME SetUpInv, EndOfAll
  PROVE  SetUpInv'
<1>0. /\ QueueTypeOK /\ done \subseteq Stores /\ schema \subseteq 1..Statements
      /\ SuccessMeansUsable /\ Ready
  BY DEF SetUpInv
<1>1. /\ queue.running /\ script = NoScript /\ queue.left = <<>> /\ UNCHANGED storeVars
      /\ queue' = NoQueue /\ script' = script
      /\ done' = IF queue.failed THEN done ELSE done \union queue.asked
  BY DEF EndOfAll
<1>2. QueueTypeOK' /\ Ready'
  BY <1>1 DEF NoQueue, QueueTypeOK, Ready
<1>3. \A x \in Stores : Usable(x)' <=> Usable(x)
  BY <1>1, UsableStays
<1>4. queue.asked \subseteq Stores
  BY <1>0 DEF QueueTypeOK
<1>5. ASSUME ~queue.failed, NEW x \in queue.asked PROVE Usable(x)
  <2>1. Len(queue.left) = 0
    BY <1>1
  <2>2. ~\E i \in 1..Len(queue.left) : queue.left[i] = x
    BY <2>1
  <2> QED BY <1>0, <1>1, <1>5, <2>2 DEF Ready
<1>6. done' \subseteq Stores /\ \A x \in done' : Usable(x)
  BY <1>0, <1>1, <1>4, <1>5 DEF SuccessMeansUsable
<1>7. SuccessMeansUsable'
  BY <1>3, <1>6 DEF SuccessMeansUsable
<1>8. schema' = schema
  BY <1>1 DEF storeVars
<1> QED BY <1>0, <1>1, <1>2, <1>6, <1>7, <1>8 DEF SetUpInv

LEMMA UntouchedSetUp ==
  ASSUME SetUpInv, UNCHANGED setUpVars
  PROVE  SetUpInv'
<1>1. /\ UNCHANGED storeVars /\ UNCHANGED <<script, todo, queue, done, tables, collection,
                                           indexed, schema>>
  BY DEF setUpVars, storeVars
<1>2. Loads' <=> Loads
  BY <1>1 DEF Loads
<1>3. \A s \in Stores : Usable(s)' <=> Usable(s)
  BY <1>1, UsableStays
<1>4. QueueTypeOK /\ QueueTypeOK'
  BY <1>1 DEF SetUpInv, QueueTypeOK
<1>5. SuccessMeansUsable' /\ done' \subseteq Stores
  BY <1>1, <1>3 DEF SetUpInv, SuccessMeansUsable
<1>6. queue.asked \subseteq Stores
  BY <1>4 DEF QueueTypeOK
<1>7. Ready'
  BY <1>1, <1>3, <1>6 DEF SetUpInv, Ready
<1>8. script # NoScript => Running'
  <2>1. SUFFICES ASSUME script # NoScript PROVE Running'
    OBVIOUS
  <2>2. Running
    BY <2>1 DEF SetUpInv
  <2>3. ~script.verify => EndsChecked(todo, script.store, Loads)
    BY <2>2 DEF Running
  <2>4. ~script.verify => EndsChecked(todo, script.store, Loads')
    BY <1>2, <2>3 DEF EndsChecked
  <2>5. \A i \in 1..Len(todo) : Owned(todo[i], script.store)
    BY <2>2 DEF Running
  <2>6. ~script'.verify => EndsChecked(todo', script'.store, Loads')
    BY <1>1, <2>4
  <2>7. ~script'.verify /\ script'.store = "neo4j" => MadeAgain(todo', schema')
    BY <1>1, <2>2 DEF Running
  <2> QED BY <1>1, <2>2, <2>5, <2>6, <2>7 DEF Running, Owned
<1> QED BY <1>1, <1>4, <1>5, <1>7, <1>8 DEF SetUpInv

LEMMA NextSetUpInv ==
  ASSUME SetUpInv, [Next]_vars
  PROVE  SetUpInv'
<1>1. CASE Operate
  BY <1>1, OperatorKeeps DEF Operate
<1>2. CASE Script
  <2>1. ScriptStep
    BY <1>2 DEF Script
  <2>2. CASE Connect \/ ClearGraph
    BY <2>2, IdleCalls
  <2>3. CASE DropTables \/ CreateTables
    BY <2>3, TableCalls
  <2>4. CASE DropCollection \/ CreateCollection \/ CreateIndex
    BY <2>4, CollectionCalls
  <2>5. CASE DropStatement \/ ExecuteStatement
    BY <2>5, StatementKeeps
  <2>6. CASE FunctionalTest \/ Raises
    BY <2>6, TestAndRaiseKeep
  <2> QED BY <2>1, <2>2, <2>3, <2>4, <2>5, <2>6, DecideKeeps, VerifyKeeps, InterruptKeeps,
             NextOfAllKeeps, EndOfAllKeeps DEF ScriptStep
<1>3. CASE StartApplication \/ Life \/ Stop \/ UNCHANGED vars
  <2>1. UNCHANGED setUpVars
    BY <1>3 DEF StartApplication, Life, Stop, vars
  <2> QED BY <2>1, UntouchedSetUp
<1> QED BY <1>1, <1>2, <1>3 DEF Next

LEMMA InitSetUpInv ==
  ASSUME Init PROVE SetUpInv
<1>1. /\ schema \in {{}, 1..Statements} /\ script = NoScript /\ queue = NoQueue /\ done = {}
  BY DEF Init, SetUpInit
<1>2. QueueTypeOK /\ ~queue.running
  BY <1>1 DEF NoQueue, QueueTypeOK
<1>3. Ready /\ SuccessMeansUsable
  BY <1>1, <1>2 DEF Ready, SuccessMeansUsable
<1> QED BY <1>1, <1>2, <1>3 DEF SetUpInv

\* A set-up script that returned 0, and init_all when it does, left stores
\* that can be used: however many indexes and statements there are, however
\* often scripts failed, were interrupted, or dropped what was there.
THEOREM SuccessIsUsable == Spec => []SuccessMeansUsable
<1>1. Init => SetUpInv
  BY InitSetUpInv
<1>2. SetUpInv /\ [Next]_vars => SetUpInv'
  BY NextSetUpInv
<1>3. SetUpInv => SuccessMeansUsable
  BY DEF SetUpInv
<1> QED BY <1>1, <1>2, <1>3, PTL DEF Spec
=============================================================================
