-------------------------------- MODULE SetUp --------------------------------
(***************************************************************************)
(* The scripts that prepare the stores: init_postgres, init_milvus and     *)
(* init_neo4j, each run by hand or by init_all.  A script is its list of   *)
(* calls; each call may raise, which ends the script with exit code 1, and *)
(* the script may be interrupted or time out between two calls, which      *)
(* leaves its store half done.  One process runs at a time.  Rows are left *)
(* out: those of documents, which only --reset drops, and the one that the *)
(* functional tests of Milvus and Neo4j make and remove.                   *)
(***************************************************************************)
EXTENDS Naturals, Sequences, Functions

CONSTANTS
    Indexes,     \* the number of indexes of the collection; the first two are
                 \* of the vectors
    Statements,  \* the statements of the Cypher files; 1 makes doc_uuid unique
    NoScript

Stores == {"postgres", "milvus", "neo4j"}

ASSUME SetUpAssumption ==
    /\ Indexes \in Nat /\ Indexes > 1
    /\ Statements \in Nat \ {0}
    /\ NoScript \notin [store : Stores, reset : BOOLEAN, verify : BOOLEAN]

VARIABLES
    tables,     \* whether the schema of PostgreSQL is there
    collection, \* whether the collection of Milvus is there
    indexed,    \* how many of its indexes are
    schema,     \* the statements whose constraint or index Neo4j has
    script,     \* the script that runs: its store and its arguments
    todo,       \* the calls it has before it
    queue,      \* the stores init_all was asked for, those it has before it,
                \* and whether one failed
    done        \* history: the stores last initialised with exit code 0

storeVars == <<tables, collection, indexed, schema>>
setUpVars == <<storeVars, script, todo, queue, done>>

\* What a script does, in order.  --verify is the mode that changes nothing.
Plan(s, reset, verify) ==
    LET drops == [n \in 1..Statements |-> <<"drop", n>>]
        runs == [n \in 1..Statements |-> <<"execute", n>>]
        test == <<<<"test">>>>
    IN  IF verify THEN <<<<"connect">>, <<"verify">>>>
        ELSE CASE s = "postgres" ->
                <<<<"connect">>>> \o (IF reset THEN <<<<"dropTables">>>> ELSE <<>>)
                    \o <<<<"createTables">>, <<"verify">>>>
          [] s = "milvus" ->
                <<<<"connect">>>> \o (IF reset THEN <<<<"dropCollection">>>> ELSE <<>>)
                    \o <<<<"createCollection">>, <<"decideIndexes">>, <<"verify">>>> \o test
          [] s = "neo4j" ->
                <<<<"connect">>>> \o (IF reset THEN drops \o <<<<"clear">>>> ELSE <<>>)
                    \o runs \o <<<<"verify">>>> \o test

\* A collection is loaded only if every vector has its index (external).
Loads == collection /\ indexed >= 2

NoQueue == [asked |-> {}, left |-> <<>>, failed |-> FALSE, running |-> FALSE, reset |-> FALSE]

SetUpInit ==
    /\ tables \in BOOLEAN
    /\ collection \in BOOLEAN /\ indexed = (IF collection THEN Indexes ELSE 0)
    /\ schema \in {{}, 1..Statements}
    /\ script = NoScript /\ todo = <<>>
    /\ queue = NoQueue
    /\ done = {}

-----------------------------------------------------------------------------
(* Starting scripts and ending them. *)

Begin(s, reset, verify) ==
    /\ script' = [store |-> s, reset |-> reset, verify |-> verify]
    /\ todo' = Plan(s, reset, verify)
    /\ done' = done \ {s}

\* By hand.
RunScript(s, reset, verify) ==
    /\ script = NoScript /\ ~queue.running /\ ~(reset /\ verify)
    /\ Begin(s, reset, verify)
    /\ UNCHANGED <<storeVars, queue>>

\* init_all, of every store or of one, always in this order.
RunAll(which, reset) ==
    /\ script = NoScript /\ ~queue.running
    /\ queue' = [asked |-> Range(which), left |-> which, failed |-> FALSE, running |-> TRUE, reset |-> reset]
    /\ UNCHANGED <<storeVars, script, todo, done>>

NextOfAll ==
    /\ queue.running /\ script = NoScript /\ queue.left # <<>>
    /\ Begin(Head(queue.left), queue.reset, FALSE)
    /\ queue' = [queue EXCEPT !.left = Tail(@)]
    /\ UNCHANGED storeVars

EndOfAll ==
    /\ queue.running /\ script = NoScript /\ queue.left = <<>>
    /\ queue' = NoQueue
    /\ done' = IF queue.failed THEN done ELSE done \union queue.asked
    /\ UNCHANGED <<storeVars, script, todo>>

\* A script that fails does not keep init_all from running the next.
Exit(code) ==
    /\ script' = NoScript /\ todo' = <<>>
    /\ queue' = [queue EXCEPT !.failed = @ \/ (queue.running /\ code # 0)]
    /\ done' = IF code = 0 /\ ~script.verify /\ ~queue.running
               THEN done \union {script.store} ELSE done

-----------------------------------------------------------------------------
(* The calls. *)

Calls(name) == script # NoScript /\ todo # <<>> /\ Head(todo)[1] = name
GoOn == todo' = Tail(todo) /\ UNCHANGED <<script, queue, done>>
Of(s) == script.store = s

Connect == Calls("connect") /\ GoOn /\ UNCHANGED storeVars

\* All tables in one transaction.
DropTables ==
    /\ Calls("dropTables") /\ GoOn
    /\ tables' = FALSE
    /\ UNCHANGED <<collection, indexed, schema>>

\* CREATE ... IF NOT EXISTS, the file as one transaction.
CreateTables ==
    /\ Calls("createTables") /\ GoOn
    /\ tables' = TRUE
    /\ UNCHANGED <<collection, indexed, schema>>

DropCollection ==
    /\ Calls("dropCollection") /\ GoOn
    /\ collection' = FALSE /\ indexed' = 0
    /\ UNCHANGED <<tables, schema>>

\* A collection that is there is taken as it is.
CreateCollection ==
    /\ Calls("createCollection") /\ GoOn
    /\ collection' = TRUE
    /\ UNCHANGED <<tables, indexed, schema>>

\* All of them or, when there is one already, none.
IndexCalls ==
    IF script.reset \/ indexed = 0 THEN [n \in 1..Indexes |-> <<"createIndex", n>>] ELSE <<>>

DecideIndexes ==
    /\ Calls("decideIndexes")
    /\ todo' = IndexCalls \o Tail(todo)
    /\ UNCHANGED <<storeVars, script, queue, done>>

CreateIndex ==
    /\ Calls("createIndex") /\ GoOn
    /\ indexed' = Head(todo)[2]
    /\ UNCHANGED <<tables, collection, schema>>

\* An error of a DROP is ignored.
DropStatement ==
    /\ Calls("drop") /\ GoOn
    /\ schema' \in {schema, schema \ {Head(todo)[2]}}
    /\ UNCHANGED <<tables, collection, indexed>>

ClearGraph == Calls("clear") /\ GoOn /\ UNCHANGED storeVars

\* Wrong: any error of a statement is ignored.
ExecuteStatementLeniently ==
    /\ Calls("execute") /\ GoOn
    /\ schema' \in {schema, schema \union {Head(todo)[2]}}
    /\ UNCHANGED <<tables, collection, indexed>>

\* An error is ignored when it says the thing is there, and then it is.
ExecuteStatement ==
    /\ Calls("execute") /\ GoOn
    /\ schema' = schema \union {Head(todo)[2]}
    /\ UNCHANGED <<tables, collection, indexed>>

\* Whether verification passes.  Of Neo4j it prints a summary, of Milvus it
\* loads the collection (which raises when it cannot be).
VerifyOk ==
    CASE Of("postgres") -> tables
      [] Of("milvus") -> Loads
      [] OTHER -> TRUE

Verify ==
    /\ Calls("verify") /\ UNCHANGED storeVars
    /\ \/ ~VerifyOk /\ Exit(1)
       \/ VerifyOk /\ Tail(todo) = <<>> /\ Exit(0)
       \/ VerifyOk /\ Tail(todo) # <<>> /\ GoOn

\* The functional test.  A search may have no result; the graph must refuse
\* a second node with the same doc_uuid.
FunctionalTest ==
    /\ Calls("test") /\ UNCHANGED storeVars
    /\ \/ (Of("neo4j") => 1 \in schema) /\ Exit(0)
       \/ Exit(1)

Raises ==
    /\ script # NoScript /\ Exit(1)
    /\ UNCHANGED storeVars

\* Ctrl-C ends the script and init_all with it; a timeout of init_all, which
\* kills the script, counts as a failure.  A Ctrl-C in the three seconds that
\* --reset waits exits with 0 and counts as an interruption all the same.
Interrupt ==
    /\ script # NoScript
    /\ script' = NoScript /\ todo' = <<>>
    /\ \/ queue' = NoQueue
       \/ queue.running /\ queue' = [queue EXCEPT !.failed = TRUE]
    /\ UNCHANGED <<storeVars, done>>

ScriptStep ==
    \/ Connect \/ DropTables \/ CreateTables \/ DropCollection \/ CreateCollection
    \/ DecideIndexes \/ CreateIndex \/ DropStatement \/ ClearGraph \/ ExecuteStatement
    \/ Verify \/ FunctionalTest \/ Raises \/ Interrupt
    \/ NextOfAll \/ EndOfAll

Operator ==
    \/ \E s \in Stores, reset, verify \in BOOLEAN : RunScript(s, reset, verify)
    \/ \E reset \in BOOLEAN :
        \/ RunAll(<<"postgres", "milvus", "neo4j">>, reset)
        \/ \E s \in Stores : RunAll(<<s>>, reset)

-----------------------------------------------------------------------------
Usable(s) ==
    CASE s = "postgres" -> tables
      [] s = "milvus" -> Loads
      [] s = "neo4j" -> schema = 1..Statements

\* A script that returned 0, and init_all when it does, left stores that the
\* application can use, however often they were interrupted, failed or reset
\* before: the tables are there, the collection loads, and every constraint
\* and index of the graph is made.  (The 0 of a --reset that was given up in
\* its three seconds promises nothing and is not meant.)
SuccessMeansUsable == \A s \in done : Usable(s)
=============================================================================
