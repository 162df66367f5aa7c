------------------------------ MODULE Lifespan ------------------------------
(***************************************************************************)
(* The life of one application process: FastAPI's lifespan connects the    *)
(* clients in order, starts the services, serves, and closes what it made. *)
(* A start that fails, at whichever client or service, goes through the    *)
(* same closing.                                                           *)
(*                                                                         *)
(* init_clients awaits every connect() and close_clients every close(),    *)
(* which not all client classes have: MilvusClient.connect is not a        *)
(* coroutine, and MilvusClient and PostgresClient have disconnect() where  *)
(* close() is called.  `classes` says which do, so that the behaviour with *)
(* these classes and with ones that have both is covered.  The audit       *)
(* service, which starts last and stops first, is the module AuditBuffer.  *)
(***************************************************************************)
EXTENDS Naturals, Sequences

CONSTANTS
    Classes  \* the sets of client classes the application may run with

Clients == {"postgres", "milvus", "neo4j", "kafka"}

ASSUME LifespanAssumption ==
    Classes \subseteq [awaitable : SUBSET Clients, closable : SUBSET Clients]

VARIABLES
    at,       \* "down", "connecting", "serving", "closing" or "closed"
    step,     \* the next client to connect or to close
    made,     \* the module's client objects that are not None
    holds,    \* the clients whose object holds a connection (is_connected)
    open,     \* the clients with a connection that is open
    classes

lifeVars == <<at, step, made, holds, open, classes>>

ConnectOrder == <<"postgres", "milvus", "neo4j", "kafka">>
CloseOrder == <<"kafka", "neo4j", "milvus", "postgres">>

LifeInit ==
    /\ at = "down" /\ step = 1
    /\ made = {} /\ holds = {} /\ open = {}
    /\ classes \in Classes

Start ==
    /\ at = "down" /\ at' = "connecting"
    /\ UNCHANGED <<step, made, holds, open, classes>>

Client == ConnectOrder[step]
Connecting(c) == at = "connecting" /\ step <= Len(ConnectOrder) /\ Client = c
                    /\ made' = made \union {c}

\* Wrong: the clients are connected again.
GivesUpRetries == step' = 1 /\ UNCHANGED at

\* The error is raised again, and lifespan closes what there is.
GivesUp == at' = "closing" /\ step' = 1

\* Awaiting what is no coroutine raises when the call itself is done.
Connected(c) ==
    /\ holds' = holds \union {c} /\ open' = open \union {c}
    /\ IF c \in classes.awaitable
       THEN step' = step + 1 /\ UNCHANGED at
       ELSE GivesUp

\* The pool is assigned only when it has been made.
ConnectPostgres ==
    /\ Connecting("postgres")
    /\ Connected("postgres") \/ (GivesUp /\ UNCHANGED <<holds, open>>)
    /\ UNCHANGED classes

\* Without the collection the connection is closed again; when loading raises
\* it stays, and the client does not count as connected.
ConnectMilvus(loads) ==
    /\ Connecting("milvus")
    /\ \/ loads /\ Connected("milvus")
       \/ GivesUp /\ UNCHANGED <<holds, open>>
       \/ GivesUp /\ open' = open \union {"milvus"} /\ UNCHANGED holds
    /\ UNCHANGED classes

\* The driver and the producer are assigned before they are first used, so
\* that close() finds them though that use failed.
DriverHeld(c) == open' = open \union {c} /\ GivesUp /\ holds' = holds \union {c}

ConnectNetwork(c) ==
    /\ Connecting(c) /\ c \in {"neo4j", "kafka"}
    /\ Connected(c) \/ DriverHeld(c)
    /\ UNCHANGED classes

\* The embedding service and the services are made, or one of them raises.
InitServices ==
    /\ at = "connecting" /\ step > Len(ConnectOrder)
    /\ (at' = "serving" /\ UNCHANGED step) \/ GivesUp
    /\ UNCHANGED <<made, holds, open, classes>>

Shutdown ==
    /\ at = "serving" /\ at' = "closing" /\ step' = 1
    /\ UNCHANGED <<made, holds, open, classes>>

\* Each client is closed in a try of its own.
CloseFails == step' = step + 1 /\ UNCHANGED at

\* A client that holds nothing has nothing to close.
Closes(c) ==
    /\ open' = IF c \in holds THEN open \ {c} ELSE open
    /\ holds' = holds \ {c}

CloseNext ==
    /\ at = "closing" /\ step <= Len(CloseOrder)
    /\ LET c == CloseOrder[step]
       IN  \/ /\ c \in made /\ c \in classes.closable
              /\ Closes(c)
              /\ step' = step + 1 /\ UNCHANGED at
           \/ /\ c \in made /\ c \in holds /\ c \in classes.closable
              /\ CloseFails /\ UNCHANGED <<holds, open>>
           \/ /\ c \in made /\ c \notin classes.closable  \* AttributeError
              /\ CloseFails /\ UNCHANGED <<holds, open>>
           \/ /\ c \notin made
              /\ step' = step + 1 /\ UNCHANGED <<at, holds, open>>
    /\ UNCHANGED <<made, classes>>

Closed ==
    /\ at = "closing" /\ step > Len(CloseOrder)
    /\ at' = "closed" /\ UNCHANGED <<step, made, holds, open, classes>>

\* The process ends, after the lifespan or killed: what it held goes with it.
Ends ==
    /\ at # "down" /\ at' = "down" /\ step' = 1
    /\ made' = {} /\ holds' = {} /\ open' = {}
    /\ UNCHANGED classes

LifeStep(loads) ==
    \/ ConnectPostgres \/ ConnectMilvus(loads) \/ (\E c \in Clients : ConnectNetwork(c))
    \/ InitServices \/ CloseNext \/ Closed

-----------------------------------------------------------------------------
\* A start ends: in service, or closed again.  A closing ends.
LifespanEnds == (at \in {"connecting", "closing"}) ~> (at \in {"serving", "closed", "down"})
=============================================================================
