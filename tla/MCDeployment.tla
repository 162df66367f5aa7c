---------------------------- MODULE MCDeployment ----------------------------
\* Model-checking instance of a deployment.
EXTENDS Deployment

\* The classes of src/infrastructure, and ones with what is asked of them.
AsWrittenOrWhole ==
    {[awaitable |-> Clients \ {"milvus"}, closable |-> {"neo4j", "kafka"}],
     [awaitable |-> Clients, closable |-> Clients]}
=============================================================================
