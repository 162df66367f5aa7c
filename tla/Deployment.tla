----------------------------- MODULE Deployment -----------------------------
(***************************************************************************)
(* A deployment: the set-up scripts and the application, by turns.  They   *)
(* meet in Milvus: the application does not start without a collection it  *)
(* can load, which is what init_milvus is to leave.  Of the tables and the *)
(* graph's constraints the application does not make sure.                 *)
(***************************************************************************)
EXTENDS SetUp, Lifespan

vars == <<setUpVars, lifeVars>>

Init == SetUpInit /\ LifeInit

NothingRuns == at = "down" /\ script = NoScript /\ ~queue.running

Operate ==
    /\ at = "down"
    /\ Operator /\ UNCHANGED lifeVars

Script == ScriptStep /\ UNCHANGED lifeVars

\* Set up or not: nothing keeps an operator from trying.
StartApplication == NothingRuns /\ Start /\ UNCHANGED setUpVars

Life == LifeStep(Loads) /\ UNCHANGED setUpVars
Stop == (Shutdown \/ Ends) /\ UNCHANGED setUpVars

Next == Operate \/ Script \/ StartApplication \/ Life \/ Stop

\* A process that runs proceeds: its calls return or raise.
Spec == Init /\ [][Next]_vars /\ WF_vars(Life)

=============================================================================
