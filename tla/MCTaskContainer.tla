-------------------------- MODULE MCTaskContainer --------------------------
\* An instance of TaskContainer: two branches that join, as in PEXCertGenTask.
EXTENDS TaskContainer

BranchTasks == {"keygen", "ott", "sign", "store"}
BranchDeps == [t \in BranchTasks |->
                 CASE t = "sign"  -> {"keygen", "ott"}
                   [] t = "store" -> {"sign"}
                   [] OTHER       -> {}]
=============================================================================
