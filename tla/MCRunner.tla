------------------------------- MODULE MCRunner -----------------------------
(* Instances of Runner for TLC.                                            *)
EXTENDS Runner

Rule(n, a, e) == [name |-> n, action |-> a, errno |-> e]

\* Two rules for one call, of which one has an errno that the mask cuts to 0, and a
\* rule that forbids the exec.
MCRules == {Rule("setuid", "trace", 0), Rule("setuid", "errno", 65536),
            Rule("execve", "kill", 0)}
=============================================================================
