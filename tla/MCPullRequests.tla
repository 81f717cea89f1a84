----------------------------- MODULE MCPullRequests -----------------------------
EXTENDS PullRequests, TLC
Symmetry == Permutations(Runs)
================================================================================
