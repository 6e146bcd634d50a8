---------------------------- MODULE MCMySQLInstall ----------------------------
EXTENDS MySQLInstall, TLC

\* Directories are interchangeable, and so are ports: ids are given in the order
\* of the installations.
Symmetry == Permutations(Homes) \cup Permutations(Ports)
===============================================================================
