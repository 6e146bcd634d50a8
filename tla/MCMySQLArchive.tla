---------------------------- MODULE MCMySQLArchive ----------------------------
EXTENDS MySQLArchive

CONSTANTS j1, j2

OneJob == {j1}
TwoJobs == {j1, j2}
===============================================================================
