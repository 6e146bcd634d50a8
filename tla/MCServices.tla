------------------------------ MODULE MCServices -------------------------------
EXTENDS Services

\* Two tasks of one key, and one of another beside them.
const_BackupTasks == {<<"a", 1>>, <<"a", 2>>, <<"b", 1>>}

const_ControlTasks == {<<"start", 1>>, <<"stop", 1>>, <<"stop", 2>>, <<"restart", 1>>}

\* Two replicas of a primary, two primaries for a replica, or a second task for
\* a pair.
const_ReplicationPlans ==
  {{<<"p", "r", 1>>, <<"p", "s", 1>>},
   {<<"p", "r", 1>>, <<"q", "r", 1>>},
   {<<"p", "r", 1>>, <<"p", "r", 2>>}}
const_ReplicationTasks == UNION const_ReplicationPlans

const_DatafileTasks == {<<"add", "f", 1>>, <<"resize", "f", 1>>, <<"resize", "f", 2>>}

\* Two packages share a folder.
const_Folder == <<1, 1, 2>>

\* A rule that waits, one that fires before it and one on the snapshot's age.
const_Rules ==
  <<[metric |-> "used", threshold |-> 1, duration |-> 2],
    [metric |-> "used", threshold |-> 2, duration |-> 1],
    [metric |-> "age", threshold |-> 1, duration |-> 0]>>
===============================================================================
