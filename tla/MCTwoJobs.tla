----------------------------- MODULE MCTwoJobs -----------------------------
EXTENDS TwoJobs
Off == <<"off">>
OnBoot == <<"on", "boot">>
MCAOnBoot == [i \in 0..(ANumTasks - 1) |-> OnBoot[i + 1]]
MCBOff == [i \in 0..(BNumTasks - 1) |-> Off[i + 1]]
=============================================================================
