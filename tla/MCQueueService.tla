--------------------------- MODULE MCQueueService ----------------------------
EXTENDS QueueService

CONSTANTS j1, j2, j3, mail, report

ThreeJobs == {j1, j2, j3}
TwoNames  == {mail, report}

MCNameOf      == [j \in Jobs |-> IF j = j3 THEN report ELSE mail]
MCAttempts    == [j \in Jobs |-> IF j = j1 THEN 2 ELSE 1]
MCConcurrency == [n \in Names |-> IF n = mail THEN 1 ELSE 2]
==============================================================================
