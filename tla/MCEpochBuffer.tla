---- MODULE MCEpochBuffer ----
EXTENDS EpochBuffer

\* A commit of epoch 0, and a message of each of the epochs 0 and 1.
MCItems   == 1..3
MCCommits == {1}
MCEpoch   == <<0, 0, 1>>
====
