-------------------------- MODULE MCRingExperiment ---------------------------
EXTENDS RingExperiment
CONSTANTS n1, n2, n3, twice, never, plain
MCCalls == Joins \cup {twice, never, plain}
MCDelayed == Joins
MCRetried == Joins \cup {twice, never}
MCLimit == [c \in MCCalls |-> CASE c = never -> 0 [] c = twice -> 2 [] OTHER -> Unlimited]
=============================================================================
