-------------------------- MODULE MCBufferService ---------------------------
\* Small instances of BufferService for TLC.
EXTENDS BufferService, TLC

CONSTANTS f1

\* One rule, both strategies possible, and a TTL the broker takes.
Plain == [directWeight |-> 1, queueWeight |-> 1,
          rules |-> (f1 :> [weight |-> 1, deadlineSec |-> 60])]

\* A deadline whose TTL is beyond what the broker accepts.
LongDeadline == [directWeight |-> 1, queueWeight |-> 0,
                 rules |-> (f1 :> [weight |-> 1, deadlineSec |-> 200])]

\* The fallback schedule of utils.py has no flavourRules; a status the
\* operator has not filled yet has nothing at all.
Fallback    == [directWeight |-> 80, queueWeight |-> 20, rules |-> <<>>]
EmptyStatus == [rules |-> <<>>]

BufferOnly == {[Plain EXCEPT !.directWeight = 0]}
Mixed      == {Plain, LongDeadline, Fallback, EmptyStatus}
NoFlags    == {}
PausedOnly == [consumptionEnabled : {FALSE}]
Symmetric  == Permutations(Req) \cup Permutations(Pods)
=============================================================================
