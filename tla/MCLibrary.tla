----------------------------- MODULE MCLibrary -----------------------------
EXTENDS Library

\* The second round knows one chip of the first with other numbers, contradicts
\* the other, and adds a third.
MCRounds ==
  { << Candidate(1, 1, 0, 3, 0), Candidate(2, 2, 1, 2, 1) >>,
    << Candidate(2, 1, 0, 4, 0), Candidate(1, 1, 1, 2, 0), Candidate(3, 2, 2, 1, 0) >> }
=============================================================================
