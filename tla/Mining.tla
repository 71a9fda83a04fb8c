------------------------------- MODULE Mining -------------------------------
(***************************************************************************)
(* Where candidates come from: the baseline analyzer mines a decision list *)
(* greedily (behavior/synthesize.go), an external analyzer's proposals are *)
(* recomputed one by one (behavior/exchange.go).  Both count on what the   *)
(* rules before left over; a rule takes every record its condition matches.*)
(* The tutorial then approves the rules nothing contradicted               *)
(* (tutorial/step4-distill/distill/distill.go, Mine).                      *)
(***************************************************************************)
EXTENDS Chips, FiniteSets

CONSTANTS
  Records,   \* the records of the corpus, by name
  MinCovs,   \* minimum coverages to consider
  MaxRules,  \* rules of a mined list (64)
  MaxProposals  \* bound: candidates an external analyzer writes

ASSUME MiningAssumption ==
  /\ IsFiniteSet(Records)
  /\ MinCovs \subseteq Nat \ {0}
  /\ MaxRules \in Nat /\ MaxProposals \in Nat

VARIABLES
  corpus,     \* per record: the features that held and the action taken
  analyzer,   \* who proposes: the covering miner or somebody outside
  minCov,     \* SequentialCovering.MinCoverage
  remaining,  \* the records no rule has taken
  list,       \* the candidates so far
  proposed,   \* candidates of the proposals file looked at
  phase,      \* mining, mined, or the library Mine returns
  approved    \* the rules Mine approved

MiningVars == << corpus, analyzer, minCov, remaining, list, proposed, phase, approved >>

MiningInit ==
  /\ corpus \in [ Records -> [ holds : SUBSET Features, act : Actions ] ]
  /\ analyzer \in { "covering", "external" }
  /\ minCov \in MinCovs
  /\ remaining = Records
  /\ list = << >>
  /\ proposed = 0
  /\ phase = "mining"
  /\ approved = {}

\* Mutant of Matched: rules count on the whole corpus.
MatchedAnywhere(f) == { r \in Records : f \in corpus[r].holds }

\* What a rule finds at its place in the list.
Matched(f) == { r \in remaining : f \in corpus[r].holds }

Correct(f, a) == Cardinality({ r \in Matched(f) : corpus[r].act = a })

Counter(f, a) == Cardinality({ r \in Matched(f) : corpus[r].act # a })

\* Mutant of Accept: the records it answers otherwise stay for later rules.
AcceptKeeping(f, a) ==
  /\ list' = Append(list, Candidate(f, a, Len(list), Correct(f, a), Counter(f, a)))
  /\ remaining' = { r \in remaining : r \notin Matched(f) \/ corpus[r].act # a }

\* The rule joins the list and takes all it matches.
Accept(f, a) ==
  /\ list' = Append(list, Candidate(f, a, Len(list), Correct(f, a), Counter(f, a)))
  /\ remaining' = remaining \ Matched(f)

Worthwhile == { p \in Features \X Actions : Correct(p[1], p[2]) >= minCov }

Clean(p) == Counter(p[1], p[2]) = 0

\* The order of Propose's scan: clean rules first, then those that cover more,
\* then those contradicted less, then the vocabulary's order.
Beats(p, q) ==
  LET cp == Correct(p[1], p[2])
      cq == Correct(q[1], q[2])
      xp == Counter(p[1], p[2])
      xq == Counter(q[1], q[2])
  IN  \/ Clean(p) /\ ~Clean(q)
      \/ /\ Clean(p) = Clean(q)
         /\ \/ cp > cq
            \/ cp = cq /\ xp < xq
            \/ cp = cq /\ xp = xq /\ (p[1] < q[1] \/ (p[1] = q[1] /\ p[2] < q[2]))

Best(p) == p \in Worthwhile /\ \A q \in Worthwhile \ {p} : Beats(p, q)

\* One round of the covering miner.
MineRule ==
  /\ phase = "mining" /\ analyzer = "covering"
  /\ remaining # {} /\ Len(list) < MaxRules
  /\ \E p \in Worthwhile : Best(p) /\ Accept(p[1], p[2])
  /\ UNCHANGED << corpus, analyzer, minCov, proposed, phase, approved >>

MinerEnds ==
  /\ phase = "mining" /\ analyzer = "covering"
  /\ remaining = {} \/ Len(list) >= MaxRules \/ Worthwhile = {}
  /\ phase' = "mined"
  /\ UNCHANGED << corpus, analyzer, minCov, remaining, list, proposed, approved >>

\* One candidate of a proposals file: dropped when the vocabulary does not have
\* it or no record left supports it, and then it takes nothing.
Validate(f, a) ==
  /\ phase = "mining" /\ analyzer = "external"
  /\ proposed < MaxProposals
  /\ proposed' = proposed + 1
  /\ IF f \in Features /\ a \in Actions /\ Correct(f, a) > 0
       THEN Accept(f, a)
       ELSE UNCHANGED << list, remaining >>
  /\ UNCHANGED << corpus, analyzer, minCov, phase, approved >>

ProposalsEnd ==
  /\ phase = "mining" /\ analyzer = "external"
  /\ phase' = "mined"
  /\ UNCHANGED << corpus, analyzer, minCov, remaining, list, proposed, approved >>

\* Mine: a corpus the list does not cover is an error; else the rules without
\* counterexamples are approved.
ApproveClean ==
  /\ phase = "mined" /\ analyzer = "covering"
  /\ IF remaining = {}
       THEN /\ phase' = "approved"
            /\ approved' = { i \in DOMAIN list : list[i].ctr = 0 }
       ELSE /\ phase' = "failed"
            /\ UNCHANGED approved
  /\ UNCHANGED << corpus, analyzer, minCov, remaining, list, proposed >>

MiningNext ==
  \/ MineRule \/ MinerEnds
  \/ \E f \in Features \cup {0}, a \in Actions \cup {0} : Validate(f, a)
  \/ ProposalsEnd
  \/ ApproveClean

MiningSpec == MiningInit /\ [][MiningNext]_MiningVars

-----------------------------------------------------------------------------

\* The records chip i answers when the chips in compiled are compiled.
Played(compiled, i) ==
  { r \in Records : Answers(list, compiled, i, corpus[r].holds) }

PlayedAsRecorded(compiled, i) ==
  { r \in Played(compiled, i) : corpus[r].act = list[i].act }

\* The numbers counted along the way on a shrinking pool are those of the whole
\* list replayed over the whole corpus (Evaluate): every rule is reported as
\* right and as wrong as it plays, and what no rule took is what the policy is
\* silent on.
ClaimsHold ==
  /\ \A i \in DOMAIN list :
       /\ list[i].cov = Cardinality(PlayedAsRecorded(DOMAIN list, i))
       /\ list[i].ctr = Cardinality(Played(DOMAIN list, i) \ PlayedAsRecorded(DOMAIN list, i))
  /\ remaining = { r \in Records : Silent(list, DOMAIN list, corpus[r].holds) }

\* A developer approves some of the rules.  Whichever they are, each plays at
\* least as many training records as recorded as its coverage says: the coverage
\* shown next to a chip, and the sum Covered reports, never overstate.
SubsetKeepsCoverage ==
  \A A \in SUBSET DOMAIN list : \A i \in A :
    Cardinality(PlayedAsRecorded(A, i)) >= list[i].cov

\* What a round hands to Merge: at most one rule per condition, numbered in
\* order, each supported.
RoundIsDistinct ==
  /\ \A i, j \in DOMAIN list : i # j => list[i].cond # list[j].cond
  /\ \A i \in DOMAIN list : list[i].prio = i - 1 /\ list[i].cov > 0

=============================================================================
