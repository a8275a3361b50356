------------------------------ MODULE RpcQuorum -------------------------------
(***************************************************************************)
(* The agreement of RPC providers in src/railgun/rpc-quorum.ts: operators  *)
(* over one round of answers.  A provider that does not answer in time     *)
(* answers None.                                                           *)
(***************************************************************************)
EXTENDS Integers, FiniteSets

CONSTANTS
  Providers,
  None,        \* no answer
  MaxBlockLag  \* how far heights of one agreement may lie apart

ASSUME RpcAssumption ==
  IsFiniteSet(Providers) /\ Providers # {} /\ None \notin Int /\ MaxBlockLag \in Nat

\* Math.floor(length / 2) + 1
MajorityQuorum == Cardinality(Providers) \div 2 + 1

Given(answers) == {answers[p] : p \in Providers} \ {None}

\* The providers whose height is base or at most the lag above it.
Cluster(answers, base) ==
  {p \in Providers : answers[p] # None /\ base <= answers[p] /\ answers[p] - base <= MaxBlockLag}

Agreed(answers) ==
  {base \in Given(answers) : Cardinality(Cluster(answers, base)) >= MajorityQuorum}

\* consensusHeight: the lowest base a quorum is close above; none without one.
ConsensusHeight(answers) ==
  {base \in Agreed(answers) : \A other \in Agreed(answers) : base <= other}

Supporters(answers, v) == {p \in Providers : answers[p] = v}

\* Wrong variant: the answer most providers gave, however few they are.
MostFrequent(answers) ==
  {v \in Given(answers) :
     \A w \in Given(answers) :
       Cardinality(Supporters(answers, w)) <= Cardinality(Supporters(answers, v))}

\* consensusValue: what a quorum answers alike.  With a majority there is at most
\* one such answer.
ConsensusValue(answers) ==
  {v \in Given(answers) : Cardinality(Supporters(answers, v)) >= MajorityQuorum}
===============================================================================
