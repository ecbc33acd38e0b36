-------------------------- MODULE ChainState_proofs --------------------------
(***************************************************************************)
(* Proofs about ChainState, for every block tree.                          *)
(*                                                                         *)
(* The argument.  What is on disk agrees with memory but for the entries   *)
(* that are dirty (DiskAgrees), and its coins never lie beside the active  *)
(* chain (CoinsNear), so that no flag that reaches the disk can hit a      *)
(* block whose coins are there (NoFailedOnDisk).  The candidates are never *)
(* worse than the tip (CandidatesGood), and a block that is missing from   *)
(* them has a better one in them that is clean and breaks no rule          *)
(* (Covered): the old tip of a reorganisation is one.  So when the best    *)
(* candidate is the tip, nothing better is left (Settled).                 *)
(***************************************************************************)
EXTENDS ChainState, FiniteSetTheorems, NaturalsInduction, WellFoundedInduction, TLAPS

JobShape ==
    /\ job.op # "reprocess" /\ locked = {}
    /\ job.op = "free" => job = Free
    /\ job.op = "find" => job.stage = "run"
    /\ job.op \in {"find", "activate"} => want
    /\ job.op = "invalidate" => job.target # Genesis /\ job.target \in failedValid
    /\ job.op = "activate" /\ job.stage = "run" => tip # job.target

\* The coins have been moved back from the tip, or ahead of it.
Back == tip # Genesis /\ coins = Parent[tip]
Ahead == coins # Genesis /\ Parent[coins] = tip

CoinsNear ==
    /\ coins = tip \/ Back \/ Ahead
    /\ job.op \in {"free", "find", "flush"} => coins = tip
    /\ job.stage = "run" /\ job.op # "abort" => coins = tip
    /\ job.op = "invalidate" => coins = tip \/ Back
    /\ job.op = "activate" => coins = tip \/ Back \/ coins \in chain[job.target]
    /\ disk.coins \in chain[tip] \/ (job.op = "abort" /\ disk.coins = coins)

\* What was connected had its data and broke no rule.
ActiveValid ==
    /\ chain[tip] \subseteq data /\ chain[coins] \subseteq data
    /\ chain[disk.coins] \subseteq disk.data
    /\ chain[tip] \cap invalid = {} /\ chain[coins] \cap invalid = {}
    /\ chain[disk.coins] \cap invalid = {}

\* InvalidateBlock alone finds failed blocks in the active chain.
MayFail(c) == job.op = "invalidate" /\ job.target \in chain[c]

NoFailedInChain == \A c \in chain[tip] \cup chain[coins] : Failed(c) => MayFail(c)

NoFailedOnDisk ==
    \A c \in chain[disk.coins] : c \in disk.failedValid \cup disk.failedChild => MayFail(c)

\* The flags FindMostWorkChain sets are the only ones that are not written.
DiskAgrees ==
    /\ disk.data \subseteq disk.index
    /\ disk.failedValid \subseteq disk.index /\ disk.failedChild \subseteq disk.index
    /\ \A b \in Block \ dirty :
          /\ b \in disk.index <=> b \in index
          /\ b \in disk.data <=> b \in data
          /\ b \in disk.failedValid <=> b \in failedValid
          /\ b \in disk.failedChild => b \in failedChild
    /\ job.stage = "coins" => dirty = {}

\* An ancestor that reconsiderblock forgot has its data: its place in the order
\* of the candidates does not change.
ForgottenLinked == \A f \in forgotten : f \in Block /\ Linked(f)

CandidatesGood == \A c \in cand : Linked(c) /\ ~Worse(c, tip)

\* A candidate that cannot fail.
Sound(c) == c \in cand /\ Clean(c) /\ chain[c] \cap invalid = {}

Covered ==
    job.op \notin {"invalidate", "abort"} =>
        \A b \in Block : Linked(b) /\ Kept(b) /\ ~Failed(b) /\ ~Worse(b, tip) =>
            b \in cand \/ \E c \in Block : Sound(c) /\ Worse(b, c)

TargetBest ==
    job.op = "activate" =>
        /\ job.target \in cand /\ Clean(job.target)
        /\ \A c \in cand : ~Worse(job.target, c)

Settled ==
    ~want /\ job.op \in {"free", "flush"} =>
        /\ Kept(tip) => tip \in cand
        /\ \A b \in Block : Linked(b) /\ Kept(b) /\ Clean(b) => ~Worse(tip, b)

\* No sequence number is higher than the number of blocks that got one.
LinkedBlocks == {c \in Block : Linked(c)}
SeqIdsLow == \A b \in Block : seqId[b] <= Cardinality(LinkedBlocks)

IndInv ==
    /\ TypeOK
    /\ JobShape
    /\ CoinsNear
    /\ ActiveValid
    /\ NoFailedInChain
    /\ NoFailedOnDisk
    /\ DiskAgrees
    /\ ForgottenLinked
    /\ CandidatesGood
    /\ Covered
    /\ TargetBest
    /\ Settled
    /\ SeqIdsLow

-----------------------------------------------------------------------------
(* The block tree.                                                         *)

\* Every non-empty set of numbers has a smallest element.
LEMMA LeastNat ==
    ASSUME NEW T \in SUBSET Nat, T # {}
    PROVE  \E m \in T : \A n \in T : m <= n
  <1>1. \E R : IsWellFoundedOn(R, Nat) /\ \A x, y \in Nat : x < y => <<x, y>> \in R
    <2>1. \A x, y \in Nat : x < y => <<x, y>> \in OpToRel(<, Nat)
      BY DEF OpToRel
    <2> QED BY <2>1, NatLessThanWellFounded
  <1>2. PICK R : IsWellFoundedOn(R, Nat) /\ \A x, y \in Nat : x < y => <<x, y>> \in R
    BY <1>1
  <1>3. PICK m \in T : \A n \in T : ~(<<n, m>> \in R)
    <2>1. IsWellFoundedOn(R, Nat) /\ T \subseteq Nat /\ T # {}
      BY <1>2
    <2> QED BY <2>1, WFMin
  <1>4. \A n \in T : ~(n < m)
    BY <1>2, <1>3
  <1>5. \A n \in T : m <= n
    BY <1>4
  <1> QED BY <1>5

\* The sets of blocks that are closed under Parent, and the least of them
\* that holds b: the ancestors without recursion.
Closed == {S \in SUBSET Block : \A d \in S \ {Genesis} : Parent[d] \in S}
Ancestors == [b \in Block |-> {c \in Block : \A S \in Closed : b \in S => c \in S}]

LEMMA AncestorsEquation ==
    Ancestors = [b \in Block |->
                    IF b = Genesis THEN {b} ELSE {b} \cup Ancestors[Parent[b]]]
  <1>1. ASSUME NEW b \in Block, b = Genesis PROVE Ancestors[b] = {b}
    <2>1. {Genesis} \in Closed
      BY ChainAssumption DEF Closed
    <2> QED BY <1>1, <2>1 DEF Ancestors
  <1>2. ASSUME NEW b \in Block, b # Genesis
        PROVE  Ancestors[b] = {b} \cup Ancestors[Parent[b]]
    <2>0. Parent[b] \in Block
      BY <1>2, ChainAssumption
    <2>1. ASSUME NEW c \in Ancestors[b], c # b PROVE c \in Ancestors[Parent[b]]
      <3>1. ASSUME NEW S \in Closed, Parent[b] \in S PROVE c \in S
        <4>1. S \cup {b} \in Closed
          BY <3>1, ChainAssumption DEF Closed
        <4> QED BY <2>1, <4>1 DEF Ancestors
      <3> QED BY <2>0, <3>1 DEF Ancestors
    <2>2. ASSUME NEW c \in Ancestors[Parent[b]] PROVE c \in Ancestors[b]
      <3>1. ASSUME NEW S \in Closed, b \in S PROVE c \in S
        BY <1>2, <2>0, <2>2, <3>1 DEF Closed, Ancestors
      <3> QED BY <2>0, <3>1 DEF Ancestors
    <2>3. b \in Ancestors[b]
      BY DEF Ancestors
    <2> QED BY <2>1, <2>2, <2>3
  <1>3. \A b \in Block : Ancestors[b]
           = IF b = Genesis THEN {b} ELSE {b} \cup Ancestors[Parent[b]]
    BY <1>1, <1>2
  <1> QED BY <1>3 DEF Ancestors

\* The recursive function exists: Ancestors is one that satisfies it.
LEMMA ChainEquation ==
    chain = [b \in Block |-> IF b = Genesis THEN {b} ELSE {b} \cup chain[Parent[b]]]
  <1>1. \E f : f = [b \in Block |-> IF b = Genesis THEN {b} ELSE {b} \cup f[Parent[b]]]
    BY AncestorsEquation
  <1> QED BY <1>1 DEF chain

\* It is the only one, since a parent has less work.
LEMMA ChainIsAncestors == \A b \in Block : chain[b] = Ancestors[b]
  <1> DEFINE bad == {b \in Block : chain[b] # Ancestors[b]}
             T == {Work[b] : b \in bad}
  <1> SUFFICES ASSUME bad # {} PROVE FALSE
    OBVIOUS
  <1>1. T \in SUBSET Nat /\ T # {}
    BY ChainAssumption
  <1>2. PICK m \in T : \A n \in T : m <= n
    BY <1>1, LeastNat
  <1>3. PICK b \in bad : m = Work[b]
    OBVIOUS
  <1>4. b # Genesis
    BY ChainEquation, AncestorsEquation
  <1>5. Parent[b] \in Block /\ Work[Parent[b]] < Work[b] /\ Work[b] \in Nat /\ Work[Parent[b]] \in Nat
    BY <1>4, ChainAssumption
  <1>6. Parent[b] \notin bad
    BY <1>2, <1>3, <1>5
  <1>7. chain[b] = {b} \cup chain[Parent[b]] /\ Ancestors[b] = {b} \cup Ancestors[Parent[b]]
    BY <1>4, ChainEquation, AncestorsEquation
  <1> QED BY <1>5, <1>6, <1>7

\* A block is in its chain, which is closed under Parent; a set that is closed
\* and holds b holds b's chain.
LEMMA ChainBasic ==
    /\ \A b \in Block : b \in chain[b] /\ chain[b] \in SUBSET Block
    /\ chain[Genesis] = {Genesis}
    /\ \A b \in Block \ {Genesis} : Parent[b] \in Block /\ chain[b] = {b} \cup chain[Parent[b]]
    /\ \A b \in Block, S \in Closed : b \in S => chain[b] \subseteq S
    /\ \A b \in Block : chain[b] \in Closed
  <1>1. \A b \in Block : b \in chain[b] /\ chain[b] \in SUBSET Block
    BY ChainIsAncestors DEF Ancestors
  <1>2. /\ chain[Genesis] = {Genesis}
        /\ \A b \in Block \ {Genesis} : Parent[b] \in Block /\ chain[b] = {b} \cup chain[Parent[b]]
    BY ChainEquation, ChainAssumption
  <1>3. \A b \in Block, S \in Closed : b \in S => chain[b] \subseteq S
    BY ChainIsAncestors DEF Ancestors
  <1>4. ASSUME NEW b \in Block PROVE chain[b] \in Closed
    <2>1. ASSUME NEW d \in chain[b], d # Genesis, NEW S \in Closed, b \in S
          PROVE  Parent[d] \in S
      BY <1>3, <2>1 DEF Closed
    <2>2. ASSUME NEW d \in chain[b], d # Genesis PROVE Parent[d] \in chain[b]
      BY <1>1, <1>2, <2>1, <2>2, ChainIsAncestors DEF Ancestors
    <2> QED BY <1>1, <2>2 DEF Closed
  <1> QED BY <1>1, <1>2, <1>3, <1>4

\* The chain of an ancestor is part of the chain.
LEMMA ChainTransitive ==
    ASSUME NEW b \in Block, NEW c \in chain[b]
    PROVE  c \in Block /\ chain[c] \subseteq chain[b]
  BY ChainBasic

\* Ancestors have less work.
LEMMA ChainWork ==
    ASSUME NEW b \in Block, NEW c \in chain[b], c # b
    PROVE  Work[c] < Work[b]
  <1> DEFINE S == {d \in Block : d = b \/ Work[d] < Work[b]}
  <1>1. S \in Closed
    BY ChainAssumption DEF Closed
  <1>2. chain[b] \subseteq S
    BY <1>1, ChainBasic
  <1> QED BY <1>2

\* Every chain begins with the genesis block.
LEMMA GenesisInChain ==
    ASSUME NEW b \in Block
    PROVE  Genesis \in chain[b]
  <1> DEFINE T == {Work[c] : c \in chain[b]}
  <1>1. T \in SUBSET Nat /\ T # {}
    BY ChainBasic, ChainAssumption
  <1>2. PICK m \in T : \A n \in T : m <= n
    BY <1>1, LeastNat
  <1>3. PICK c \in chain[b] : m = Work[c]
    OBVIOUS
  <1>4. ASSUME c # Genesis PROVE FALSE
    <2>1. c \in Block /\ Parent[c] \in chain[b] /\ Parent[c] \in Block
      BY <1>4, ChainBasic DEF Closed
    <2>2. Work[Parent[c]] < Work[c] /\ Work[c] \in Nat /\ Work[Parent[c]] \in Nat
      BY <1>4, <2>1, ChainAssumption
    <2> QED BY <1>2, <1>3, <2>1, <2>2
  <1> QED BY <1>4

\* Two blocks of a chain lie on a line.
LEMMA ChainLinear ==
    ASSUME NEW b \in Block, NEW c \in chain[b], NEW d \in chain[b]
    PROVE  c \in chain[d] \/ d \in chain[c]
  <1> DEFINE S == {x \in chain[b] : \A y \in chain[b] : x \in chain[y] \/ y \in chain[x]}
  <1>1. b \in S
    BY ChainBasic
  <1>2. ASSUME NEW x \in S, x # Genesis PROVE Parent[x] \in S
    <2>1. x \in Block /\ Parent[x] \in chain[b] /\ chain[x] = {x} \cup chain[Parent[x]]
      BY <1>2, ChainBasic DEF Closed
    <2>2. ASSUME NEW y \in chain[b] PROVE Parent[x] \in chain[y] \/ y \in chain[Parent[x]]
      <3>1. CASE x \in chain[y]
        BY <1>2, <3>1, ChainBasic DEF Closed
      <3>2. CASE y \in chain[x] /\ y # x
        BY <2>1, <3>2
      <3>3. CASE y = x
        BY <1>2, <3>3, ChainBasic DEF Closed
      <3> QED BY <3>1, <3>2, <3>3
    <2> QED BY <2>1, <2>2
  <1>3. S \in Closed
    BY <1>2, ChainBasic DEF Closed
  <1>4. chain[b] \subseteq S
    BY <1>1, <1>3, ChainBasic
  <1> QED BY <1>4

\* Below a block of a chain that is not its last there is the next one.
LEMMA ChainNext ==
    ASSUME NEW b \in Block, NEW a \in chain[b], a # b
    PROVE  \E c \in chain[b] : c # Genesis /\ Parent[c] = a
  <1> DEFINE S == {d \in chain[b] : d = b \/ \E c \in chain[b] : c # Genesis /\ Parent[c] = d}
  <1>1. S \in Closed
    BY ChainBasic DEF Closed
  <1>2. b \in S
    BY ChainBasic
  <1> QED BY <1>1, <1>2, ChainBasic

-----------------------------------------------------------------------------
(* The order of the candidates.                                            *)

\* CBlockIndexWorkComparator is a strict total order.
LEMMA WorseOrder ==
    ASSUME NEW ids \in [Block -> Nat]
    PROVE  /\ \A a \in Block : ~WorseWith(ids, a, a)
           /\ \A a, b \in Block : WorseWith(ids, a, b) => ~WorseWith(ids, b, a)
           /\ \A a, b, c \in Block :
                 WorseWith(ids, a, b) /\ WorseWith(ids, b, c) => WorseWith(ids, a, c)
           /\ \A a, b \in Block : a = b \/ WorseWith(ids, a, b) \/ WorseWith(ids, b, a)
           /\ \A a, b \in Block : Work[a] < Work[b] => WorseWith(ids, a, b)
           /\ \A a, b \in Block : ~WorseWith(ids, a, b) => Work[b] <= Work[a]
  <1>1. \A a \in Block : Work[a] \in Nat /\ ids[a] \in Nat /\ Address[a] \in Nat
    BY ChainAssumption
  <1>2. \A a, b \in Block : Address[a] = Address[b] => a = b
    BY ChainAssumption
  <1>3. \A a, b, c \in Block :
           WorseWith(ids, a, b) /\ WorseWith(ids, b, c) => WorseWith(ids, a, c)
    BY <1>1 DEF WorseWith
  <1>4. \A a, b \in Block : a = b \/ WorseWith(ids, a, b) \/ WorseWith(ids, b, a)
    BY <1>1, <1>2 DEF WorseWith
  <1>5. /\ \A a \in Block : ~WorseWith(ids, a, a)
        /\ \A a, b \in Block : WorseWith(ids, a, b) => ~WorseWith(ids, b, a)
        /\ \A a, b \in Block : Work[a] < Work[b] => WorseWith(ids, a, b)
        /\ \A a, b \in Block : ~WorseWith(ids, a, b) => Work[b] <= Work[a]
    BY <1>1 DEF WorseWith
  <1> QED BY <1>3, <1>4, <1>5

\* A set of candidates that is not empty has a last element.
LEMMA LastExists ==
    ASSUME NEW ids \in [Block -> Nat], NEW s \in SUBSET Block, s # {}
    PROVE  \E b \in s : \A c \in s : ~WorseWith(ids, b, c)
  <1> DEFINE over(b) == {c \in s : WorseWith(ids, b, c)}
             T == {Cardinality(over(b)) : b \in s}
  <1>1. ASSUME NEW b \in s
        PROVE  IsFiniteSet(over(b)) /\ Cardinality(over(b)) \in Nat
    <2>1. over(b) \in SUBSET Block
      OBVIOUS
    <2> HIDE DEF over
    <2> QED BY <2>1, ChainAssumption, FS_Subset, FS_CardinalityType
  <1>2. T \in SUBSET Nat /\ T # {}
    <2> HIDE DEF over
    <2> QED BY <1>1
  <1>3. PICK m \in T : \A n \in T : m <= n
    BY <1>2, LeastNat
  <1>4. PICK b \in s : m = Cardinality(over(b))
    OBVIOUS
  <1>5. ASSUME NEW c \in s, WorseWith(ids, b, c) PROVE FALSE
    <2>1. over(c) \in SUBSET over(b) /\ c \in over(b) /\ c \notin over(c)
      BY <1>5, WorseOrder
    <2> HIDE DEF over
    <2>2. /\ Cardinality(over(c)) <= Cardinality(over(b))
          /\ Cardinality(over(c)) # Cardinality(over(b))
      BY <1>1, <2>1, FS_Subset
    <2>3. m <= Cardinality(over(c))
      BY <1>3
    <2> QED BY <1>1, <1>4, <2>2, <2>3
  <1> QED BY <1>5

\* So the best candidate is one.
LEMMA BestIsBest ==
    ASSUME seqId \in [Block -> Nat], NEW s \in SUBSET Block, s # {}
    PROVE  Best(s) \in s /\ \A c \in s : ~Worse(Best(s), c)
  <1>1. \E b \in s : \A c \in s : ~Worse(b, c)
    BY LastExists DEF Worse
  <1> QED BY <1>1 DEF Best

\* A set of blocks that is not empty has one with most work.
LEMMA MostWork ==
    ASSUME NEW s \in SUBSET Block, s # {}
    PROVE  \E b \in s : \A c \in s : Work[c] <= Work[b]
  <1> DEFINE ids == [b \in Block |-> 0]
  <1>1. ids \in [Block -> Nat]
    OBVIOUS
  <1> HIDE DEF ids
  <1>2. PICK b \in s : \A c \in s : ~WorseWith(ids, b, c)
    BY <1>1, LastExists
  <1>3. \A c \in s : Work[c] <= Work[b]
    BY <1>1, <1>2, WorseOrder
  <1> QED BY <1>3

-----------------------------------------------------------------------------
(* The induction, action by action.                                        *)

\* What the type invariant says of single values.
LEMMA Facts ==
    ASSUME TypeOK
    PROVE  /\ seqId \in [Block -> Nat] /\ LoadedIds \in [Block -> Nat]
           /\ index \subseteq Block /\ data \subseteq Block /\ cand \subseteq Block
           /\ failedValid \subseteq Block /\ failedChild \subseteq Block /\ dirty \subseteq Block
           /\ tip \in Block /\ coins \in Block /\ disk.coins \in Block
           /\ job.target \in Block /\ job.old \in Block
           /\ job.op \in {"free", "find", "activate", "invalidate", "reprocess", "flush", "abort"}
           /\ job.stage \in {"run", "index", "coins"}
           /\ Cardinality(Block) \in Nat
  <1>1. Cardinality(Block) \in Nat
    BY ChainAssumption, FS_CardinalityType
  <1>2. seqId \in [Block -> Nat] /\ LoadedIds \in [Block -> Nat]
    BY <1>1 DEF TypeOK, LoadedIds
  <1>3. disk.coins \in Block
    BY DEF TypeOK, Disk
  <1>4. /\ job.target \in Block /\ job.old \in Block
        /\ job.op \in {"free", "find", "activate", "invalidate", "reprocess", "flush", "abort"}
        /\ job.stage \in {"run", "index", "coins"}
    BY DEF TypeOK, Job
  <1> QED BY <1>1, <1>2, <1>3, <1>4 DEF TypeOK

LEMMA FreeJob ==
    /\ Free \in Job /\ Free.op = "free" /\ Free.stage = "run"
    /\ LET j == [Free EXCEPT !.op = "find"]
       IN  j \in Job /\ j.op = "find" /\ j.stage = "run"
  BY ChainAssumption DEF Free, Job

LEMMA StageJob ==
    ASSUME job \in Job, NEW s \in {"run", "index", "coins"}
    PROVE  LET j == [job EXCEPT !.stage = s]
           IN  /\ j \in Job /\ j.op = job.op /\ j.target = job.target /\ j.old = job.old
               /\ j.stage = s
  BY DEF Job

\* A header without data.
LEMMA AcceptBlockHeaderInv ==
    ASSUME IndInv, NEW b \in Block \ {Genesis}, AcceptBlockHeader(b)
    PROVE  IndInv'
  <1> USE DEF IndInv
  <1>0. /\ job = Free /\ b \notin index
        /\ index' = index \cup {b} /\ dirty' = dirty \cup {b}
        /\ UNCHANGED <<data, failedValid, failedChild, seqId, cand, tip, coins, disk,
                       job, want, invalid, locked, rejected, forgotten, uses, restarts>>
    BY DEF AcceptBlockHeader, history
  <1>1. TypeOK'
    BY <1>0 DEF TypeOK
  <1>2. JobShape' /\ CoinsNear' /\ ActiveValid' /\ NoFailedInChain' /\ NoFailedOnDisk'
    BY <1>0 DEF JobShape, CoinsNear, Back, Ahead, ActiveValid, NoFailedInChain, NoFailedOnDisk,
                MayFail, Failed
  <1>3. DiskAgrees' /\ ForgottenLinked'
    BY <1>0, FreeJob DEF DiskAgrees, ForgottenLinked, Linked
  <1>4. CandidatesGood' /\ Covered' /\ TargetBest' /\ Settled' /\ SeqIdsLow'
    BY <1>0 DEF CandidatesGood, Covered, TargetBest, Settled, SeqIdsLow, LinkedBlocks,
                Linked, Worse, Sound, Clean, Kept, Failed
  <1> QED BY <1>1, <1>2, <1>3, <1>4

\* A block that is refused: it breaks a rule, so that no sound candidate and no
\* active block descends from it.
LEMMA AcceptBlockRefusesInv ==
    ASSUME IndInv, NEW b \in Block \ {Genesis}, AcceptBlockRefuses(b)
    PROVE  IndInv'
  <1> USE DEF IndInv
  <1>0. /\ job = Free /\ b \in invalid /\ b \notin data
        /\ index' = index \cup {b} /\ dirty' = dirty \cup {b}
        /\ failedValid' = failedValid \cup {b}
        /\ UNCHANGED <<data, failedChild, seqId, cand, tip, coins, disk,
                       job, want, invalid, locked, rejected, forgotten, uses, restarts>>
    BY DEF AcceptBlockRefuses, history
  <1>1. TypeOK'
    BY <1>0 DEF TypeOK
  <1>2. JobShape' /\ CoinsNear' /\ ActiveValid'
    BY <1>0, FreeJob DEF JobShape, CoinsNear, Back, Ahead, ActiveValid
  <1>3. NoFailedInChain' /\ NoFailedOnDisk'
    BY <1>0 DEF NoFailedInChain, NoFailedOnDisk, ActiveValid, MayFail, Failed
  <1>4. DiskAgrees' /\ ForgottenLinked'
    BY <1>0, FreeJob DEF DiskAgrees, ForgottenLinked, Linked
  <1>5. CandidatesGood' /\ TargetBest' /\ SeqIdsLow'
    BY <1>0, FreeJob DEF CandidatesGood, TargetBest, SeqIdsLow, LinkedBlocks, Linked, Worse
  <1>6. ASSUME NEW c \in Block, Sound(c) PROVE Sound(c)'
    BY <1>0, <1>6 DEF Sound, Clean, Failed
  <1>7. Covered' /\ Settled'
    BY <1>0, <1>6 DEF Covered, Settled, Linked, Worse, Clean, Kept, Failed
  <1> QED BY <1>1, <1>2, <1>3, <1>4, <1>5, <1>7

\* Nothing better than the tip: ActivateBestChain is done.
LEMMA FindNothingInv ==
    ASSUME IndInv, FindNothing
    PROVE  IndInv'
  <1> USE DEF IndInv
  <1>0. /\ want /\ job.op \in {"free", "find"}
        /\ cand # {} => Best(cand) = tip
        /\ job' = Free /\ want' = FALSE
        /\ UNCHANGED <<index, data, failedValid, failedChild, seqId, dirty, cand, tip, coins,
                       disk, invalid, locked, rejected, forgotten, uses, restarts>>
    BY DEF FindNothing, entries, history
  <1>1. TypeOK'
    BY <1>0, FreeJob DEF TypeOK
  <1>2. job.stage = "run"
    BY <1>0, FreeJob DEF JobShape
  <1>3. JobShape' /\ CoinsNear' /\ ActiveValid' /\ NoFailedOnDisk' /\ NoFailedInChain'
    BY <1>0, FreeJob DEF JobShape, CoinsNear, Back, Ahead, ActiveValid, NoFailedInChain,
                NoFailedOnDisk, MayFail, Failed
  <1>4. DiskAgrees' /\ ForgottenLinked' /\ SeqIdsLow' /\ CandidatesGood'
    BY <1>0, <1>2, FreeJob DEF DiskAgrees, ForgottenLinked, SeqIdsLow, LinkedBlocks, Linked,
                CandidatesGood, Worse
  <1>5. Covered' /\ TargetBest'
    BY <1>0, FreeJob DEF Covered, TargetBest, Linked, Worse, Sound, Clean, Kept, Failed
  <1>6. ASSUME NEW c \in cand PROVE ~Worse(tip, c)
    BY <1>0, <1>6, BestIsBest, Facts
  <1>7. /\ Kept(tip) => tip \in cand
        /\ \A b \in Block : Linked(b) /\ Kept(b) /\ Clean(b) => ~Worse(tip, b)
    <2>1. ASSUME NEW b \in Block, Linked(b), Kept(b), ~Failed(b), ~Worse(b, tip)
          PROVE  b \in cand \/ \E c \in cand : Worse(b, c)
      BY <1>0, <2>1 DEF Covered, Sound
    <2>2. /\ Linked(tip) /\ ~Failed(tip) /\ ~Worse(tip, tip)
      BY <1>0, Facts, ChainBasic, WorseOrder
         DEF ActiveValid, Linked, LinkedIn, NoFailedInChain, MayFail, Worse
    <2>3. ASSUME Kept(tip) PROVE tip \in cand
      BY <1>6, <2>1, <2>2, <2>3, Facts
    <2>4. ASSUME NEW b \in Block, Linked(b), Kept(b), Clean(b), Worse(tip, b) PROVE FALSE
      <3>1. ~Failed(b) /\ ~Worse(b, tip)
        BY <2>4, Facts, ChainBasic, WorseOrder DEF Clean, Worse
      <3>2. CASE b \in cand
        BY <1>6, <2>4, <3>2
      <3>3. CASE \E c \in cand : Worse(b, c)
        BY <1>6, <2>4, <3>3, Facts, WorseOrder DEF Worse
      <3> QED BY <2>1, <2>4, <3>1, <3>2, <3>3
    <2> QED BY <2>3, <2>4
  <1>8. Settled'
    BY <1>0, <1>7 DEF Settled, Linked, Worse, Clean, Kept, Failed
  <1> QED BY <1>1, <1>3, <1>4, <1>5, <1>8

LEMMA FindBranchInv ==
    ASSUME IndInv, FindBranch
    PROVE  IndInv'
  <1> USE DEF IndInv
  <1> DEFINE b == Best(cand)
  <1>0. /\ want /\ job.op \in {"free", "find"}
        /\ cand # {} /\ b # tip
        /\ \A c \in Path(b) : ~Failed(c)
        /\ job' = [op |-> "activate", target |-> b, old |-> tip, stage |-> "run"]
        /\ UNCHANGED <<index, data, failedValid, failedChild, seqId, dirty, cand, tip, coins,
                       disk, want, invalid, locked, rejected, forgotten, uses, restarts>>
    BY DEF FindBranch, entries, history
  <1>1. b \in cand /\ b \in Block /\ \A c \in cand : ~Worse(b, c)
    BY <1>0, BestIsBest, Facts
  <1> HIDE DEF b
  <1>2. /\ job' \in Job /\ job'.op = "activate" /\ job'.target = b /\ job'.stage = "run"
    BY <1>0, <1>1, Facts DEF Job
  <1>3. job.stage = "run" /\ coins = tip
    BY <1>0, FreeJob DEF JobShape, CoinsNear
  <1>4. TypeOK'
    BY <1>0, <1>2 DEF TypeOK
  <1>5. JobShape' /\ CoinsNear' /\ ActiveValid'
    BY <1>0, <1>2, <1>3 DEF JobShape, CoinsNear, Back, Ahead, ActiveValid
  <1>6. NoFailedInChain' /\ NoFailedOnDisk'
    BY <1>0 DEF NoFailedInChain, NoFailedOnDisk, MayFail, Failed
  <1>7. DiskAgrees' /\ ForgottenLinked' /\ SeqIdsLow' /\ CandidatesGood'
    BY <1>0, <1>2 DEF DiskAgrees, ForgottenLinked, SeqIdsLow, LinkedBlocks, Linked,
                CandidatesGood, Worse
  <1>8. Covered' /\ Settled'
    BY <1>0, <1>2 DEF Covered, Settled, Linked, Worse, Sound, Clean, Kept, Failed
  <1>9. Clean(b)
    BY <1>0 DEF Clean, Path, NoFailedInChain, MayFail
  <1>10. TargetBest'
    BY <1>0, <1>1, <1>2, <1>9 DEF TargetBest, Worse, Clean, Failed
  <1> QED BY <1>4, <1>5, <1>6, <1>7, <1>8, <1>10

\* FindMostWorkChain drops the end of a branch that failed.
LEMMA FindDropsFailedInv ==
    ASSUME IndInv, FindDropsFailed
    PROVE  IndInv'
  <1> USE DEF IndInv
  <1> DEFINE new == Best(cand)
             bad == {b \in Path(new) : Failed(b)}
             top == CHOOSE b \in bad : \A c \in bad : Work[c] <= Work[b]
             above == {b \in Path(new) : Work[b] > Work[top]}
  <1>0. /\ want /\ job.op \in {"free", "find"} /\ cand # {} /\ bad # {}
        /\ failedChild' = failedChild \cup above
        /\ cand' = cand \ (above \cup {top})
        /\ job' = [Free EXCEPT !.op = "find"]
        /\ UNCHANGED <<index, data, failedValid, seqId, dirty, tip, coins, disk, want, invalid,
                       locked, rejected, forgotten, uses, restarts>>
    BY DEF FindDropsFailed, history
  <1>1. new \in cand /\ new \in Block /\ Linked(new)
    BY <1>0, BestIsBest, Facts DEF CandidatesGood
  <1> HIDE DEF new
  <1>2. bad \in SUBSET Block
    BY <1>1, ChainBasic DEF Path
  <1>3. top \in bad
    BY <1>0, <1>2, MostWork
  <1>4. /\ top \in chain[new] /\ top \notin chain[tip] /\ Failed(top) /\ top \in Block
    BY <1>2, <1>3 DEF Path
  <1> HIDE DEF bad, top
  <1>5. ASSUME NEW d \in above
        PROVE  d \in Block /\ d \in data /\ d \notin chain[tip] /\ top \in chain[d]
    <2>1. d \in chain[new] /\ d \notin chain[tip] /\ Work[d] > Work[top]
      BY <1>5 DEF Path
    <2>2. d \in Block /\ d \in data
      BY <1>1, <2>1, ChainBasic DEF Linked, LinkedIn
    <2>3. top \in chain[d] \/ d \in chain[top]
      BY <1>1, <1>4, <2>1, ChainLinear
    <2>4. Work[d] \in Nat /\ Work[top] \in Nat
      BY <1>4, <2>2, ChainAssumption
    <2>5. d \notin chain[top] \/ d = top
      BY <1>4, <2>1, <2>4, ChainWork
    <2> QED BY <1>4, <2>1, <2>2, <2>3, <2>5, ChainBasic
  <1> HIDE DEF above
  \* What is clean stays clean and stays a candidate.
  <1>6. ASSUME NEW c \in Block, Clean(c)
        PROVE  c \notin above \cup {top} /\ Clean(c)'
    <2>1. top \notin chain[c]
      BY <1>4, <1>6 DEF Clean
    <2>2. \A d \in chain[c] : d \notin above
      BY <1>5, <1>6, <2>1, ChainTransitive
    <2> QED BY <1>0, <1>6, <2>1, <2>2, ChainBasic DEF Clean, Failed
  <1>7. job' \in Job /\ job'.op = "find" /\ job'.stage = "run"
    BY <1>0, FreeJob
  <1>8. job.stage = "run" /\ coins = tip
    BY <1>0, FreeJob DEF JobShape, CoinsNear
  <1>9. TypeOK'
    BY <1>0, <1>5, <1>7 DEF TypeOK
  <1>10. JobShape' /\ CoinsNear' /\ ActiveValid'
    BY <1>0, <1>7, <1>8 DEF JobShape, CoinsNear, Back, Ahead, ActiveValid
  <1>11. NoFailedInChain' /\ NoFailedOnDisk'
    <2>1. \A c \in chain[tip] : ~Failed(c) /\ c \notin above
      BY <1>0, <1>5 DEF NoFailedInChain, MayFail
    <2> QED BY <1>0, <1>8, <2>1 DEF NoFailedInChain, NoFailedOnDisk, MayFail, Failed
  <1>12. DiskAgrees'
    BY <1>0, <1>7 DEF DiskAgrees
  <1>13. ForgottenLinked'
    BY <1>0 DEF ForgottenLinked, Linked
  <1>14. CandidatesGood' /\ SeqIdsLow'
    BY <1>0 DEF CandidatesGood, SeqIdsLow, LinkedBlocks, Linked, Worse
  <1>15. Covered'
    <2> SUFFICES ASSUME NEW b \in Block, Linked(b)', Kept(b)', ~Failed(b)',
                        ~WorseWith(seqId', b, tip')
                 PROVE  b \in cand' \/ \E c \in Block : Sound(c)' /\ WorseWith(seqId', b, c)
      BY DEF Covered, Worse
    <2>1. Linked(b) /\ Kept(b) /\ ~Failed(b) /\ ~Worse(b, tip) /\ b \notin above \cup {top}
      BY <1>0, <1>4 DEF Linked, Kept, Failed, Worse
    <2>2. CASE b \in cand
      BY <1>0, <2>1, <2>2
    <2>3. CASE \E c \in Block : Sound(c) /\ Worse(b, c)
      <3>1. PICK c \in Block : Sound(c) /\ Worse(b, c)
        BY <2>3
      <3>2. Sound(c)'
        BY <1>0, <1>6, <3>1 DEF Sound
      <3> QED BY <1>0, <3>1, <3>2 DEF Worse
    <2> QED BY <1>0, <2>1, <2>2, <2>3 DEF Covered
  <1>16. TargetBest' /\ Settled'
    BY <1>0, <1>7 DEF TargetBest, Settled
  <1> QED BY <1>9, <1>10, <1>11, <1>12, <1>13, <1>14, <1>15, <1>16

-----------------------------------------------------------------------------
(* Steps of ActivateBestChainStep.                                         *)

\* DisconnectTip on the way to the target.
LEMMA StepDisconnectInv ==
    ASSUME IndInv, StepDisconnect
    PROVE  IndInv'
  <1> USE DEF IndInv
  <1>0. /\ job.op = "activate" /\ job.stage = "run" /\ tip \notin chain[job.target]
        /\ coins' = Parent[tip] /\ job' = [job EXCEPT !.stage = "index"]
        /\ UNCHANGED <<index, data, failedValid, failedChild, seqId, dirty, cand, tip, disk,
                       want, invalid, locked, rejected, forgotten, uses, restarts>>
    BY DEF StepDisconnect, DisconnectTip, history
  <1>1. tip # Genesis
    BY <1>0, Facts, GenesisInChain
  <1>2. Parent[tip] \in Block /\ Parent[tip] \in chain[tip] /\ chain[Parent[tip]] \subseteq chain[tip]
    BY <1>1, Facts, ChainBasic
  <1>3. /\ job' \in Job /\ job'.op = "activate" /\ job'.target = job.target
        /\ job'.stage = "index"
    BY <1>0, StageJob DEF TypeOK
  <1>4. TypeOK'
    BY <1>0, <1>2, <1>3 DEF TypeOK, ActiveValid
  <1>5. JobShape' /\ CoinsNear'
    BY <1>0, <1>1, <1>3 DEF JobShape, CoinsNear, Back, Ahead
  <1>6. ActiveValid'
    BY <1>0, <1>2 DEF ActiveValid
  <1>7. NoFailedInChain' /\ NoFailedOnDisk'
    BY <1>0, <1>2, <1>3 DEF NoFailedInChain, NoFailedOnDisk, MayFail, Failed
  <1>8. DiskAgrees' /\ ForgottenLinked' /\ SeqIdsLow' /\ CandidatesGood'
    BY <1>0, <1>3 DEF DiskAgrees, ForgottenLinked, SeqIdsLow, LinkedBlocks, Linked,
                CandidatesGood, Worse
  <1>9. Covered' /\ TargetBest' /\ Settled'
    BY <1>0, <1>3 DEF Covered, TargetBest, Settled, Linked, Worse, Sound, Clean, Kept, Failed
  <1> QED BY <1>4, <1>5, <1>6, <1>7, <1>8, <1>9

\* The next block on the way to the target.
LEMMA NextBlock ==
    ASSUME IndInv, job.op = "activate", job.stage = "run", tip \in chain[job.target]
    PROVE  LET b == NextTo(job.target)
           IN  /\ b \in Block /\ b \in chain[job.target] /\ b # Genesis /\ Parent[b] = tip
               /\ chain[b] = {b} \cup chain[tip] /\ b \in data /\ ~Failed(b)
               /\ b \notin chain[tip] /\ tip # b
  <1> USE DEF IndInv
  <1> DEFINE b == NextTo(job.target)
  <1>1. tip # job.target /\ job.target \in cand /\ Clean(job.target) /\ Linked(job.target)
    BY DEF JobShape, TargetBest, CandidatesGood
  <1>2. \E c \in chain[job.target] : c # Genesis /\ Parent[c] = tip
    BY <1>1, Facts, ChainNext
  <1>3. b \in chain[job.target] /\ b # Genesis /\ Parent[b] = tip
    BY <1>2 DEF NextTo
  <1> HIDE DEF b
  <1>4. b \in Block /\ chain[b] = {b} \cup chain[tip]
    BY <1>3, Facts, ChainBasic
  <1>5. b \in data /\ ~Failed(b)
    BY <1>1, <1>3 DEF Linked, LinkedIn, Clean
  <1>6. Work[tip] < Work[b] /\ Work[tip] \in Nat /\ Work[b] \in Nat
    BY <1>3, <1>4, Facts, ChainAssumption
  <1>7. b \notin chain[tip] /\ tip # b
    BY <1>6, Facts, ChainWork
  <1> QED BY <1>3, <1>4, <1>5, <1>7 DEF b

\* The candidates when the tip moves one block during an activation.
LEMMA TipMoves ==
    ASSUME IndInv, job.op = "activate", NEW new \in Block,
           \/ new = tip
           \/ tip # Genesis /\ new = Parent[tip]
           \/ new # Genesis /\ Parent[new] = tip /\ new \in chain[job.target],
           NEW cd, cd = IF tip \in chain[new] THEN Pruned(cand, new) ELSE cand
    PROVE  /\ \A c \in cd : c \in cand /\ ~Worse(c, new)
           /\ \A b \in Block : Linked(b) /\ Kept(b) /\ ~Failed(b) /\ ~Worse(b, new) =>
                 b \in cd \/ \E c \in Block : Sound(c) /\ c \in cd /\ Worse(b, c)
           /\ job.target \in cd /\ \A c \in cd : ~Worse(job.target, c)
           /\ new = job.target =>
              \A b \in Block : Linked(b) /\ Kept(b) /\ Clean(b) => ~Worse(new, b)
  <1> USE DEF IndInv
  <1>0. /\ seqId \in [Block -> Nat] /\ tip \in Block /\ job.target \in Block
        /\ cand \subseteq Block
    BY Facts
  <1>1. /\ job.target \in cand /\ \A c \in cand : ~Worse(job.target, c) /\ ~Worse(c, tip)
    BY DEF TargetBest, CandidatesGood
  <1>2. ASSUME NEW b \in Block, Linked(b), Kept(b), ~Failed(b), ~Worse(b, tip)
        PROVE  b \in cand \/ \E c \in Block : Sound(c) /\ Worse(b, c)
    BY <1>2 DEF Covered
  <1>3. Linked(tip) /\ ~Failed(tip) /\ ~Worse(tip, tip) /\ Clean(tip) /\ chain[tip] \cap invalid = {}
    BY <1>0, ChainBasic, WorseOrder
       DEF ActiveValid, Linked, LinkedIn, NoFailedInChain, MayFail, Worse, Clean
  \* The tip moves back: nothing is pruned, and the old tip is covered.
  <1>4. CASE tip # Genesis /\ new = Parent[tip]
    <2>1. Work[new] < Work[tip] /\ Work[new] \in Nat /\ Work[tip] \in Nat /\ Worse(new, tip)
      BY <1>0, <1>4, ChainAssumption, WorseOrder DEF Worse
    <2>2. cd = cand
      <3>1. tip \notin chain[new]
        BY <2>1, ChainWork
      <3> QED BY <3>1
    <2>3. \A c \in cd : c \in cand /\ ~Worse(c, new)
      BY <1>0, <1>1, <2>1, <2>2, WorseOrder DEF Worse
    <2>4. ASSUME NEW b \in Block, Linked(b), Kept(b), ~Failed(b), ~Worse(b, new)
          PROVE  b \in cd \/ \E c \in Block : Sound(c) /\ c \in cd /\ Worse(b, c)
      <3>1. CASE ~Worse(b, tip)
        BY <1>2, <2>2, <2>4, <3>1 DEF Sound
      <3>2. CASE Worse(b, tip) /\ tip \in cand
        BY <1>0, <1>3, <2>2, <3>2 DEF Sound
      <3>3. CASE Worse(b, tip) /\ \E c \in Block : Sound(c) /\ Worse(tip, c)
        <4>1. PICK c \in Block : Sound(c) /\ Worse(tip, c)
          BY <3>3
        <4>2. Worse(b, c)
          BY <1>0, <3>3, <4>1, WorseOrder DEF Worse
        <4> QED BY <2>2, <4>1, <4>2 DEF Sound
      <3>4. ASSUME Worse(b, tip) PROVE Kept(tip)
        <4>1. forgotten \subseteq Block
          BY DEF TypeOK
        <4> QED BY <1>0, <2>4, <3>4, <4>1, WorseOrder DEF Kept, Worse
      <3> QED BY <1>0, <1>2, <1>3, <3>1, <3>2, <3>3, <3>4
    <2>5. new # job.target
      BY <1>1, <2>1
    <2> QED BY <1>1, <2>2, <2>3, <2>4, <2>5
  \* It stays, or moves ahead: what is worse than it is pruned.
  <1>5. CASE new = tip \/ (new # Genesis /\ Parent[new] = tip /\ new \in chain[job.target])
    <2>1. tip \in chain[new] /\ (new = tip \/ Worse(tip, new))
      BY <1>0, <1>5, ChainBasic, ChainAssumption, WorseOrder DEF Worse
    <2>2. cd = {c \in cand : ~Worse(c, new)}
      BY <2>1 DEF Pruned
    <2>3. ASSUME NEW b \in Block, Linked(b), Kept(b), ~Failed(b), ~Worse(b, new)
          PROVE  b \in cd \/ \E c \in Block : Sound(c) /\ c \in cd /\ Worse(b, c)
      <3>1. ~Worse(b, tip)
        BY <1>0, <2>1, <2>3, WorseOrder DEF Worse
      <3>2. CASE b \in cand
        BY <2>2, <2>3, <3>2
      <3>3. CASE \E c \in Block : Sound(c) /\ Worse(b, c)
        <4>1. PICK c \in Block : Sound(c) /\ Worse(b, c)
          BY <3>3
        <4>2. ~Worse(c, new)
          BY <1>0, <2>3, <4>1, WorseOrder DEF Worse
        <4> QED BY <2>2, <4>1, <4>2 DEF Sound
      <3> QED BY <1>2, <2>3, <3>1, <3>2, <3>3
    <2>4. job.target \in cd
      <3>1. CASE new = tip
        BY <1>1, <2>2, <3>1
      <3>2. CASE new \in chain[job.target]
        <4>1. new = job.target \/ Work[new] < Work[job.target]
          BY <1>0, <3>2, ChainWork
        <4>2. ~Worse(job.target, new)
          BY <1>0, <4>1, WorseOrder DEF Worse
        <4> QED BY <1>1, <2>2, <4>2
      <3> QED BY <1>5, <3>1, <3>2
    <2>5. ASSUME new = job.target, NEW b \in Block, Linked(b), Kept(b), Clean(b),
                 Worse(new, b)
          PROVE  FALSE
      <3>1. ~Failed(b) /\ ~Worse(b, new)
        BY <1>0, <2>5, ChainBasic, WorseOrder DEF Clean, Worse
      <3>2. CASE b \in cd
        BY <1>1, <2>2, <2>5, <3>2
      <3>3. CASE \E c \in Block : c \in cd /\ Worse(b, c)
        <4>1. PICK c \in Block : c \in cd /\ Worse(b, c)
          BY <3>3
        <4>2. Worse(new, c)
          BY <1>0, <2>5, <4>1, WorseOrder DEF Worse
        <4> QED BY <1>1, <2>2, <2>5, <4>1, <4>2
      <3> QED BY <2>3, <2>5, <3>1, <3>2, <3>3
    <2> QED BY <1>1, <2>2, <2>3, <2>4, <2>5
  <1> QED BY <1>4, <1>5

\* UpdateTip during an activation.
LEMMA ActivateUpdatesTip ==
    ASSUME IndInv, job.op = "activate", NEW new \in Block, coins' = new, UpdateTip,
           UNCHANGED <<index, data, failedValid, failedChild, seqId, dirty, invalid, locked,
                       rejected, forgotten, uses, restarts>>,
           \/ new = tip
           \/ tip # Genesis /\ new = Parent[tip]
           \/ new # Genesis /\ Parent[new] = tip /\ new \in chain[job.target],
           chain[new] \subseteq data, chain[new] \cap invalid = {},
           \A c \in chain[new] : ~Failed(c),
           disk' \in Disk,
           disk'.index = disk.index, disk'.data = disk.data,
           disk'.failedValid = disk.failedValid, disk'.failedChild = disk.failedChild,
           disk'.coins \in chain[new], chain[disk'.coins] \subseteq disk.data,
           \A c \in chain[disk'.coins] : c \notin disk.failedValid \cup disk.failedChild
    PROVE  IndInv'
  <1> USE DEF IndInv
  <1>0. /\ tip' = new /\ coins' = tip'
        /\ cand' = IF tip \in chain[new] THEN Pruned(cand, new) ELSE cand
        /\ \/ /\ job' = Free /\ want' = (new # job.target)
           \/ /\ job' = [job EXCEPT !.stage = "run"] /\ want' = want
              /\ new # job.target
    BY DEF UpdateTip
  <1>1. \/ /\ job' = Free /\ job'.op = "free" /\ job'.stage = "run"
           /\ (want' <=> new # job.target) /\ want' \in BOOLEAN
        \/ /\ job'.op = "activate" /\ job'.target = job.target /\ job'.stage = "run"
           /\ want' /\ want' \in BOOLEAN /\ new # job.target
    BY <1>0, StageJob, FreeJob DEF TypeOK, JobShape
  <1>2. job' \in Job
    BY <1>0, StageJob, FreeJob DEF TypeOK
  <1>3. /\ \A c \in cand' : c \in cand /\ ~Worse(c, new)
        /\ \A b \in Block : Linked(b) /\ Kept(b) /\ ~Failed(b) /\ ~Worse(b, new) =>
              b \in cand' \/ \E c \in Block : Sound(c) /\ c \in cand' /\ Worse(b, c)
        /\ job.target \in cand' /\ \A c \in cand' : ~Worse(job.target, c)
        /\ new = job.target =>
              \A b \in Block : Linked(b) /\ Kept(b) /\ Clean(b) => ~Worse(new, b)
    BY <1>0, TipMoves
  <1>4. new \in data /\ disk'.coins \in Block
    BY ChainBasic
  <1>5. TypeOK'
    BY <1>0, <1>1, <1>2, <1>3, <1>4 DEF TypeOK
  <1>6. JobShape' /\ CoinsNear'
    BY <1>0, <1>1, FreeJob DEF JobShape, CoinsNear, Back, Ahead
  <1>7. ActiveValid'
    BY <1>0, ChainTransitive DEF ActiveValid
  <1>8. NoFailedInChain' /\ NoFailedOnDisk'
    BY <1>0 DEF NoFailedInChain, NoFailedOnDisk, Failed
  <1>9. DiskAgrees' /\ ForgottenLinked' /\ SeqIdsLow'
    BY <1>1 DEF DiskAgrees, ForgottenLinked, SeqIdsLow, LinkedBlocks, Linked
  <1>10. CandidatesGood'
    BY <1>0, <1>3 DEF CandidatesGood, Linked, Worse
  <1>11. Covered'
    BY <1>0, <1>3 DEF Covered, Linked, Worse, Sound, Clean, Kept, Failed
  <1>12. TargetBest'
    BY <1>1, <1>3 DEF TargetBest, Worse, Clean, Failed
  <1>13. Settled'
    BY <1>0, <1>1, <1>3 DEF Settled, Linked, Worse, Clean, Kept, Failed
  <1> QED BY <1>5, <1>6, <1>7, <1>8, <1>9, <1>10, <1>11, <1>12, <1>13

\* ConnectTip of a valid block, with the state written before the tip moves or not.
LEMMA StepConnectInv ==
    ASSUME IndInv, StepConnect
    PROVE  IndInv'
  <1> USE DEF IndInv
  <1> DEFINE b == NextTo(job.target)
  <1>0. /\ job.op = "activate" /\ job.stage = "run" /\ tip \in chain[job.target]
        /\ b \notin invalid \cup locked /\ coins' = b
        /\ \/ UpdateTip
           \/ /\ job' = [job EXCEPT !.stage = "index"]
              /\ UNCHANGED <<tip, cand, want>>
        /\ UNCHANGED <<index, data, failedValid, failedChild, seqId, dirty, disk, invalid,
                       locked, rejected, forgotten, uses, restarts>>
    BY DEF StepConnect, entries, history
  <1>1. /\ b \in Block /\ b \in chain[job.target] /\ b # Genesis /\ Parent[b] = tip
        /\ chain[b] = {b} \cup chain[tip] /\ b \in data /\ ~Failed(b)
    BY <1>0, NextBlock
  <1> HIDE DEF b
  <1>2. /\ chain[b] \subseteq data /\ chain[b] \cap invalid = {}
        /\ \A c \in chain[b] : ~Failed(c)
    BY <1>0, <1>1 DEF ActiveValid, NoFailedInChain, MayFail
  <1>3. /\ disk' \in Disk /\ disk.coins \in chain[tip] /\ disk.coins \in chain[b]
        /\ chain[disk.coins] \subseteq disk.data
        /\ \A c \in chain[disk.coins] : c \notin disk.failedValid \cup disk.failedChild
    BY <1>0, <1>1 DEF TypeOK, CoinsNear, ActiveValid, NoFailedOnDisk, MayFail
  <1>4. CASE UpdateTip
    BY <1>0, <1>1, <1>2, <1>3, <1>4, ActivateUpdatesTip
  <1>5. CASE job' = [job EXCEPT !.stage = "index"] /\ UNCHANGED <<tip, cand, want>>
    <2>1. /\ job' \in Job /\ job'.op = "activate" /\ job'.target = job.target
          /\ job'.stage = "index"
      BY <1>0, <1>5, StageJob DEF TypeOK
    <2>2. TypeOK'
      BY <1>0, <1>1, <1>5, <2>1 DEF TypeOK
    <2>3. JobShape' /\ CoinsNear' /\ ActiveValid'
      BY <1>0, <1>1, <1>2, <1>3, <1>5, <2>1 DEF JobShape, CoinsNear, Back, Ahead, ActiveValid
    <2>4. NoFailedInChain' /\ NoFailedOnDisk'
      BY <1>0, <1>2, <1>3, <1>5, <2>1 DEF NoFailedInChain, NoFailedOnDisk, MayFail, Failed
    <2>5. DiskAgrees' /\ ForgottenLinked' /\ SeqIdsLow' /\ CandidatesGood'
      BY <1>0, <1>5, <2>1 DEF DiskAgrees, ForgottenLinked, SeqIdsLow, LinkedBlocks, Linked,
                  CandidatesGood, Worse
    <2>6. Covered' /\ TargetBest' /\ Settled'
      BY <1>0, <1>5, <2>1 DEF Covered, TargetBest, Settled, Linked, Worse, Sound, Clean, Kept, Failed
    <2> QED BY <2>2, <2>3, <2>4, <2>5, <2>6
  <1> QED BY <1>0, <1>4, <1>5

\* A block that fails, with its candidates: what cannot fail is not touched.
LEMMA StepConnectFailsInv ==
    ASSUME IndInv, StepConnectFails
    PROVE  IndInv'
  <1> USE DEF IndInv
  <1> DEFINE b == NextTo(job.target)
  <1>0. /\ job.op = "activate" /\ job.stage = "run" /\ tip \in chain[job.target]
        /\ b \in invalid \cup locked
        /\ failedValid' = failedValid \cup {b}
        /\ dirty' = dirty \cup {b}
        /\ cand' = cand \ {b}
        /\ rejected' = rejected \cup ({b} \cap locked)
        /\ job' = Free
        /\ UNCHANGED <<index, data, failedChild, seqId, tip, coins, disk, want, invalid,
                       locked, forgotten, uses, restarts>>
    BY DEF StepConnectFails, history
  <1>1. /\ b \in Block /\ b # Genesis /\ b \in data /\ b \notin chain[tip]
    BY <1>0, NextBlock
  <1> HIDE DEF b
  <1>2. b \in invalid /\ locked = {} /\ coins = tip /\ want /\ b \notin chain[coins]
    BY <1>0, <1>1 DEF JobShape, CoinsNear
  <1>3. disk.coins \in chain[tip]
    BY <1>0 DEF CoinsNear
  <1>a. job' \in Job /\ job'.op = "free" /\ job'.stage = "run"
    BY <1>0, ChainAssumption DEF Free, Job
  <1>4. TypeOK'
    BY <1>0, <1>1, <1>2, <1>a DEF TypeOK
  <1>5. JobShape' /\ CoinsNear' /\ ActiveValid'
    BY <1>0, <1>2, <1>3, <1>a DEF JobShape, CoinsNear, Back, Ahead, ActiveValid
  <1>6. NoFailedInChain' /\ NoFailedOnDisk'
    BY <1>0, <1>1, <1>2 DEF NoFailedInChain, NoFailedOnDisk, MayFail, Failed
  <1>7. DiskAgrees' /\ ForgottenLinked' /\ SeqIdsLow' /\ CandidatesGood'
    BY <1>0, <1>a DEF DiskAgrees, ForgottenLinked, SeqIdsLow, LinkedBlocks, Linked,
                CandidatesGood, Worse
  <1>8. ASSUME NEW c \in Block, Sound(c) PROVE Sound(c)'
    <2>1. b \notin chain[c] /\ c # b
      BY <1>2, <1>8, ChainBasic DEF Sound
    <2> QED BY <1>0, <1>8, <2>1 DEF Sound, Clean, Kept, Failed
  <1>9. Covered'
    BY <1>0, <1>8 DEF Covered, Linked, Worse, Kept, Failed
  <1>10. TargetBest' /\ Settled'
    BY <1>0, <1>2, <1>a DEF TargetBest, Settled
  <1> QED BY <1>4, <1>5, <1>6, <1>7, <1>9, <1>10

-----------------------------------------------------------------------------
(* FlushStateToDisk.                                                       *)

\* What a flush leaves alone when only the job, the disk and the dirty
\* entries change.
LEMMA SameIndex ==
    ASSUME IndInv, job' \in Job, disk' \in Disk, dirty' \subseteq index,
           UNCHANGED <<index, data, failedValid, failedChild, seqId, cand, tip, coins, want,
                       invalid, locked, rejected, forgotten, uses, restarts>>
    PROVE  TypeOK' /\ CandidatesGood' /\ SeqIdsLow'
  BY DEF IndInv, TypeOK, SeqIdsLow, LinkedBlocks, Linked, CandidatesGood, Worse

LEMMA FlushStartInv ==
    ASSUME IndInv, FlushStart
    PROVE  IndInv'
  <1> USE DEF IndInv
  <1>0. /\ job = Free
        /\ job' = [Free EXCEPT !.op = "flush", !.stage = "index"]
        /\ UNCHANGED <<index, data, failedValid, failedChild, seqId, dirty, cand, tip, coins,
                       disk, want, invalid, locked, rejected, forgotten, uses, restarts>>
    BY DEF FlushStart, entries, history
  <1>1. job' \in Job /\ job'.op = "flush" /\ job'.stage = "index" /\ job.op = "free"
    BY <1>0, ChainAssumption DEF Free, Job
  <1>2. disk' \in Disk /\ dirty' \subseteq index
    BY <1>0 DEF TypeOK
  <1>3. TypeOK' /\ CandidatesGood' /\ SeqIdsLow'
    BY <1>0, <1>1, <1>2, SameIndex
  <1>4. JobShape' /\ CoinsNear' /\ ActiveValid' /\ NoFailedInChain' /\ NoFailedOnDisk'
    BY <1>0, <1>1 DEF JobShape, CoinsNear, Back, Ahead, ActiveValid, NoFailedInChain,
                NoFailedOnDisk, MayFail, Failed
  <1>5. DiskAgrees' /\ ForgottenLinked'
    BY <1>0, <1>1 DEF DiskAgrees, ForgottenLinked, Linked
  <1>6. Covered' /\ TargetBest' /\ Settled'
    BY <1>0, <1>1 DEF Covered, TargetBest, Settled, Linked, Worse, Sound, Clean, Kept, Failed
  <1> QED BY <1>3, <1>4, <1>5, <1>6

\* The dirty entries are written: disk and memory agree on all but the flags
\* of FindMostWorkChain.
LEMMA FlushIndexInv ==
    ASSUME IndInv, FlushIndex
    PROVE  IndInv'
  <1> USE DEF IndInv
  <1>0. /\ job.stage = "index"
        /\ disk' = [index |-> disk.index \cup dirty,
                    data |-> Written(disk.data, data),
                    failedValid |-> Written(disk.failedValid, failedValid),
                    failedChild |-> Written(disk.failedChild, failedChild),
                    coins |-> disk.coins]
        /\ dirty' = {}
        /\ job' = [job EXCEPT !.stage = "coins"]
        /\ UNCHANGED <<index, data, failedValid, failedChild, seqId, cand, tip, coins, want,
                       invalid, locked, rejected, forgotten, uses, restarts>>
    BY DEF FlushIndex, history
  <1>1. /\ job' \in Job /\ job'.op = job.op /\ job'.target = job.target
        /\ job'.stage = "coins"
    BY <1>0, StageJob DEF TypeOK
  <1>2. /\ disk'.index = disk.index \cup dirty
        /\ disk'.data = (disk.data \ dirty) \cup (data \cap dirty)
        /\ disk'.failedValid = (disk.failedValid \ dirty) \cup (failedValid \cap dirty)
        /\ disk'.failedChild = (disk.failedChild \ dirty) \cup (failedChild \cap dirty)
        /\ disk'.coins = disk.coins
    BY <1>0 DEF Written
  <1>3. /\ disk.index \subseteq Block /\ disk.data \subseteq Block
        /\ disk.failedValid \subseteq Block /\ disk.failedChild \subseteq Block
        /\ disk.coins \in Block
    BY DEF TypeOK, Disk
  <1>4. /\ disk'.index = index /\ disk'.data = data /\ disk'.failedValid = failedValid
        /\ disk'.failedChild \subseteq failedChild
    BY <1>2, <1>3, Facts DEF DiskAgrees, TypeOK
  <1>5. disk' \in Disk /\ dirty' \subseteq index
    BY <1>0, <1>2, <1>3, <1>4, Facts DEF Disk
  <1>6. TypeOK' /\ CandidatesGood' /\ SeqIdsLow'
    BY <1>0, <1>1, <1>5, SameIndex
  <1>7. JobShape' /\ CoinsNear' /\ NoFailedInChain'
    <2>1. job.op # "free" /\ job.op # "find"
      BY <1>0 DEF JobShape, Free
    <2> QED BY <1>0, <1>1, <1>2, <2>1 DEF JobShape, CoinsNear, Back, Ahead, NoFailedInChain,
                MayFail, Failed
  \* The coins on disk are those of an active block.
  <1>8. disk.coins \in chain[tip] \cup chain[coins]
    BY Facts, ChainBasic DEF CoinsNear
  <1>9. chain[disk.coins] \subseteq chain[tip] \cup chain[coins]
    BY <1>8, Facts, ChainTransitive
  <1>10. ActiveValid'
    BY <1>0, <1>2, <1>4, <1>9 DEF ActiveValid
  <1>11. NoFailedOnDisk'
    BY <1>1, <1>2, <1>4, <1>9 DEF NoFailedOnDisk, NoFailedInChain, MayFail, Failed
  <1>12. DiskAgrees'
    BY <1>0, <1>4, Facts DEF DiskAgrees, TypeOK
  <1>13. ForgottenLinked'
    BY <1>0 DEF ForgottenLinked, Linked
  <1>14. Covered' /\ TargetBest' /\ Settled'
    BY <1>0, <1>1 DEF Covered, TargetBest, Settled, Linked, Worse, Sound, Clean, Kept, Failed
  <1> QED BY <1>6, <1>7, <1>10, <1>11, <1>12, <1>13, <1>14

\* The coins are written, and the caller of FlushStateToDisk goes on.
LEMMA FlushCoinsInv ==
    ASSUME IndInv, FlushCoins
    PROVE  IndInv'
  <1> USE DEF IndInv
  <1>0. /\ job.stage = "coins" /\ disk' = [disk EXCEPT !.coins = coins] /\ coins' = coins
        /\ IF job.op \in {"flush", "abort"}
           THEN /\ job' = IF job.op = "flush" THEN Free ELSE [job EXCEPT !.stage = "run"]
                /\ UNCHANGED <<tip, cand, want>>
           ELSE UpdateTip
        /\ UNCHANGED <<index, data, failedValid, failedChild, seqId, dirty, invalid, locked,
                       rejected, forgotten, uses, restarts>>
    BY DEF FlushCoins, entries, history
  <1>1. /\ disk' \in Disk /\ disk'.index = disk.index /\ disk'.data = disk.data
        /\ disk'.failedValid = disk.failedValid /\ disk'.failedChild = disk.failedChild
        /\ disk'.coins = coins
    BY <1>0, Facts DEF TypeOK, Disk
  <1>2. /\ dirty = {} /\ disk.data = data /\ disk.failedValid \subseteq failedValid
        /\ disk.failedChild \subseteq failedChild
    BY <1>0, Facts DEF DiskAgrees, TypeOK, Disk
  <1>3. /\ chain[coins] \subseteq data /\ chain[coins] \cap invalid = {}
        /\ coins \in chain[coins] /\ coins \in Block
    BY Facts, ChainBasic DEF ActiveValid
  <1>4. \A c \in chain[coins] : Failed(c) => MayFail(c)
    BY DEF NoFailedInChain
  <1>5. job.op \in {"flush", "abort", "activate", "invalidate"}
    BY <1>0, Facts DEF JobShape, Free
  <1>6. CASE job.op \in {"flush", "abort"}
    <2>1. /\ job' \in Job /\ job'.stage = "run"
          /\ \/ job.op = "flush" /\ job' = Free /\ job'.op = "free"
             \/ job.op = "abort" /\ job'.op = "abort"
      BY <1>0, <1>6, ChainAssumption DEF TypeOK, Job, Free
    <2>2. UNCHANGED <<tip, cand, want>>
      BY <1>0, <1>6
    <2>3. TypeOK' /\ CandidatesGood' /\ SeqIdsLow'
      <3>1. dirty' \subseteq index
        BY <1>0, <1>2
      <3> QED BY <1>0, <1>1, <2>1, <2>2, <3>1, SameIndex
    <2>4. JobShape' /\ CoinsNear'
      BY <1>0, <1>1, <1>3, <1>6, <2>1, <2>2 DEF JobShape, CoinsNear, Back, Ahead
    <2>5. ActiveValid'
      BY <1>0, <1>1, <1>2, <2>2 DEF ActiveValid
    <2>6. NoFailedInChain' /\ NoFailedOnDisk'
      BY <1>0, <1>1, <1>2, <1>6, <2>1, <2>2 DEF NoFailedInChain, NoFailedOnDisk, MayFail, Failed
    <2>7. DiskAgrees' /\ ForgottenLinked'
      BY <1>0, <1>1, <2>1, <2>2 DEF DiskAgrees, ForgottenLinked, Linked
    <2>8. Covered' /\ TargetBest' /\ Settled'
      BY <1>0, <1>6, <2>1, <2>2
         DEF Covered, TargetBest, Settled, Linked, Worse, Sound, Clean, Kept, Failed
    <2> QED BY <2>3, <2>4, <2>5, <2>6, <2>7, <2>8
  <1>7. CASE job.op = "activate"
    <2>1. UpdateTip
      BY <1>0, <1>7
    <2>2. \A c \in chain[coins] : ~Failed(c)
      BY <1>4, <1>7 DEF MayFail
    <2>3. \A c \in chain[coins] : c \notin disk.failedValid \cup disk.failedChild
      BY <1>2, <2>2 DEF Failed
    <2>4. \/ coins = tip
          \/ tip # Genesis /\ coins = Parent[tip]
          \/ coins # Genesis /\ Parent[coins] = tip /\ coins \in chain[job.target]
      BY <1>7 DEF CoinsNear, Back, Ahead
    <2> QED BY <1>0, <1>1, <1>2, <1>3, <1>7, <2>1, <2>2, <2>3, <2>4, ActivateUpdatesTip
  \* The tip goes back, and the candidates stay as good as it.
  <1>8. CASE job.op = "invalidate"
    <2>1. /\ tip' = coins /\ cand' = cand /\ want' = want
          /\ job' = [job EXCEPT !.stage = "run"]
      BY <1>0, <1>8 DEF UpdateTip
    <2>2. /\ job' \in Job /\ job'.op = "invalidate" /\ job'.target = job.target
          /\ job'.stage = "run"
      BY <1>8, <2>1, StageJob DEF TypeOK
    <2>3. coins = tip \/ Worse(coins, tip)
      BY <1>8, Facts, ChainAssumption, WorseOrder DEF CoinsNear, Back, Worse
    <2>4. TypeOK'
      BY <1>0, <1>1, <2>1, <2>2 DEF TypeOK
    <2>5. JobShape' /\ CoinsNear'
      BY <1>0, <1>1, <1>3, <1>8, <2>1, <2>2 DEF JobShape, CoinsNear, Back, Ahead
    <2>6. ActiveValid'
      BY <1>0, <1>1, <1>2, <2>1 DEF ActiveValid
    <2>7. NoFailedInChain' /\ NoFailedOnDisk'
      BY <1>0, <1>1, <1>2, <1>4, <1>8, <2>1, <2>2
         DEF NoFailedInChain, NoFailedOnDisk, MayFail, Failed
    <2>8. DiskAgrees' /\ ForgottenLinked' /\ SeqIdsLow'
      BY <1>0, <1>1, <2>2 DEF DiskAgrees, ForgottenLinked, SeqIdsLow, LinkedBlocks, Linked
    <2>9. CandidatesGood'
      BY <1>0, <2>1, <2>3, Facts, WorseOrder DEF CandidatesGood, Linked, Worse
    <2>10. Covered' /\ TargetBest' /\ Settled'
      BY <2>2 DEF Covered, TargetBest, Settled
    <2> QED BY <2>4, <2>5, <2>6, <2>7, <2>8, <2>9, <2>10
  <1> QED BY <1>5, <1>6, <1>7, <1>8

\* The node is told to shut down because the disk is full, or flushes once
\* more while it shuts down.
LEMMA AbortInv ==
    ASSUME IndInv, ShutdownFlush \/ (job.op # "invalidate" /\ FlushFails)
    PROVE  IndInv'
  <1> USE DEF IndInv
  <1>0. /\ job.op # "invalidate"
        /\ \/ job.op = "abort" /\ job' = [job EXCEPT !.stage = "index"]
           \/ job.stage = "index" /\ job' = [Free EXCEPT !.op = "abort"]
        /\ UNCHANGED <<index, data, failedValid, failedChild, seqId, dirty, cand, tip, coins,
                       disk, want, invalid, locked, rejected, forgotten, uses, restarts>>
    BY DEF ShutdownFlush, FlushFails, entries, history
  <1>1. job' \in Job /\ job'.op = "abort" /\ job'.stage # "coins"
    BY <1>0, ChainAssumption DEF TypeOK, Job, Free
  <1>2. disk' \in Disk /\ dirty' \subseteq index
    BY <1>0 DEF TypeOK
  <1>3. TypeOK' /\ CandidatesGood' /\ SeqIdsLow'
    BY <1>0, <1>1, <1>2, SameIndex
  <1>4. JobShape' /\ CoinsNear' /\ ActiveValid' /\ NoFailedInChain' /\ NoFailedOnDisk'
    BY <1>0, <1>1 DEF JobShape, CoinsNear, Back, Ahead, ActiveValid, NoFailedInChain,
                NoFailedOnDisk, MayFail, Failed
  <1>5. DiskAgrees' /\ ForgottenLinked'
    BY <1>0, <1>1 DEF DiskAgrees, ForgottenLinked, Linked
  <1>6. Covered' /\ TargetBest' /\ Settled'
    BY <1>0, <1>1 DEF Covered, TargetBest, Settled
  <1> QED BY <1>3, <1>4, <1>5, <1>6

-----------------------------------------------------------------------------
(* The operator.                                                           *)

\* invalidateblock marks the block: the active chain may hold it for now.
LEMMA InvalidateBlockInv ==
    ASSUME IndInv, NEW b \in Block, InvalidateBlock(b)
    PROVE  IndInv'
  <1> USE DEF IndInv
  <1>0. /\ job = Free /\ uses < MaxInvalidations /\ b \in index /\ b # Genesis
        /\ failedValid' = failedValid \cup {b}
        /\ dirty' = dirty \cup {b}
        /\ cand' = cand \ {b}
        /\ job' = [Free EXCEPT !.op = "invalidate", !.target = b]
        /\ uses' = uses + 1
        /\ UNCHANGED <<index, data, failedChild, seqId, tip, coins, disk, want, invalid, locked,
                       rejected, forgotten, restarts>>
    BY DEF InvalidateBlock
  <1>1. /\ job' \in Job /\ job'.op = "invalidate" /\ job'.stage = "run" /\ job'.target = b
        /\ job.op = "free"
    BY <1>0, ChainAssumption DEF Free, Job
  <1>2. uses' \in 0 .. MaxInvalidations
    BY <1>0, ChainAssumption DEF TypeOK
  <1>3. TypeOK'
    BY <1>0, <1>1, <1>2 DEF TypeOK
  <1>4. JobShape' /\ CoinsNear' /\ ActiveValid'
    BY <1>0, <1>1 DEF JobShape, CoinsNear, Back, Ahead, ActiveValid
  <1>5. NoFailedInChain' /\ NoFailedOnDisk'
    <2>1. b \in chain[b]
      BY ChainBasic
    <2> QED BY <1>0, <1>1, <2>1 DEF NoFailedInChain, NoFailedOnDisk, MayFail, Failed
  <1>6. DiskAgrees' /\ ForgottenLinked' /\ SeqIdsLow' /\ CandidatesGood'
    BY <1>0, <1>1 DEF DiskAgrees, ForgottenLinked, SeqIdsLow, LinkedBlocks, Linked,
                CandidatesGood, Worse
  <1>7. Covered' /\ TargetBest' /\ Settled'
    BY <1>1 DEF Covered, TargetBest, Settled
  <1> QED BY <1>3, <1>4, <1>5, <1>6, <1>7

\* It takes the active chain back by a block.
LEMMA InvalidateDisconnectsInv ==
    ASSUME IndInv, InvalidateDisconnects
    PROVE  IndInv'
  <1> USE DEF IndInv
  <1>0. /\ job.op = "invalidate" /\ job.stage = "run" /\ job.target \in chain[tip]
        /\ failedChild' = failedChild \cup {tip}
        /\ dirty' = dirty \cup {tip}
        /\ cand' = cand \ {tip}
        /\ coins' = Parent[tip] /\ job' = [job EXCEPT !.stage = "index"]
        /\ UNCHANGED <<index, data, failedValid, seqId, tip, disk, want, invalid, locked,
                       rejected, forgotten, uses, restarts>>
    BY DEF InvalidateDisconnects, DisconnectTip, history
  <1>1. tip # Genesis /\ tip \in Block /\ tip \in index
    BY <1>0, Facts, ChainBasic DEF JobShape, TypeOK
  <1>2. Parent[tip] \in Block /\ Parent[tip] \in chain[tip] /\ chain[Parent[tip]] \subseteq chain[tip]
    BY <1>1, ChainBasic
  <1>3. /\ job' \in Job /\ job'.op = "invalidate" /\ job'.target = job.target
        /\ job'.stage = "index"
    BY <1>0, StageJob DEF TypeOK
  <1>4. TypeOK'
    BY <1>0, <1>1, <1>2, <1>3 DEF TypeOK, ActiveValid
  <1>5. JobShape' /\ CoinsNear'
    BY <1>0, <1>1, <1>3 DEF JobShape, CoinsNear, Back, Ahead
  <1>6. ActiveValid'
    BY <1>0, <1>2 DEF ActiveValid
  <1>7. NoFailedInChain' /\ NoFailedOnDisk'
    BY <1>0, <1>2, <1>3 DEF NoFailedInChain, NoFailedOnDisk, MayFail, Failed
  <1>8. DiskAgrees' /\ SeqIdsLow' /\ CandidatesGood'
    BY <1>0, <1>3 DEF DiskAgrees, SeqIdsLow, LinkedBlocks, Linked, CandidatesGood, Worse
  <1>9. ForgottenLinked'
    BY <1>0 DEF ForgottenLinked, Linked
  <1>10. Covered' /\ TargetBest' /\ Settled'
    BY <1>3 DEF Covered, TargetBest, Settled
  <1> QED BY <1>4, <1>5, <1>6, <1>7, <1>8, <1>9, <1>10

\* It puts the candidates back.
LEMMA InvalidateEndsInv ==
    ASSUME IndInv, InvalidateEnds
    PROVE  IndInv'
  <1> USE DEF IndInv
  <1>0. /\ job.op = "invalidate" /\ job.stage = "run" /\ job.target \notin chain[tip]
        /\ cand' = cand \cup {b \in data : Linked(b) /\ ~Failed(b) /\ ~Worse(b, tip)}
        /\ job' = Free /\ want' = TRUE /\ forgotten' = {}
        /\ UNCHANGED <<index, data, failedValid, failedChild, seqId, dirty, tip, coins, disk,
                       invalid, locked, rejected, uses, restarts>>
    BY DEF InvalidateEnds, entries, history
  <1>1. job' \in Job /\ job'.op = "free" /\ job'.stage = "run"
    BY <1>0, ChainAssumption DEF Free, Job
  <1>2. coins = tip /\ disk.coins \in chain[tip]
    BY <1>0 DEF CoinsNear
  <1>3. \A c \in chain[tip] : ~MayFail(c)
    BY <1>0, Facts, ChainTransitive DEF MayFail
  <1>4. chain[disk.coins] \subseteq chain[tip]
    BY <1>2, Facts, ChainTransitive
  <1>5. TypeOK'
    BY <1>0, <1>1 DEF TypeOK
  <1>6. JobShape' /\ CoinsNear' /\ ActiveValid'
    BY <1>0, <1>1, <1>2 DEF JobShape, CoinsNear, Back, Ahead, ActiveValid
  <1>7. NoFailedInChain' /\ NoFailedOnDisk'
    <2>1. \A c \in chain[tip] :
              /\ ~Failed(c)
              /\ c \in chain[disk.coins] => c \notin disk.failedValid \cup disk.failedChild
      BY <1>3 DEF NoFailedInChain, NoFailedOnDisk
    <2> QED BY <1>0, <1>2, <1>4, <2>1 DEF NoFailedInChain, NoFailedOnDisk, Failed
  <1>8. DiskAgrees' /\ ForgottenLinked' /\ SeqIdsLow'
    BY <1>0, <1>1 DEF DiskAgrees, ForgottenLinked, SeqIdsLow, LinkedBlocks, Linked
  <1>9. CandidatesGood'
    BY <1>0 DEF CandidatesGood, Linked, Worse
  <1>10. Covered'
    <2>1. \A b \in Block : Linked(b) => b \in data
      BY ChainBasic DEF Linked, LinkedIn
    <2>2. \A b \in Block : Linked(b) /\ ~Failed(b) /\ ~Worse(b, tip) => b \in cand'
      BY <1>0, <2>1
    <2> QED BY <1>0, <2>2 DEF Covered, Linked, Worse, Failed
  <1>11. TargetBest' /\ Settled'
    BY <1>0, <1>1 DEF TargetBest, Settled
  <1> QED BY <1>5, <1>6, <1>7, <1>8, <1>9, <1>10, <1>11

\* reconsiderblock removes flags from the block, its descendants and its
\* ancestors; the ancestors that were failed are not made candidates.
LEMMA ReconsiderBlockInv ==
    ASSUME IndInv, NEW b \in Block, ReconsiderBlock(b)
    PROVE  IndInv'
  <1> USE DEF IndInv
  <1> DEFINE below == {c \in index : b \in chain[c]}
             above == chain[b]
  <1>1. UNION {Descendants(x) : x \in {b}} = below /\ UNION {chain[x] : x \in {b}} = above
    BY DEF Descendants
  <1>2. /\ job = Free /\ uses < MaxInvalidations
        /\ failedValid' = failedValid \ (below \cup above)
        /\ failedChild' = failedChild \ (below \cup above)
        /\ dirty' = dirty \cup {c \in below : Failed(c) \/ c \notin data}
                          \cup {c \in above : Failed(c)}
        /\ cand' = cand \cup {c \in below : Failed(c) /\ Linked(c) /\ Worse(tip, c)}
        /\ forgotten' = forgotten \cup {c \in above \ below : Failed(c) /\ Linked(c)}
        /\ want' = TRUE /\ uses' = uses + 1
        /\ UNCHANGED <<index, data, seqId, tip, coins, disk, job, invalid, locked, rejected,
                       restarts>>
    BY <1>1 DEF ReconsiderBlock, Reconsidered
  <1>3. above \subseteq Block /\ below \subseteq index
    BY ChainBasic
  <1> HIDE DEF below, above
  <1>4. {c \in above : Failed(c)} \subseteq index
    BY DEF Failed, TypeOK
  <1>5. uses' \in 0 .. MaxInvalidations
    BY <1>2, ChainAssumption DEF TypeOK
  <1>6. \A c \in Block : Linked(c) => c \in data
    BY ChainBasic DEF Linked, LinkedIn
  <1>7. TypeOK'
    BY <1>2, <1>3, <1>4, <1>5, <1>6, Facts DEF TypeOK
  <1>8. JobShape' /\ CoinsNear' /\ ActiveValid'
    BY <1>2, FreeJob DEF JobShape, CoinsNear, Back, Ahead, ActiveValid
  <1>9. NoFailedInChain' /\ NoFailedOnDisk'
    BY <1>2 DEF NoFailedInChain, NoFailedOnDisk, MayFail, Failed
  <1>10. DiskAgrees'
    BY <1>2, FreeJob DEF DiskAgrees, Failed
  <1>11. ForgottenLinked'
    BY <1>2, <1>3 DEF ForgottenLinked, Linked
  <1>12. CandidatesGood' /\ SeqIdsLow'
    <2>1. \A c \in below : Worse(tip, c) => ~Worse(c, tip)
      BY <1>3, Facts, WorseOrder DEF Worse
    <2> QED BY <1>2, <2>1 DEF CandidatesGood, SeqIdsLow, LinkedBlocks, Linked, Worse
  <1>13. ASSUME NEW c \in Block, Sound(c) PROVE Sound(c)'
    BY <1>2, <1>13 DEF Sound, Clean, Failed
  <1>14. Covered'
    <2> SUFFICES ASSUME NEW x \in Block, Linked(x)', Kept(x)', ~Failed(x)',
                        ~WorseWith(seqId', x, tip')
                 PROVE  x \in cand' \/ \E c \in Block : Sound(c)' /\ WorseWith(seqId', x, c)
      BY DEF Covered, Worse
    <2>1. Linked(x) /\ Kept(x) /\ ~Worse(x, tip) /\ x \notin forgotten'
      <3>1. ~WorseWith(seqId, x, x)
        BY Facts, WorseOrder
      <3> QED BY <1>2, <3>1 DEF Linked, Kept, Worse
    <2>2. CASE ~Failed(x)
      BY <1>2, <1>13, <2>1, <2>2, FreeJob DEF Covered, Worse
    <2>3. CASE Failed(x)
      <3>1. x \in below
        BY <1>2, <2>1, <2>3 DEF Failed
      <3>2. ~Failed(tip)
        BY <1>2, Facts, ChainBasic, FreeJob DEF NoFailedInChain, MayFail
      <3>3. Worse(tip, x)
        BY <2>1, <2>3, <3>2, Facts, WorseOrder DEF Worse
      <3> QED BY <1>2, <2>1, <2>3, <3>1, <3>3
    <2> QED BY <2>2, <2>3
  <1>15. TargetBest' /\ Settled'
    BY <1>2, FreeJob DEF TargetBest, Settled
  <1> QED BY <1>7, <1>8, <1>9, <1>10, <1>11, <1>12, <1>14, <1>15

-----------------------------------------------------------------------------
(* New blocks.                                                             *)

\* There is a highest sequence number.
LEMMA HighestIsHighest ==
    ASSUME IndInv
    PROVE  /\ Highest \in Nat /\ \A b \in Block : seqId[b] <= Highest
           /\ Highest <= Cardinality(LinkedBlocks) /\ Cardinality(LinkedBlocks) \in Nat
  <1> USE DEF IndInv
  <1> DEFINE T == {k \in Nat : \A b \in Block : seqId[b] <= k}
  <1>1. seqId \in [Block -> Nat] /\ Genesis \in Block
    BY Facts, ChainAssumption
  <1>2. Cardinality(LinkedBlocks) \in Nat
    <2>1. LinkedBlocks \in SUBSET Block
      BY DEF LinkedBlocks
    <2> QED BY <2>1, ChainAssumption, FS_Subset, FS_CardinalityType
  <1>3. Cardinality(LinkedBlocks) \in T
    BY <1>2 DEF SeqIdsLow
  <1>4. PICK m \in T : \A n \in T : m <= n
    <2>1. T \in SUBSET Nat /\ T # {}
      BY <1>3
    <2> QED BY <2>1, LeastNat
  <1>5. \E b \in Block : seqId[b] = m
    <2> SUFFICES ASSUME \A b \in Block : seqId[b] # m PROVE FALSE
      OBVIOUS
    <2>1. m \in Nat /\ \A b \in Block : seqId[b] < m
      BY <1>1, <1>4
    <2>2. m - 1 \in T
      BY <1>1, <2>1
    <2> QED BY <1>4, <2>1, <2>2
  <1>6. \E n \in {seqId[b] : b \in Block} : \A b \in Block : seqId[b] <= n
    BY <1>4, <1>5
  <1>7. Highest \in {seqId[b] : b \in Block} /\ \A b \in Block : seqId[b] <= Highest
    BY <1>6 DEF Highest
  <1> QED BY <1>1, <1>2, <1>7 DEF SeqIdsLow

\* Blocks that get their sequence number when b gets its data.
LEMMA NewNumbers ==
    ASSUME IndInv, NEW b \in Block, b \notin data,
           data' = data \cup {b}, seqId' = Numbered(NewlyLinked(b))
    PROVE  /\ seqId' \in [Block -> 0 .. Cardinality(Block)]
           /\ SeqIdsLow'
           /\ \A c \in Block : c \notin NewlyLinked(b) => seqId'[c] = seqId[c]
           /\ \A c \in Block : Linked(c) => c \notin NewlyLinked(b) /\ Linked(c)'
           /\ \A c \in Block : Linked(c)' => Linked(c) \/ c \in NewlyLinked(b)
           /\ \A c \in NewlyLinked(b) : c \in Block /\ c \in data' /\ Linked(c)'
  <1> USE DEF IndInv
  <1> DEFINE new == NewlyLinked(b)
             upto(c) == {d \in new : Work[d] < Work[c] \/ (Work[d] = Work[c] /\ Address[d] <= Address[c])}
  <1>1. /\ \A c \in Block : Linked(c) => c \notin new /\ Linked(c)'
        /\ \A c \in Block : Linked(c)' => Linked(c) \/ c \in new
        /\ \A c \in new : c \in Block /\ c \in data' /\ Linked(c)'
    BY Facts, ChainBasic DEF NewlyLinked, Linked, LinkedIn
  <1>2. /\ \A c \in Block : c \in new => seqId'[c] = Highest + Cardinality(upto(c))
        /\ \A c \in Block : c \notin new => seqId'[c] = seqId[c]
        /\ DOMAIN seqId' = Block /\ seqId' = [c \in Block |-> seqId'[c]]
    BY DEF Numbered
  <1> HIDE DEF new
  <1>3. LinkedBlocks' = LinkedBlocks \cup new /\ LinkedBlocks \cap new = {}
    BY <1>1 DEF LinkedBlocks
  <1>4. /\ IsFiniteSet(LinkedBlocks) /\ IsFiniteSet(new) /\ IsFiniteSet(Block)
        /\ Cardinality(new) \in Nat /\ Cardinality(LinkedBlocks) \in Nat
        /\ Cardinality(Block) \in Nat
    <2>1. LinkedBlocks \in SUBSET Block /\ new \in SUBSET Block
      BY <1>1 DEF LinkedBlocks
    <2> QED BY <2>1, ChainAssumption, FS_Subset, FS_CardinalityType
  <1>5. Cardinality(LinkedBlocks') = Cardinality(LinkedBlocks) + Cardinality(new)
    <2>1. Cardinality(LinkedBlocks \cap new) = 0
      BY <1>3, FS_EmptySet
    <2>2. Cardinality(LinkedBlocks \cup new)
             = Cardinality(LinkedBlocks) + Cardinality(new) - Cardinality(LinkedBlocks \cap new)
      BY <1>4, FS_Union
    <2> QED BY <1>3, <1>4, <2>1, <2>2
  <1>6. Cardinality(LinkedBlocks') <= Cardinality(Block)
    <2>1. LinkedBlocks' \in SUBSET Block
      BY DEF LinkedBlocks
    <2> QED BY <1>4, <2>1, FS_Subset
  <1>7. ASSUME NEW c \in Block
        PROVE  Cardinality(upto(c)) \in Nat /\ Cardinality(upto(c)) <= Cardinality(new)
    <2>1. upto(c) \in SUBSET new
      OBVIOUS
    <2> HIDE DEF upto
    <2> QED BY <1>4, <2>1, FS_Subset, FS_CardinalityType
  <1> HIDE DEF upto
  <1>8. ASSUME NEW c \in Block
        PROVE  seqId'[c] \in Nat /\ seqId'[c] <= Cardinality(LinkedBlocks')
    <2>1. CASE c \in new
      BY <1>2, <1>4, <1>5, <1>7, <2>1, HighestIsHighest
    <2>2. CASE c \notin new
      <3>1. seqId[c] \in Nat /\ seqId[c] <= Cardinality(LinkedBlocks)
        BY Facts DEF SeqIdsLow
      <3> QED BY <1>2, <1>4, <1>5, <2>2, <3>1
    <2> QED BY <2>1, <2>2
  <1>9. SeqIdsLow'
    BY <1>8 DEF SeqIdsLow
  <1>10. \A c \in Block : seqId'[c] \in 0 .. Cardinality(Block)
    <2>1. Cardinality(LinkedBlocks') \in Nat
      BY <1>4, <1>5
    <2> QED BY <1>4, <1>6, <1>8, <2>1
  <1>11. seqId' \in [Block -> 0 .. Cardinality(Block)]
    BY <1>2, <1>10
  <1> QED BY <1>1, <1>2, <1>9, <1>11 DEF new

\* A block with its data.
LEMMA AcceptBlockInv ==
    ASSUME IndInv, NEW b \in Block \ {Genesis}, AcceptBlock(b)
    PROVE  IndInv'
  <1> USE DEF IndInv
  <1>0. /\ job = Free /\ b \notin data
        /\ index' = index \cup {b} /\ dirty' = dirty \cup {b} /\ data' = data \cup {b}
        /\ seqId' = Numbered(NewlyLinked(b))
        /\ cand' = cand \cup NewCandidates(b, seqId')
        /\ want' = TRUE
        /\ UNCHANGED <<failedValid, failedChild, tip, coins, disk, job, invalid, locked,
                       rejected, forgotten, uses, restarts>>
    BY DEF AcceptBlock, history
  <1>1. /\ seqId' \in [Block -> 0 .. Cardinality(Block)]
        /\ SeqIdsLow'
        /\ \A c \in Block : c \notin NewlyLinked(b) => seqId'[c] = seqId[c]
        /\ \A c \in Block : Linked(c) => c \notin NewlyLinked(b) /\ Linked(c)'
        /\ \A c \in Block : Linked(c)' => Linked(c) \/ c \in NewlyLinked(b)
        /\ \A c \in NewlyLinked(b) : c \in Block /\ c \in data' /\ Linked(c)'
    BY <1>0, NewNumbers
  <1>2. cand' = cand \cup {c \in NewlyLinked(b) : ~WorseWith(seqId', c, tip)}
    BY <1>0 DEF NewCandidates
  \* The order of the blocks that were linked before is the same.
  <1>3. ASSUME NEW x \in Block, NEW y \in Block, Linked(x), Linked(y)
        PROVE  WorseWith(seqId', x, y) <=> WorseWith(seqId, x, y)
    BY <1>1, <1>3 DEF WorseWith
  <1>4. Linked(tip) /\ tip \in Block /\ job.op = "free" /\ job.stage = "run"
    BY <1>0, Facts, FreeJob DEF ActiveValid, Linked, LinkedIn
  <1>5. TypeOK'
    BY <1>0, <1>1, <1>2 DEF TypeOK
  <1>6. JobShape' /\ CoinsNear' /\ ActiveValid'
    BY <1>0 DEF JobShape, CoinsNear, Back, Ahead, ActiveValid
  <1>7. NoFailedInChain' /\ NoFailedOnDisk' /\ ForgottenLinked'
    BY <1>0, <1>1 DEF NoFailedInChain, NoFailedOnDisk, MayFail, Failed, ForgottenLinked
  <1>8. DiskAgrees'
    BY <1>0, <1>4 DEF DiskAgrees
  <1>9. CandidatesGood'
    <2>1. ASSUME NEW c \in cand PROVE Linked(c)' /\ ~WorseWith(seqId', c, tip)
      BY <1>1, <1>3, <1>4, Facts DEF CandidatesGood, Worse
    <2> QED BY <1>0, <1>1, <1>2, <2>1 DEF CandidatesGood, Worse
  <1>10. Covered'
    <2> SUFFICES ASSUME NEW x \in Block, Linked(x)', Kept(x)', ~Failed(x)',
                        ~WorseWith(seqId', x, tip')
                 PROVE  x \in cand' \/ \E c \in Block : Sound(c)' /\ WorseWith(seqId', x, c)
      BY DEF Covered, Worse
    <2>1. CASE x \in NewlyLinked(b)
      BY <1>0, <1>2, <2>1
    <2>2. CASE Linked(x)
      <3>1. ~Worse(x, tip) /\ ~Failed(x)
        BY <1>0, <1>3, <1>4, <2>2 DEF Worse, Failed
      <3>4. Kept(x)
        BY <1>0, <1>3, <2>2 DEF Kept, Worse, ForgottenLinked
      <3>2. CASE x \in cand
        BY <1>2, <3>2
      <3>3. CASE \E c \in Block : Sound(c) /\ Worse(x, c)
        <4>1. PICK c \in Block : Sound(c) /\ Worse(x, c)
          BY <3>3
        <4>2. Sound(c)' /\ Linked(c)
          BY <1>0, <1>2, <4>1 DEF Sound, Clean, Kept, Failed, CandidatesGood
        <4>3. WorseWith(seqId', x, c)
          BY <1>3, <2>2, <4>1, <4>2 DEF Worse
        <4> QED BY <4>2, <4>3
      <3> QED BY <1>4, <2>2, <3>1, <3>2, <3>3, <3>4 DEF Covered
    <2> QED BY <1>1, <2>1, <2>2
  <1>11. TargetBest' /\ Settled'
    BY <1>0, <1>4 DEF TargetBest, Settled
  <1> QED BY <1>1, <1>5, <1>6, <1>7, <1>8, <1>9, <1>10, <1>11

-----------------------------------------------------------------------------
(* Restarts.                                                               *)

LEMMA RestartInv ==
    ASSUME IndInv, job.op # "invalidate", Restart
    PROVE  IndInv'
  <1> USE DEF IndInv
  <1>0. /\ restarts < MaxRestarts /\ restarts' = restarts + 1
        /\ index' = disk.index /\ data' = disk.data
        /\ failedValid' = disk.failedValid /\ failedChild' = disk.failedChild
        /\ seqId' = LoadedIds /\ dirty' = {}
        /\ tip' = disk.coins /\ coins' = disk.coins
        /\ cand' = {b \in disk.data : /\ b \notin disk.failedValid \cup disk.failedChild
                                      /\ LinkedIn(disk.data, b)
                                      /\ ~WorseWith(LoadedIds, b, disk.coins)}
        /\ job' = Free /\ want' = TRUE /\ locked' = {} /\ rejected' = {} /\ forgotten' = {}
        /\ UNCHANGED <<disk, invalid, uses>>
    BY DEF Restart, LoadedPruned, Loaded
  <1>1. job' \in Job /\ job'.op = "free" /\ job'.stage = "run"
    BY <1>0, FreeJob
  <1>2. /\ disk.index \subseteq Block /\ disk.data \subseteq disk.index
        /\ disk.failedValid \subseteq disk.index /\ disk.failedChild \subseteq disk.index
        /\ disk.coins \in Block /\ disk.coins \in chain[disk.coins]
        /\ chain[disk.coins] \subseteq disk.data
    BY ChainBasic DEF TypeOK, Disk, DiskAgrees, ActiveValid
  <1>3. restarts' \in 0 .. MaxRestarts
    BY <1>0, ChainAssumption DEF TypeOK
  <1>4. LoadedIds \in [Block -> 0 .. Cardinality(Block)]
    BY Facts DEF LoadedIds
  <1>5. TypeOK'
    BY <1>0, <1>1, <1>2, <1>3, <1>4 DEF TypeOK
  <1>6. JobShape' /\ CoinsNear' /\ ActiveValid'
    BY <1>0, <1>1, <1>2 DEF JobShape, CoinsNear, Back, Ahead, ActiveValid
  <1>7. NoFailedInChain' /\ NoFailedOnDisk' /\ ForgottenLinked'
    BY <1>0 DEF NoFailedInChain, NoFailedOnDisk, MayFail, Failed, ForgottenLinked, Linked
  <1>8. DiskAgrees'
    BY <1>0, <1>1, <1>2 DEF DiskAgrees
  <1>9. CandidatesGood'
    BY <1>0 DEF CandidatesGood, Linked, Worse
  <1>10. Covered'
    <2>1. \A b \in Block : LinkedIn(disk.data, b) => b \in disk.data
      BY ChainBasic DEF LinkedIn
    <2> QED BY <1>0, <2>1 DEF Covered, Linked, Worse, Failed
  <1>11. TargetBest' /\ Settled'
    BY <1>0, <1>1 DEF TargetBest, Settled
  <1>12. SeqIdsLow'
    <2>1. Cardinality(LinkedBlocks') \in Nat
      <3>1. LinkedBlocks' \in SUBSET Block
        BY DEF LinkedBlocks
      <3> QED BY <3>1, ChainAssumption, FS_Subset, FS_CardinalityType
    <2> QED BY <1>0, <2>1 DEF SeqIdsLow, LoadedIds
  <1> QED BY <1>5, <1>6, <1>7, <1>8, <1>9, <1>10, <1>11, <1>12

-----------------------------------------------------------------------------
(* The theorems.                                                           *)

LEMMA InitInv == Init => IndInv
  <1> SUFFICES ASSUME Init PROVE IndInv
    OBVIOUS
  <1> USE DEF Init
  <1>0. Genesis \in Block /\ chain[Genesis] = {Genesis} /\ Cardinality(Block) \in Nat
    BY ChainAssumption, ChainBasic, FS_CardinalityType
  <1>1. /\ disk.index = {Genesis} /\ disk.data = {Genesis} /\ disk.coins = Genesis
        /\ disk.failedValid = {} /\ disk.failedChild = {} /\ disk \in Disk
    BY <1>0 DEF Disk
  <1>2. job \in Job /\ job.op = "free" /\ job.stage = "run"
    BY FreeJob
  <1>3. seqId \in [Block -> 0 .. Cardinality(Block)]
    BY <1>0
  <1>4. uses \in 0 .. MaxInvalidations /\ restarts \in 0 .. MaxRestarts
    BY ChainAssumption
  <1>5. TypeOK
    BY <1>0, <1>1, <1>2, <1>3, <1>4 DEF TypeOK
  <1>6. JobShape /\ CoinsNear /\ ActiveValid
    BY <1>0, <1>1, <1>2 DEF JobShape, CoinsNear, ActiveValid
  <1>7. NoFailedInChain /\ NoFailedOnDisk /\ DiskAgrees /\ ForgottenLinked
    BY <1>1, <1>2 DEF NoFailedInChain, NoFailedOnDisk, DiskAgrees, ForgottenLinked, Failed
  <1>8. \A b \in Block : Linked(b) <=> b = Genesis
    BY <1>0, ChainBasic DEF Linked, LinkedIn
  <1>9. CandidatesGood /\ Covered /\ TargetBest
    BY <1>0, <1>2, <1>5, <1>8, Facts, WorseOrder DEF CandidatesGood, Covered, TargetBest, Worse
  <1>10. Settled
    BY <1>0, <1>5, <1>8, Facts, WorseOrder DEF Settled, Worse
  <1>11. SeqIdsLow
    <2>1. Cardinality(LinkedBlocks) \in Nat
      <3>1. LinkedBlocks \in SUBSET Block
        BY DEF LinkedBlocks
      <3> QED BY <3>1, ChainAssumption, FS_Subset, FS_CardinalityType
    <2> QED BY <2>1 DEF SeqIdsLow
  <1> QED BY <1>5, <1>6, <1>7, <1>9, <1>10, <1>11 DEF IndInv

LEMMA NextInv == IndInv /\ [Next]_vars => IndInv'
  <1> SUFFICES ASSUME IndInv, [Next]_vars PROVE IndInv'
    OBVIOUS
  <1>1. CASE \E b \in Block \ {Genesis} :
                AcceptBlockHeader(b) \/ AcceptBlock(b) \/ AcceptBlockRefuses(b)
    BY <1>1, AcceptBlockHeaderInv, AcceptBlockInv, AcceptBlockRefusesInv
  <1>2. CASE Activate
    BY <1>2, FindDropsFailedInv, FindNothingInv, FindBranchInv, StepDisconnectInv,
       StepConnectInv, StepConnectFailsInv DEF Activate
  <1>3. CASE FlushStart \/ Flush \/ ShutdownFlush
    BY <1>3, FlushStartInv, FlushIndexInv, FlushCoinsInv, AbortInv DEF Flush
  <1>4. CASE \E b \in Block : InvalidateBlock(b)
    BY <1>4, InvalidateBlockInv
  <1>5. CASE InvalidateDisconnects \/ InvalidateEnds
    BY <1>5, InvalidateDisconnectsInv, InvalidateEndsInv
  <1>6. CASE \E b \in Block : ReconsiderBlock(b)
    BY <1>6, ReconsiderBlockInv
  <1>7. CASE job.op # "invalidate" /\ (FlushFails \/ Restart)
    BY <1>7, AbortInv, RestartInv
  <1>8. CASE UNCHANGED vars
    BY <1>8 DEF vars, entries, history, IndInv, TypeOK, JobShape, CoinsNear, Back, Ahead,
       ActiveValid, NoFailedInChain, NoFailedOnDisk, MayFail, DiskAgrees, ForgottenLinked,
       CandidatesGood, Covered, TargetBest, Settled, SeqIdsLow, LinkedBlocks, Linked, Worse,
       Sound, Clean, Kept, Failed
  <1> QED BY <1>1, <1>2, <1>3, <1>4, <1>5, <1>6, <1>7, <1>8 DEF Next

LEMMA Invariance == Spec => []IndInv
  BY InitInv, NextInv, PTL DEF Spec

\* Every reachable state has its type: sequence numbers stay below the number
\* of blocks, the candidates and the tip have their data.
THEOREM TypeCorrect == Spec => []TypeOK
  <1>1. IndInv => TypeOK
    BY DEF IndInv
  <1> QED BY <1>1, Invariance, PTL

\* ActivateBestChain never overlooks a branch: whenever cs_main is free, every
\* better branch that is not known to be invalid is a candidate or has a better
\* one among the candidates, and when no thread is in ActivateBestChain the set
\* has what is as good as the tip and nothing else.  This is for the blocks that
\* are better than every ancestor that a reconsiderblock made valid again.
THEOREM CandidatesAreComplete == Spec => []CandidatesComplete
  <1>1. ASSUME IndInv PROVE CandidatesComplete
    <2> USE <1>1 DEF IndInv
    <2> SUFFICES ASSUME job = Free
                 PROVE  /\ \A b \in Remembered :
                              Linked(b) /\ Worse(tip, b) /\ Clean(b) =>
                                 \E c \in cand : (c = b \/ Worse(b, c)) /\ Clean(c)
                        /\ ~want => /\ Stray = {}
                                    /\ \A b \in Missing \cap Remembered : ~Clean(b)
      BY DEF CandidatesComplete
    <2>1. job.op = "free"
      BY FreeJob
    <2>2. ASSUME NEW b \in Remembered, Linked(b), Worse(tip, b), Clean(b)
          PROVE  \E c \in cand : (c = b \/ Worse(b, c)) /\ Clean(c)
      <3>1. b \in Block /\ Kept(b) /\ ~Failed(b) /\ ~Worse(b, tip)
        BY <2>2, Facts, ChainBasic, WorseOrder DEF Clean, Worse, Remembered
      <3>2. b \in cand \/ \E c \in Block : Sound(c) /\ Worse(b, c)
        BY <2>1, <2>2, <3>1 DEF Covered
      <3> QED BY <2>2, <3>2 DEF Sound
    <2>3. ASSUME ~want, NEW b \in Missing \cap Remembered, Clean(b)
          PROVE  FALSE
      <3>1. b \in Block /\ Linked(b) /\ Kept(b) /\ ~Worse(b, tip) /\ b \notin cand
        BY Facts DEF Missing, Remembered
      <3>2. ~Worse(tip, b) /\ (Kept(tip) => tip \in cand)
        BY <2>1, <2>3, <3>1 DEF Settled
      <3>3. b = tip
        BY <3>1, <3>2, Facts, WorseOrder DEF Worse
      <3> QED BY <3>1, <3>2, <3>3
    <2>4. Stray = {}
      BY DEF Stray, CandidatesGood, TypeOK
    <2> QED BY <2>2, <2>3, <2>4
  <1> QED BY <1>1, Invariance, PTL

\* ActivateBestChain ends with the best chain active: when no thread is in it,
\* no branch with its data and no failed block is better than the active chain,
\* whatever failed, was invalidated or reconsidered, or was lost in a crash.
\* This is for the blocks that are better than every ancestor that a
\* reconsiderblock made valid again.
THEOREM BestChainIsActive == Spec => []BestChainActive
  <1>1. ASSUME IndInv PROVE BestChainActive
    <2>1. job = Free => job.op = "free"
      BY FreeJob
    <2> QED BY <1>1, <2>1, Facts DEF IndInv, BestChainActive, NothingBetter, Remembered, Settled
  <1> QED BY <1>1, Invariance, PTL

\* While cs_main is free no block of the active chain is failed: neither the
\* flags of a connection that failed nor those a restart reads from disk.
THEOREM ActiveChainClean == Spec => []NoFailedActive
  <1>1. ASSUME IndInv PROVE NoFailedActive
    <2>1. job = Free => job.op = "free"
      BY FreeJob
    <2> QED BY <1>1, <2>1 DEF IndInv, NoFailedActive, Clean, NoFailedInChain, MayFail
  <1> QED BY <1>1, Invariance, PTL

\* A crash at any step, except inside invalidateblock, leaves a disk from which
\* LoadBlockIndexDB starts: the block of the coins is in the index with its
\* data, and it is itself a candidate.
THEOREM StartsAgainAfterCrash == Spec => []StartsAgainUnlessInvalidating
  <1>1. ASSUME IndInv, job.op # "invalidate" PROVE StartsAgain
    <2> USE <1>1 DEF IndInv
    <2>1. disk.coins \in Block /\ disk.coins \in chain[disk.coins]
      BY Facts, ChainBasic
    <2>2. /\ disk.coins \in disk.data /\ LinkedIn(disk.data, disk.coins)
          /\ disk.coins \notin disk.failedValid \cup disk.failedChild
      BY <1>1, <2>1 DEF ActiveValid, NoFailedOnDisk, MayFail, LinkedIn
    <2>3. ~WorseWith(LoadedIds, disk.coins, disk.coins)
      BY <2>1, Facts, WorseOrder
    <2> QED BY <2>2, <2>3 DEF StartsAgain, LoadedPruned, Loaded
  <1>2. IndInv => StartsAgainUnlessInvalidating
    BY <1>1 DEF StartsAgainUnlessInvalidating
  <1> QED BY <1>2, Invariance, PTL

\* PruneBlockIndexCandidates: "Either the current tip or a successor of it
\* we're working towards is left in setBlockIndexCandidates", so its assertion
\* that the set is not empty holds.  Without a forgotten ancestor,
\* FindMostWorkChain always has a candidate.
CandidatesLeft ==
    /\ job.op \notin {"invalidate", "abort"} /\ forgotten = {} => cand # {}
    /\ job.op = "activate" => job.target \in cand /\ ~Worse(job.target, tip)

THEOREM SomeCandidateLeft == Spec => []CandidatesLeft
  <1>1. ASSUME IndInv PROVE CandidatesLeft
    <2> USE <1>1 DEF IndInv
    <2>1. ASSUME job.op \notin {"invalidate", "abort"}, forgotten = {} PROVE cand # {}
      <3>1. Linked(tip) /\ ~Failed(tip) /\ ~Worse(tip, tip) /\ tip \in Block
        BY <2>1, Facts, ChainBasic, WorseOrder
           DEF ActiveValid, Linked, LinkedIn, NoFailedInChain, MayFail, Worse
      <3> QED BY <2>1, <3>1 DEF Covered, Sound, Kept
    <2> QED BY <2>1 DEF CandidatesLeft, TargetBest, CandidatesGood
  <1> QED BY <1>1, Invariance, PTL
=============================================================================
