------------------------------ MODULE CoinView ------------------------------
(***************************************************************************)
(* What the layers of coins views promise the validation code: a map from  *)
(* transaction id to unspent coins, with the block it is the state of.     *)
(* There are three such pairs, and no caches: the one on disk, the tip, and *)
(* the working copy of the block that is being connected or disconnected.  *)
(*                                                                         *)
(* The working copy starts as the tip, replaces it as a whole or is thrown *)
(* away; the disk is replaced by the tip as a whole; a crash goes back to  *)
(* the disk.  Module Coins (the flags, the lazily filled caches and the    *)
(* batch writes of coins.cpp and txdb.cpp) is shown to implement this.     *)
(***************************************************************************)

CONSTANTS TxId,     \* transaction ids
          Coins,    \* values of CCoins
          Pruned,   \* the value without an unspent output
          Block,    \* block hashes
          Genesis   \* the block the node starts from

VARIABLES coins,      \* the coins at the tip
          best,       \* the block they belong to
          working,    \* TRUE while a block is connected or disconnected
          work,       \* the coins of the working copy
          diskCoins,  \* the coins a restart finds
          diskBest    \* the block a restart finds

vars == <<coins, best, working, work, diskCoins, diskBest>>

CoinsMap == [TxId -> Coins]

Init ==
    /\ coins = [t \in TxId |-> Pruned]
    /\ best = Genesis
    /\ working = FALSE
    /\ work = coins
    /\ diskCoins = coins
    /\ diskBest = Genesis

Begin ==
    /\ ~working
    /\ working' = TRUE
    /\ UNCHANGED <<coins, best, work, diskCoins, diskBest>>

\* `work' is what a reader of the working copy sees; without a working copy
\* it is the tip.
Modify(t, c) ==
    /\ working
    /\ work' = [work EXCEPT ![t] = c]
    /\ UNCHANGED <<coins, best, working, diskCoins, diskBest>>

Commit(b) ==
    /\ working
    /\ working' = FALSE
    /\ coins' = work
    /\ best' = b
    /\ UNCHANGED <<work, diskCoins, diskBest>>

Discard ==
    /\ working
    /\ working' = FALSE
    /\ work' = coins
    /\ UNCHANGED <<coins, best, diskCoins, diskBest>>

Write ==
    /\ ~working
    /\ diskCoins' = coins
    /\ diskBest' = best
    /\ UNCHANGED <<coins, best, working, work>>

Crash ==
    /\ working' = FALSE
    /\ coins' = diskCoins
    /\ best' = diskBest
    /\ work' = diskCoins
    /\ UNCHANGED <<diskCoins, diskBest>>

Next ==
    \/ Begin
    \/ \E t \in TxId, c \in Coins : Modify(t, c)
    \/ \E b \in Block : Commit(b)
    \/ Discard
    \/ Write
    \/ Crash

Spec == Init /\ [][Next]_vars
=============================================================================
