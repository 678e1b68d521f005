-------------------------- MODULE MCWalletSession --------------------------
EXTENDS WalletSession, TLC

CONSTANTS modal, other, w1, w2

WalletSymmetry == Permutations(Wallets)
=============================================================================
