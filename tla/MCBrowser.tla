---------------------------- MODULE MCBrowser ----------------------------
EXTENDS Browser, TLC

AccountSymmetry == Permutations(Accounts)
=============================================================================
