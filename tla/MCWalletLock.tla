----------------------------- MODULE MCWalletLock -----------------------------
EXTENDS WalletLock
=============================================================================
