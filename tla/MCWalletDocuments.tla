--------------------------- MODULE MCWalletDocuments ---------------------------
EXTENDS WalletDocuments
=============================================================================
