---------------------------- MODULE MCSignalling ----------------------------
EXTENDS Signalling

\* A title as buildSdpInformation writes it, for a main track that is muted.
MCTitles == {<<"2", "1", "Alice">>}
=============================================================================
