--------------------------- MODULE MCRouteSentences ---------------------------
\* The vocabularies of MCRouteTable, for the sentences of RouteSentences.
EXTENDS MCRouteTable, RouteSentences
=============================================================================
