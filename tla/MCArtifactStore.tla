--------------------------- MODULE MCArtifactStore ---------------------------
EXTENDS ArtifactStore, TLC

CONSTANTS a1, a2, o1, o2

\* o1 replaces its evidence, o2 shares one content with it.
WhatOwnersStore == o1 :> {a1, a2} @@ o2 :> {a1}
=============================================================================
