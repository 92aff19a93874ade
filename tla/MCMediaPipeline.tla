--------------------------- MODULE MCMediaPipeline ---------------------------
EXTENDS MediaPipeline

\* Every second post meets the first one's instant.
OneSlot == {1}
=============================================================================
