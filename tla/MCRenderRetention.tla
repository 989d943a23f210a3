--------------------------- MODULE MCRenderRetention ---------------------------
EXTENDS RenderRetention, TLC
=============================================================================
