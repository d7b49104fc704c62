--------------------------- MODULE MC_PortalAccess ---------------------------
EXTENDS PortalAccess
=============================================================================
