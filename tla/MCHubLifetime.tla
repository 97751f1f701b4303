--------------------------- MODULE MCHubLifetime ----------------------------
\* Two managers, so that one may be told "already serving" by the other's hub.
EXTENDS HubLifetime
=============================================================================
