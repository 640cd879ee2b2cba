----------------------------- MODULE MCWifiScan -----------------------------
\* Three clients, a list of two access points and scans that find up to three.
EXTENDS WifiScan

CONSTANTS c1, c2, c3
=============================================================================
