-------------------------------- MODULE MCCache --------------------------------
\* Instances of Cache for TLC.
EXTENDS Cache

================================================================================
