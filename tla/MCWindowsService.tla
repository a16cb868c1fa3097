--------------------------- MODULE MCWindowsService ---------------------------
EXTENDS WindowsService
=============================================================================
