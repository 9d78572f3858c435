---------------------------- MODULE MCOwnerReports ----------------------------
EXTENDS OwnerReports
=============================================================================
