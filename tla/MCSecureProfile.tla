---------------------------- MODULE MCSecureProfile ----------------------------
EXTENDS SecureProfile
================================================================================
