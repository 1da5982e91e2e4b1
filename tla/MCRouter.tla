------------------------------- MODULE MCRouter -------------------------------
\* Constants of the Router's runs; the values are in the .cfg files.
EXTENDS Router
=============================================================================
