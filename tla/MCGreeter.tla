------------------------------ MODULE MCGreeter ------------------------------
EXTENDS Greeter
CONSTANTS alice, bob
MCUsers == <<alice, bob>>
=============================================================================
