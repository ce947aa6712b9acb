----------------------------- MODULE MCExt4Pool -----------------------------
EXTENDS Ext4Pool
=============================================================================
