------------------------------ MODULE MCCdcMux ------------------------------
EXTENDS CdcMux

MCBodies == {<<"query", "query", "send">>, <<"head">>, <<"tail">>, <<"head", "tail">>}
=============================================================================
