------------------------- MODULE MCCustodyOnePrime -------------------------
EXTENDS CustodyOnePrime

MCMessages == {<<0, 0, 0, 0>>, <<1, 2, 3, 4>>, <<6, 1, 0, 2>>}
=============================================================================
