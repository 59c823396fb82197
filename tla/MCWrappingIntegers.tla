------------------------ MODULE MCWrappingIntegers ------------------------
EXTENDS WrappingIntegersSpec
===========================================================================
