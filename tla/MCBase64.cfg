\* Every input of up to four bytes at the edges, every byte, every cut of the text.
CONSTANTS
  Inputs <- EdgeInputs
SPECIFICATION Spec
INVARIANTS EncodesReference RoundTrip
\* The calls return.
CHECK_DEADLOCK FALSE
