----------------------------- MODULE MCProgram -----------------------------
EXTENDS Program

MCCharacters ==
  {"GET", "POST", "/", "info", "pair", "X", "Y", "z", "C", "Seq", "0", "1", "2", "a", "b"}
MCNumerals == <<"1", "2">>
MCBufferSizes == {1024, 2048, 4096}
MCDataLengths == {142, 1000}
MCHeaderValues == {76}
MCSendLengths == {1200, 5000}
=============================================================================
