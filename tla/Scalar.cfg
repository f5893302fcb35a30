SPECIFICATION ScalarSpec
CONSTANTS
  Unit = 2
  Short = 2
  Long = 5
  Float <- MCFloat
  Double <- MCDouble
  LongDouble <- MCLongDouble
  Imaginary <- MCImaginary
  NoReply = NoReply
INVARIANTS
  RoundTrip
  IntegersExact
  RealsNearest
  ComplexFaithful
