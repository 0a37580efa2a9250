SPECIFICATION ClockSpec
CONSTANTS
  Micros = 10
  Word = 16
  Width = 4096
  Garbage = {0}
  MaxTime = 25
PROPERTY CountsMicroseconds
