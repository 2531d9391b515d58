CONSTANTS
  win = win
  lose = lose
  crash = crash
  Eof = Eof
  Data = {win, lose, crash}
  Wins = {win}
  Crashes = {crash}
  MaxTests = 3
  BuffSize = 7
  MaxIntSize = 1
  Byte <- MCByte
SPECIFICATION Spec
INVARIANTS TypeOK NoDataRace PrintsTheReport ExitTellsTheTruth
PROPERTIES Terminates ImplementsContest
