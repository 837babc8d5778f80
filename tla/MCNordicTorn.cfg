CONSTANTS
  Data = {d1, d2}
  Silence = Silence
  BOOST = 1
  MaxRefusals = 1
SPECIFICATION NordicBleSpec
INVARIANT AirNotTorn
