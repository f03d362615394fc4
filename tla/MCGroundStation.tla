---------------------------- MODULE MCGroundStation ----------------------------
(***************************************************************************)
(* GroundStation for TLC: what the sensors may show, and facts about the   *)
(* checksum behind the two outcomes Parse has for a damaged body.          *)
(***************************************************************************)
EXTENDS GroundStation

Checksum == INSTANCE Crc16

Nominal ==
  [time |-> 0, temperature |-> 20, battery |-> 80, cpu |-> 30, position |-> 0, velocity |-> 7,
   anomalies |-> {}]

\* A harmless reading, and one with a critical finding.
FewReadings == {Nominal, [Nominal EXCEPT !.temperature = 71]}

\* SENSOR_ANOMALY (src/simulation/faults.py) makes battery readings spike.
SpikyReadings == {[Nominal EXCEPT !.battery = b] : b \in {5, 15, 30}}

-------------------------------------------------------------------------------

SampleData ==
  {<<b>> : b \in Checksum!Byte}
    \union {<<a, b>> : a, b \in {0, 1, 90, 127, 128, 255}}
    \union {<<a, b, c>> : a, b, c \in {0, 77, 255}}

\* The table and the loop over bytes compute the remainder of the polynomial
\* division.
ASSUME TableIsTheDivision ==
  \A data \in SampleData : Checksum!Crc(data) = Checksum!Remainder(data)

SampleFrame == Checksum!Framed(<<90, 77, 1, 255>>)
FrameBits == 0 .. 47

\* One or two flipped bits never pass the check, nor does a burst of up to
\* seven neighbouring bits.
ASSUME SmallDamageIsDetected ==
  /\ \A i, j \in FrameBits : ~Checksum!PassesCheck(Checksum!Flipped(SampleFrame, {i, j}))
  /\ \A i \in FrameBits : \A burst \in SUBSET {j \in FrameBits : j \in i .. i + 6} :
       burst # {} => ~Checksum!PassesCheck(Checksum!Flipped(SampleFrame, burst))

\* Four flipped bits can: burst_errors of src/communication/rf_channel.py does
\* not guarantee a CRC failure.
ASSUME SomeDamagePasses ==
  Checksum!PassesCheck(Checksum!Flipped(SampleFrame, {0, 4, 11, 16}))
===============================================================================
